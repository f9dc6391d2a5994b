---------------------------- MODULE MCPassSchedule ----------------------------
(***************************************************************************)
(* An instance of PassSchedule for TLC: two ticks to the second, a table of *)
(* three entries, and an orbit with passes that overlap and that contain   *)
(* one another, so that the search has to go on more than once.            *)
(***************************************************************************)
EXTENDS PassSchedule

MCListed == {[start |-> 1, duration |-> 1], [start |-> 2, duration |-> 0],
             [start |-> 3, duration |-> 1]}

MCLocations == {"nowhere", "home"}

(* At home a long pass contains a short one and overlaps a third.          *)
MCOrbit ==
  [pos \in MCLocations |->
     IF pos = "home"
       THEN {[start |-> 1, duration |-> 4], [start |-> 3, duration |-> 1],
             [start |-> 4, duration |-> 3], [start |-> 7, duration |-> 1]}
       ELSE {[start |-> 2, duration |-> 2]}]

=============================================================================
