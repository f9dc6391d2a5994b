------------------------------ MODULE KeyStore ------------------------------
(***************************************************************************)
(* The device key: crypto_key_set and _key_get of app/src/main.c, the key  *)
(* command of app/src/shell.c, and the flash behind them (app/src/nvs.c).  *)
(* Only the flash outlives a reset, which may come at any time.            *)
(*                                                                         *)
(* A key is its first bytes and its last bytes, so that it can be half     *)
(* written. The bytes themselves, and base64, are not modelled: a text     *)
(* decodes to a whole key, decodes to less (base64 of the right length     *)
(* with more padding than 32 bytes need), or is refused.                   *)
(*                                                                         *)
(* X_Fault beside X is a faulty variant that no behaviour uses.            *)
(***************************************************************************)
EXTENDS Naturals, FiniteSets

CONSTANTS
  Shells,   \* the shell threads
  Keys,     \* the keys there are
  Blank,    \* the bytes of static storage before their first use
  Faults    \* what may go wrong in the flash

Main == "main"
Writers == Shells \cup {Main}
FaultKinds == {"read", "delete", "write"}
Kinds == {"whole", "short", "refused"}
Texts == [key : Keys, kind : Kinds]

ASSUME ShellsAssumption == Main \notin Shells
ASSUME BlankAssumption == Blank \notin Keys
ASSUME FaultsAssumption == Faults \subseteq FaultKinds

VARIABLES
  builtin,   \* CONFIG_HUBBLE_DEVICE_KEY of this build, if it has one
  ram,       \* _hubble_key
  flash,     \* the entry HUBBLE_KEY_ID, if there is one
  key_sem,
  pc,        \* where each thread stands
  text,      \* the text it was given
  in_use,    \* the key main() gave to hubble_init, if it has
  kept,      \* history: the key last confirmed, in this life or an earlier one
  lapses     \* history: what has happened that a key may be lost by

vars == <<builtin, ram, flash, key_sem, pc, text, in_use, kept, lapses>>

LapseKinds == {"short", "overlap", "retyped", "failed", "unread", "cut"}
Steps == {"head", "tail", "delete", "write", "give"}
Places == Steps \cup {"idle", "boot", "wait", "run"}

Zero == [head |-> Blank, tail |-> Blank]
Whole(k) == k.head = k.tail

Busy(w) == pc[w] \in Steps

Goto(w, label) == pc' = [pc EXCEPT ![w] = label]
Note(l) == lapses' = lapses \cup l

NoText == [key |-> Blank, kind |-> "refused"]

Start == [w \in Writers |-> IF w = Main THEN "boot" ELSE "idle"]

Init ==
  /\ builtin \in {{}} \cup {{x} : x \in Texts}
  /\ ram = Zero /\ key_sem = 0 /\ in_use = {}
  /\ pc = Start /\ text = [w \in Writers |-> NoText]
  /\ flash = {} /\ kept = {} /\ lapses = {}

-----------------------------------------------------------------------------
(* crypto_key_set. The length is checked, and base64_decode looks at the   *)
(* whole text before it writes a byte: a refused text changes nothing.     *)

Accepted(x) == x.kind # "refused"

(* What has to be known of the moment a text is accepted: another thread is *)
(* at it, main() has yet to take the last key, the text is a short one.    *)
Circumstances(w, x) ==
  (IF \E v \in Writers \ {w} : Busy(v) THEN {"overlap"} ELSE {})
    \cup (IF key_sem = 1 THEN {"retyped"} ELSE {})
    \cup (IF x.kind = "short" THEN {"short"} ELSE {})

CryptoKeySet(w, x) ==
  /\ Accepted(x)
  /\ text' = [text EXCEPT ![w] = x]
  /\ Goto(w, "head")
  /\ Note(Circumstances(w, x))

DecodeHead_NoTail(w) ==
  /\ pc[w] = "head"
  /\ ram' = [ram EXCEPT !.head = text[w].key]
  /\ Goto(w, "delete")
  /\ UNCHANGED <<builtin, flash, key_sem, text, in_use, kept, lapses>>

DecodeHead(w) ==
  /\ pc[w] = "head"
  /\ ram' = [ram EXCEPT !.head = text[w].key]
  /\ Goto(w, IF text[w].kind = "whole" THEN "tail" ELSE "delete")
  /\ UNCHANGED <<builtin, flash, key_sem, text, in_use, kept, lapses>>

DecodeTail(w) ==
  /\ pc[w] = "tail"
  /\ ram' = [ram EXCEPT !.tail = text[w].key]
  /\ Goto(w, "delete")
  /\ UNCHANGED <<builtin, flash, key_sem, text, in_use, kept, lapses>>

(* hubble_nvs_write: the entry is deleted, then written. The result of the *)
(* first is dropped here, the result of the second by crypto_key_set.      *)
NvsDelete(w) ==
  /\ pc[w] = "delete"
  /\ flash' = {} \/ ("delete" \in Faults /\ UNCHANGED flash)
  /\ Goto(w, "write")
  /\ UNCHANGED <<builtin, ram, key_sem, text, in_use, kept, lapses>>

NvsWrite_IfDeleted(w) ==
  /\ pc[w] = "write"
  /\ \/ flash' = (IF flash = {} THEN {ram} ELSE flash) /\ UNCHANGED lapses
     \/ "write" \in Faults /\ UNCHANGED flash /\ Note({"failed"})
  /\ Goto(w, "give")
  /\ UNCHANGED <<builtin, ram, key_sem, text, in_use, kept>>

NvsWrite(w) ==
  /\ pc[w] = "write"
  /\ \/ flash' = {ram} /\ UNCHANGED lapses
     \/ "write" \in Faults /\ UNCHANGED flash /\ Note({"failed"})
  /\ Goto(w, "give")
  /\ UNCHANGED <<builtin, ram, key_sem, text, in_use, kept>>

(* k_sem_give(&key_sem), and the command has succeeded.                    *)
SemGive_Counting == key_sem + 1
SemGive == 1

Confirm(w) ==
  /\ pc[w] = "give"
  /\ key_sem' = SemGive
  /\ kept' = {ram}
  /\ Goto(w, IF w = Main THEN "wait" ELSE "idle")
  /\ text' = [text EXCEPT ![w] = NoText]
  /\ UNCHANGED <<builtin, ram, flash, in_use, lapses>>

-----------------------------------------------------------------------------
(* The key command, at any time.                                           *)
ShellKey(s) ==
  /\ pc[s] = "idle"
  /\ \E x \in Texts : CryptoKeySet(s, x)
  /\ UNCHANGED <<builtin, ram, flash, key_sem, in_use, kept>>

(* _key_get at the start of main(): the key found in the flash is loaded   *)
(* and key_sem given. Without one, the key built in is set like any other, *)
(* unless it is refused: then main() waits for the shell.                  *)
BootRead_NoGive ==
  /\ pc[Main] = "boot"
  /\ ram' \in flash
  /\ Goto(Main, "wait")
  /\ Note(IF \E s \in Shells : Busy(s) THEN {"overlap"} ELSE {})
  /\ UNCHANGED <<builtin, flash, key_sem, text, in_use, kept>>

BootRead ==
  /\ pc[Main] = "boot"
  /\ ram' \in flash
  /\ key_sem' = SemGive
  /\ Goto(Main, "wait")
  /\ Note(IF \E s \in Shells : Busy(s) THEN {"overlap"} ELSE {})
  /\ UNCHANGED <<builtin, flash, text, in_use, kept>>

Unread == flash = {} \/ "read" \in Faults

BootBuiltin ==
  /\ pc[Main] = "boot"
  /\ Unread
  /\ \E x \in builtin :
       /\ Accepted(x)
       /\ text' = [text EXCEPT ![Main] = x]
       /\ Goto(Main, "head")
       /\ Note(Circumstances(Main, x)
                 \cup IF flash = {} THEN {} ELSE {"unread"})
  /\ UNCHANGED <<builtin, ram, flash, key_sem, in_use, kept>>

BootWithoutKey ==
  /\ pc[Main] = "boot"
  /\ Unread
  /\ \A x \in builtin : ~Accepted(x)
  /\ Goto(Main, "wait")
  /\ Note(IF flash = {} THEN {} ELSE {"unread"})
  /\ UNCHANGED <<builtin, ram, flash, key_sem, text, in_use, kept>>

(* k_sem_take(&key_sem, K_FOREVER), then hubble_init with the key in RAM.  *)
WaitKey ==
  /\ pc[Main] = "wait"
  /\ key_sem = 1
  /\ key_sem' = 0
  /\ in_use' = {ram}
  /\ Goto(Main, "run")
  /\ UNCHANGED <<builtin, ram, flash, text, kept, lapses>>

(* Power is lost or the device restarts. A command between the deletion    *)
(* and the writing is cut; one that had only its confirmation left counts  *)
(* as done.                                                                *)
Reset ==
  /\ ram' = Zero /\ key_sem' = 0 /\ in_use' = {}
  /\ pc' = Start /\ text' = [w \in Writers |-> NoText]
  /\ Note(IF \E w \in Writers : pc[w] = "write" THEN {"cut"} ELSE {})
  /\ kept' = (IF \E w \in Writers : pc[w] = "give" THEN flash ELSE kept)
  /\ UNCHANGED <<builtin, flash>>

-----------------------------------------------------------------------------
Step(w) ==
  DecodeHead(w) \/ DecodeTail(w) \/ NvsDelete(w) \/ NvsWrite(w) \/ Confirm(w)

MainStep == BootRead \/ BootBuiltin \/ BootWithoutKey \/ WaitKey

Next ==
  \/ \E w \in Writers : Step(w)
  \/ \E s \in Shells : ShellKey(s)
  \/ MainStep
  \/ Reset

(* A thread goes on when it can. Nobody has to type a key, or to reset.    *)
Fairness ==
  /\ \A w \in Writers : WF_vars(Step(w))
  /\ WF_vars(MainStep)

Spec == Init /\ [][Next]_vars /\ Fairness

-----------------------------------------------------------------------------
KeyBytes == [head : Keys \cup {Blank}, tail : Keys \cup {Blank}]

TypeOK ==
  /\ builtin \subseteq Texts
  /\ ram \in KeyBytes
  /\ flash \subseteq KeyBytes /\ Cardinality(flash) <= 1
  /\ kept \subseteq KeyBytes /\ Cardinality(kept) <= 1
  /\ in_use \subseteq KeyBytes /\ Cardinality(in_use) <= 1
  /\ key_sem \in {0, 1}
  /\ pc \in [Writers -> Places]
  /\ text \in [Writers -> Texts \cup {NoText}]
  /\ lapses \subseteq LapseKinds

(* A key the device has confirmed is the one the next start will find      *)
(* (main.c:158-185, nvs.c:51-60, README.md:97), whenever that start comes  *)
(* and however often, while no command is between its deletion and its     *)
(* confirmation. What it takes to lose it: a failed writing, a reset within*)
(* one, a failed reading, which lets the key built in replace it, or two   *)
(* commands at a time. A failed deletion loses nothing.                    *)
KeySurvives ==
  lapses \cap {"failed", "cut", "unread", "overlap"} = {} =>
    /\ (\A w \in Writers : pc[w] \notin {"write", "give"}) => flash = kept
    /\ \A w \in Writers : pc[w] = "give" => flash = {ram}
    /\ pc[Main] \in {"wait", "run"} /\ (\A w \in Writers : ~Busy(w))
         => kept = {} \/ kept = {ram}

(* No two keys are ever mixed (main.c:167-171, 223-226): what is in the    *)
(* flash and what main() starts the SDK with are the bytes of one text, if *)
(* no text was short, no two commands ran at once, and no key was typed    *)
(* again before main() had taken the first.                                *)
KeyWhole ==
  /\ lapses \cap {"short", "overlap"} = {} =>
       /\ \A k \in flash : Whole(k) /\ k # Zero
       /\ Whole(ram) \/ \E w \in Writers : pc[w] = "tail"
  /\ lapses \cap {"short", "overlap", "retyped"} = {} =>
       \A k \in in_use : Whole(k) /\ k # Zero

(* main() goes on once it has a key (main.c:198-206, 223): it does not wait *)
(* for ever beside one, neither after a start that found the key, nor when *)
(* the shell or the build gave it one, unless the device restarts.         *)
WaitEnds == ram # Zero ~> pc[Main] = "run" \/ ram = Zero

=============================================================================
