--------------------------- MODULE KeyStoreProofs ---------------------------
(***************************************************************************)
(* Proofs about the device key, for every set of shells, of keys and of    *)
(* failures of the flash.                                                  *)
(***************************************************************************)
EXTENDS KeyStore, FiniteSetTheorems, TLAPS

USE DEF vars

-----------------------------------------------------------------------------
(* The inductive invariant.                                                *)

AtMostOne(S) == \A x, y \in S : x = y

(* TypeOK with its bounds on cardinality said without counting.            *)
Types ==
  /\ builtin \subseteq Texts
  /\ ram \in KeyBytes
  /\ flash \subseteq KeyBytes /\ AtMostOne(flash)
  /\ kept \subseteq KeyBytes /\ AtMostOne(kept)
  /\ in_use \subseteq KeyBytes /\ AtMostOne(in_use)
  /\ key_sem \in {0, 1}
  /\ pc \in [Writers -> Places]
  /\ text \in [Writers -> Texts \cup {NoText}]
  /\ lapses \subseteq LapseKinds

(* One thread at a time is within crypto_key_set unless an overlap has     *)
(* been noted.                                                             *)
OneWriter ==
  "overlap" \notin lapses =>
    \A v, w \in Writers : Busy(v) /\ Busy(w) => v = w

(* A thread within crypto_key_set has a text that decodes, to a whole key  *)
(* unless a short text has been noted.                                     *)
TextHeld ==
  \A w \in Writers : Busy(w) =>
    /\ text[w] \in Texts
    /\ text[w].kind # "refused"
    /\ pc[w] = "tail" => text[w].kind = "whole"
    /\ "short" \notin lapses => text[w].kind = "whole"

(* Once a text is decoded the key in RAM is its key, whole.                *)
RamFollows ==
  lapses \cap {"short", "overlap"} = {} =>
    /\ \A w \in Writers : pc[w] \in {"tail", "delete", "write", "give"} =>
         ram.head = text[w].key
    /\ \A w \in Writers : pc[w] \in {"delete", "write", "give"} => Whole(ram)
    /\ key_sem = 1 => ram.head # Blank

(* While the token waits for main() nobody changes the key, unless someone *)
(* was noted to have typed one again.                                      *)
TokenQuiet ==
  lapses \cap {"overlap", "retyped"} = {} /\ key_sem = 1 =>
    \A w \in Writers : ~Busy(w)

IndInv ==
  /\ Types /\ OneWriter /\ TextHeld /\ RamFollows /\ TokenQuiet
  /\ KeySurvives /\ KeyWhole

-----------------------------------------------------------------------------
(* The device starts without a key in RAM, and has confirmed none.         *)
LEMMA InitInv == Init => IndInv
<1> SUFFICES ASSUME Init PROVE IndInv
  OBVIOUS
<1> USE DEF Init
<1>1. Types
  BY DEF Types, AtMostOne, KeyBytes, Zero, Start, Places, Steps, Writers
<1>2. \A w \in Writers : ~Busy(w) /\ pc[w] \notin {"wait", "run", "give"}
  BY DEF Busy, Start, Steps
<1>3. OneWriter /\ TextHeld /\ RamFollows /\ TokenQuiet
  BY <1>2 DEF OneWriter, TextHeld, RamFollows, TokenQuiet, Busy, Steps
<1>4. KeySurvives /\ KeyWhole
  BY <1>2 DEF KeySurvives, KeyWhole, Whole, Zero, Writers
<1>5. QED
  BY <1>1, <1>3, <1>4 DEF IndInv

(* Every step keeps the types.                                              *)
LEMMA TypesStep ==
  ASSUME IndInv, Next
  PROVE  Types'
<1> USE DEF IndInv, Types, AtMostOne, KeyBytes, Texts, Kinds, NoText, Zero,
            Places, Steps, Writers, LapseKinds, Busy
<1>1. ASSUME NEW w \in Writers, DecodeHead(w) PROVE Types'
  BY <1>1 DEF DecodeHead, Goto
<1>2. ASSUME NEW w \in Writers, DecodeTail(w) PROVE Types'
  BY <1>2 DEF DecodeTail, Goto
<1>3. ASSUME NEW w \in Writers, NvsDelete(w) PROVE Types'
  BY <1>3 DEF NvsDelete, Goto
<1>4. ASSUME NEW w \in Writers, NvsWrite(w) PROVE Types'
  BY <1>4 DEF NvsWrite, Goto, Note
<1>5. ASSUME NEW w \in Writers, Confirm(w) PROVE Types'
  BY <1>5 DEF Confirm, Goto, SemGive
<1>6. ASSUME NEW s \in Shells, ShellKey(s) PROVE Types'
  BY <1>6 DEF ShellKey, CryptoKeySet, Accepted, Circumstances, Goto, Note
<1>7. CASE BootRead
  BY <1>7 DEF BootRead, Goto, Note, SemGive
<1>8. CASE BootBuiltin
  BY <1>8 DEF BootBuiltin, Unread, Accepted, Circumstances, Goto, Note
<1>9. CASE BootWithoutKey
  BY <1>9 DEF BootWithoutKey, Unread, Accepted, Goto, Note
<1>10. CASE WaitKey
  BY <1>10 DEF WaitKey, Goto
<1>11. CASE Reset
  BY <1>11 DEF Reset, Start, Note
<1>12. QED
  BY <1>1, <1>2, <1>3, <1>4, <1>5, <1>6, <1>7, <1>8, <1>9, <1>10, <1>11
     DEF Next, Step, MainStep

(* Nobody enters crypto_key_set beside another unnoticed.                  *)
LEMMA OneWriterStep ==
  ASSUME IndInv, Next
  PROVE  OneWriter'
<1> USE DEF IndInv, OneWriter, Types, Busy, Steps, Writers
<1>1. ASSUME NEW w \in Writers, DecodeHead(w) PROVE OneWriter'
  BY <1>1 DEF DecodeHead, Goto
<1>2. ASSUME NEW w \in Writers, DecodeTail(w) PROVE OneWriter'
  BY <1>2 DEF DecodeTail, Goto
<1>3. ASSUME NEW w \in Writers, NvsDelete(w) PROVE OneWriter'
  BY <1>3 DEF NvsDelete, Goto
<1>4. ASSUME NEW w \in Writers, NvsWrite(w) PROVE OneWriter'
  BY <1>4 DEF NvsWrite, Goto, Note
<1>5. ASSUME NEW w \in Writers, Confirm(w) PROVE OneWriter'
  BY <1>5 DEF Confirm, Goto, SemGive
<1>6. ASSUME NEW s \in Shells, ShellKey(s) PROVE OneWriter'
  BY <1>6 DEF ShellKey, CryptoKeySet, Accepted, Circumstances, Goto, Note
<1>7. CASE BootRead
  BY <1>7 DEF BootRead, Goto, Note, SemGive
<1>8. CASE BootBuiltin
  BY <1>8 DEF BootBuiltin, Unread, Accepted, Circumstances, Goto, Note
<1>9. CASE BootWithoutKey
  BY <1>9 DEF BootWithoutKey, Unread, Accepted, Goto, Note
<1>10. CASE WaitKey
  BY <1>10 DEF WaitKey, Goto
<1>11. CASE Reset
  BY <1>11 DEF Reset, Start, Note
<1>12. QED
  BY <1>1, <1>2, <1>3, <1>4, <1>5, <1>6, <1>7, <1>8, <1>9, <1>10, <1>11
     DEF Next, Step, MainStep

(* A thread keeps the text it accepted until it confirms the key.          *)
LEMMA TextHeldStep ==
  ASSUME IndInv, Next
  PROVE  TextHeld'
<1> USE DEF IndInv, TextHeld, Types, Busy, Steps, Writers, Texts, Kinds
<1>1. ASSUME NEW w \in Writers, DecodeHead(w) PROVE TextHeld'
  BY <1>1 DEF DecodeHead, Goto
<1>2. ASSUME NEW w \in Writers, DecodeTail(w) PROVE TextHeld'
  BY <1>2 DEF DecodeTail, Goto
<1>3. ASSUME NEW w \in Writers, NvsDelete(w) PROVE TextHeld'
  BY <1>3 DEF NvsDelete, Goto
<1>4. ASSUME NEW w \in Writers, NvsWrite(w) PROVE TextHeld'
  BY <1>4 DEF NvsWrite, Goto, Note
<1>5. ASSUME NEW w \in Writers, Confirm(w) PROVE TextHeld'
  BY <1>5 DEF Confirm, Goto, SemGive
<1>6. ASSUME NEW s \in Shells, ShellKey(s) PROVE TextHeld'
  BY <1>6 DEF ShellKey, CryptoKeySet, Accepted, Circumstances, Goto, Note
<1>7. CASE BootRead
  BY <1>7 DEF BootRead, Goto, Note, SemGive
<1>8. CASE BootBuiltin
  BY <1>8 DEF BootBuiltin, Unread, Accepted, Circumstances, Goto, Note
<1>9. CASE BootWithoutKey
  BY <1>9 DEF BootWithoutKey, Unread, Accepted, Goto, Note
<1>10. CASE WaitKey
  BY <1>10 DEF WaitKey, Goto
<1>11. CASE Reset
  BY <1>11 DEF Reset, Start, Note
<1>12. QED
  BY <1>1, <1>2, <1>3, <1>4, <1>5, <1>6, <1>7, <1>8, <1>9, <1>10, <1>11
     DEF Next, Step, MainStep

(* A key typed beside a waiting token is noted.                            *)
LEMMA TokenQuietStep ==
  ASSUME IndInv, Next
  PROVE  TokenQuiet'
<1> USE DEF IndInv, TokenQuiet, OneWriter, Types, Busy, Steps, Writers
<1>1. ASSUME NEW w \in Writers, DecodeHead(w) PROVE TokenQuiet'
  BY <1>1 DEF DecodeHead, Goto
<1>2. ASSUME NEW w \in Writers, DecodeTail(w) PROVE TokenQuiet'
  BY <1>2 DEF DecodeTail, Goto
<1>3. ASSUME NEW w \in Writers, NvsDelete(w) PROVE TokenQuiet'
  BY <1>3 DEF NvsDelete, Goto
<1>4. ASSUME NEW w \in Writers, NvsWrite(w) PROVE TokenQuiet'
  BY <1>4 DEF NvsWrite, Goto, Note
<1>5. ASSUME NEW w \in Writers, Confirm(w) PROVE TokenQuiet'
  BY <1>5 DEF Confirm, Goto, SemGive
<1>6. ASSUME NEW s \in Shells, ShellKey(s) PROVE TokenQuiet'
  BY <1>6 DEF ShellKey, CryptoKeySet, Accepted, Circumstances, Goto, Note
<1>7. CASE BootRead
  BY <1>7 DEF BootRead, Goto, Note, SemGive
<1>8. CASE BootBuiltin
  BY <1>8 DEF BootBuiltin, Unread, Accepted, Circumstances, Goto, Note
<1>9. CASE BootWithoutKey
  BY <1>9 DEF BootWithoutKey, Unread, Accepted, Goto, Note
<1>10. CASE WaitKey
  BY <1>10 DEF WaitKey, Goto
<1>11. CASE Reset
  BY <1>11 DEF Reset, Start, Note
<1>12. QED
  BY <1>1, <1>2, <1>3, <1>4, <1>5, <1>6, <1>7, <1>8, <1>9, <1>10, <1>11
     DEF Next, Step, MainStep

(* The key in RAM is that of the one thread that writes it.                *)
LEMMA RamFollowsStep ==
  ASSUME IndInv, Next
  PROVE  RamFollows'
<1> USE BlankAssumption
    DEF IndInv, RamFollows, TextHeld, OneWriter, KeyWhole, Types, AtMostOne,
        KeyBytes, Texts, Whole, Zero, Busy, Steps, Writers
<1>1. ASSUME NEW w \in Writers, DecodeHead(w) PROVE RamFollows'
  BY <1>1 DEF DecodeHead, Goto
<1>2. ASSUME NEW w \in Writers, DecodeTail(w) PROVE RamFollows'
  BY <1>2 DEF DecodeTail, Goto
<1>3. ASSUME NEW w \in Writers, NvsDelete(w) PROVE RamFollows'
  BY <1>3 DEF NvsDelete, Goto
<1>4. ASSUME NEW w \in Writers, NvsWrite(w) PROVE RamFollows'
  BY <1>4 DEF NvsWrite, Goto, Note
<1>5. ASSUME NEW w \in Writers, Confirm(w) PROVE RamFollows'
  BY <1>5 DEF Confirm, Goto, SemGive
<1>6. ASSUME NEW s \in Shells, ShellKey(s) PROVE RamFollows'
  BY <1>6 DEF ShellKey, CryptoKeySet, Accepted, Circumstances, Goto, Note
<1>7. CASE BootRead
  BY <1>7 DEF BootRead, Goto, Note, SemGive
<1>8. CASE BootBuiltin
  BY <1>8 DEF BootBuiltin, Unread, Accepted, Circumstances, Goto, Note
<1>9. CASE BootWithoutKey
  BY <1>9 DEF BootWithoutKey, Unread, Accepted, Goto, Note
<1>10. CASE WaitKey
  BY <1>10 DEF WaitKey, Goto
<1>11. CASE Reset
  BY <1>11 DEF Reset, Start, Note
<1>12. QED
  BY <1>1, <1>2, <1>3, <1>4, <1>5, <1>6, <1>7, <1>8, <1>9, <1>10, <1>11
     DEF Next, Step, MainStep

(* A confirmed key stays the one in the flash.                             *)
LEMMA SurvivesStep ==
  ASSUME IndInv, Next
  PROVE  KeySurvives'
<1> USE DEF IndInv, KeySurvives, OneWriter, Types, AtMostOne, Busy, Steps,
            Writers
<1>1. ASSUME NEW w \in Writers, DecodeHead(w) PROVE KeySurvives'
  BY <1>1 DEF DecodeHead, Goto
<1>2. ASSUME NEW w \in Writers, DecodeTail(w) PROVE KeySurvives'
  BY <1>2 DEF DecodeTail, Goto
<1>3. ASSUME NEW w \in Writers, NvsDelete(w) PROVE KeySurvives'
  BY <1>3 DEF NvsDelete, Goto
<1>4. ASSUME NEW w \in Writers, NvsWrite(w) PROVE KeySurvives'
  BY <1>4 DEF NvsWrite, Goto, Note
<1>5. ASSUME NEW w \in Writers, Confirm(w) PROVE KeySurvives'
  BY <1>5 DEF Confirm, Goto, SemGive
<1>6. ASSUME NEW s \in Shells, ShellKey(s) PROVE KeySurvives'
  BY <1>6 DEF ShellKey, CryptoKeySet, Accepted, Circumstances, Goto, Note
<1>7. CASE BootRead
  BY <1>7 DEF BootRead, Goto, Note, SemGive
<1>8. CASE BootBuiltin
  BY <1>8 DEF BootBuiltin, Unread, Accepted, Circumstances, Goto, Note
<1>9. CASE BootWithoutKey
  BY <1>9 DEF BootWithoutKey, Unread, Accepted, Goto, Note
<1>10. CASE WaitKey
  BY <1>10 DEF WaitKey, Goto
<1>11. CASE Reset
  BY <1>11 DEF Reset, Start, Note
<1>12. QED
  BY <1>1, <1>2, <1>3, <1>4, <1>5, <1>6, <1>7, <1>8, <1>9, <1>10, <1>11
     DEF Next, Step, MainStep

(* What is decoded, written and used is whole.                             *)
LEMMA WholeStep ==
  ASSUME IndInv, Next
  PROVE  KeyWhole'
<1> USE BlankAssumption
    DEF IndInv, KeyWhole, RamFollows, TokenQuiet, TextHeld, OneWriter, Types,
        AtMostOne, KeyBytes, Texts, Whole, Zero, Busy, Steps, Writers
<1>1. ASSUME NEW w \in Writers, DecodeHead(w) PROVE KeyWhole'
  BY <1>1 DEF DecodeHead, Goto
<1>2. ASSUME NEW w \in Writers, DecodeTail(w) PROVE KeyWhole'
  BY <1>2 DEF DecodeTail, Goto
<1>3. ASSUME NEW w \in Writers, NvsDelete(w) PROVE KeyWhole'
  BY <1>3 DEF NvsDelete, Goto
<1>4. ASSUME NEW w \in Writers, NvsWrite(w) PROVE KeyWhole'
  BY <1>4 DEF NvsWrite, Goto, Note
<1>5. ASSUME NEW w \in Writers, Confirm(w) PROVE KeyWhole'
  BY <1>5 DEF Confirm, Goto, SemGive
<1>6. ASSUME NEW s \in Shells, ShellKey(s) PROVE KeyWhole'
  BY <1>6 DEF ShellKey, CryptoKeySet, Accepted, Circumstances, Goto, Note
<1>7. CASE BootRead
  BY <1>7 DEF BootRead, Goto, Note, SemGive
<1>8. CASE BootBuiltin
  BY <1>8 DEF BootBuiltin, Unread, Accepted, Circumstances, Goto, Note
<1>9. CASE BootWithoutKey
  BY <1>9 DEF BootWithoutKey, Unread, Accepted, Goto, Note
<1>10. CASE WaitKey
  BY <1>10 DEF WaitKey, Goto
<1>11. CASE Reset
  BY <1>11 DEF Reset, Start, Note
<1>12. QED
  BY <1>1, <1>2, <1>3, <1>4, <1>5, <1>6, <1>7, <1>8, <1>9, <1>10, <1>11
     DEF Next, Step, MainStep

(* The inductive invariant survives every step.                            *)
LEMMA StepInv == IndInv /\ [Next]_vars => IndInv'
<1>1. ASSUME IndInv, Next PROVE IndInv'
  BY <1>1, TypesStep, OneWriterStep, TextHeldStep, TokenQuietStep,
     RamFollowsStep, SurvivesStep, WholeStep DEF IndInv
<1>2. ASSUME IndInv, UNCHANGED vars PROVE IndInv'
  BY <1>2 DEF IndInv, Types, OneWriter, TextHeld, RamFollows, TokenQuiet,
              KeySurvives, KeyWhole, Busy, AtMostOne
<1>3. QED
  BY <1>1, <1>2

-----------------------------------------------------------------------------
(* In every reachable state, whatever fails and whenever the device resets, *)
(* at most one thread is within crypto_key_set, its text is the key in RAM, *)
(* and the key is whole and kept, unless a lapse that excuses it is noted. *)
THEOREM Invariance == Spec => []IndInv
<1>1. Init => IndInv
  BY InitInv
<1>2. IndInv /\ [Next]_vars => IndInv'
  BY StepInv
<1>3. QED
  BY <1>1, <1>2, PTL DEF Spec

(* A set without two different members has at most one.                    *)
LEMMA AtMostOneCounted ==
  ASSUME NEW S, AtMostOne(S)
  PROVE  Cardinality(S) <= 1
<1>1. CASE S = {}
  BY <1>1, FS_EmptySet
<1>2. CASE S # {}
  <2>1. PICK x : x \in S
    BY <1>2
  <2>2. S = {x}
    BY <2>1 DEF AtMostOne
  <2>3. Cardinality(S) = 1
    BY <2>2, FS_Singleton
  <2>4. QED
    BY <2>3
<1>3. QED
  BY <1>1, <1>2

(* Every variable keeps its type: the flash holds at most one key, and the *)
(* semaphore stays binary.                                                 *)
THEOREM TypeCorrect == Spec => []TypeOK
<1>1. IndInv => TypeOK
  BY AtMostOneCounted DEF IndInv, Types, TypeOK
<1>2. QED
  BY <1>1, Invariance, PTL

(* The key the device has confirmed is in the flash at every start, through *)
(* any number of resets, failed deletions and further commands. It takes a *)
(* failed writing or reading, a reset within a writing or two commands at  *)
(* a time to lose it (main.c:158-185, nvs.c:51-60).                        *)
THEOREM SurvivalCorrect == Spec => []KeySurvives
<1>1. IndInv => KeySurvives
  BY DEF IndInv
<1>2. QED
  BY <1>1, Invariance, PTL

(* The flash and the SDK never get a mixture of two keys, nor the zero key,*)
(* unless a text was short, two commands met, or a key was typed again     *)
(* before main() took the first (main.c:167-171, 223-226).                 *)
THEOREM WholeCorrect == Spec => []KeyWhole
<1>1. IndInv => KeyWhole
  BY DEF IndInv
<1>2. QED
  BY <1>1, Invariance, PTL

=============================================================================
