------------------------------ MODULE AtomicFile ------------------------------
(***************************************************************************)
(* What a save of a session promises: the stored content is replaced as a  *)
(* whole or not at all.  A save offers a new content, which is committed   *)
(* in one step or not at all; success is reported only for what was        *)
(* committed.  Once there is a content there always is one.  A crash       *)
(* forgets the save that is under way, never what is stored.               *)
(***************************************************************************)
CONSTANT Content

VARIABLES content,   \* what is stored, a set of at most one Content
          offered,   \* what the save under way would store, likewise
          verdict    \* how far the save under way has got

Init == content = {} /\ offered = {} /\ verdict = "idle"

Offer == /\ verdict = "idle"
         /\ \E c \in Content : offered' = {c}
         /\ verdict' = "open"
         /\ UNCHANGED content

Commit == /\ verdict = "open"
          /\ content' = offered
          /\ verdict' = "committed"
          /\ UNCHANGED offered

Succeed == /\ verdict = "committed"
           /\ verdict' = "succeeded"
           /\ UNCHANGED <<content, offered>>

(* Also after the commit: the clean-up that follows it may fail.           *)
Fail == /\ verdict \in {"open", "committed"}
        /\ verdict' = "failed"
        /\ UNCHANGED <<content, offered>>

(* The next save may begin, or the process was killed.                     *)
Forget == /\ offered' = {}
          /\ verdict' = "idle"
          /\ UNCHANGED content

Next == Offer \/ Commit \/ Succeed \/ Fail \/ Forget

Spec == Init /\ [][Next]_<<content, offered, verdict>>
===============================================================================
