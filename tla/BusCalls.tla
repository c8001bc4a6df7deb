------------------------------ MODULE BusCalls ------------------------------
(***************************************************************************)
(* What the message bus promises the modules that call each other through   *)
(* it: a call takes effect exactly once, or is refused and takes none; the    *)
(* caller gets an answer, which comes after the effect, or gives up; and a     *)
(* call that was given up takes effect all the same. AbilityLifecycle rests    *)
(* on no more than this.                                                    *)
(***************************************************************************)
CONSTANT Ids       \* the calls

VARIABLES
    known,         \* what the caller knows: "none" before the call, "open", an answer,
                   \* "timeout", "refused"
    effect         \* the calls that have taken effect

callVars == <<known, effect>>

Answers == {"ok", "failed"}

CallsInit == known = [i \in Ids |-> "none"] /\ effect = {}

Learn(i, k) == known' = [known EXCEPT ![i] = k]

Ask(i) == known[i] = "none" /\ Learn(i, "open") /\ UNCHANGED effect

GiveUp(i) == known[i] = "open" /\ Learn(i, "timeout") /\ UNCHANGED effect

TakeEffect(i) ==
    /\ i \notin effect
    /\ effect' = effect \cup {i}
    /\ \/ known[i] = "open" /\ \E a \in Answers : Learn(i, a)
       \/ known[i] = "timeout" /\ UNCHANGED known

\* send: the handler runs in the caller's thread
AskAndTakeEffect(i) ==
    /\ known[i] = "none"
    /\ \E a \in Answers : Learn(i, a)
    /\ effect' = effect \cup {i}

\* There is no such module
Refuse(i) == known[i] = "none" /\ Learn(i, "refused") /\ UNCHANGED effect

CallsNext == \E i \in Ids :
    Ask(i) \/ GiveUp(i) \/ TakeEffect(i) \/ AskAndTakeEffect(i) \/ Refuse(i)

CallsSpec == CallsInit /\ [][CallsNext]_callVars

FairCalls == CallsSpec /\ \A i \in Ids : WF_callVars(TakeEffect(i))
=============================================================================
