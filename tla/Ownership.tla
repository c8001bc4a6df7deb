----------------------------- MODULE Ownership -----------------------------
(***************************************************************************)
(* What occupation promises to those that ask for a child: every request is  *)
(* decided in one moment, by what is held in that moment. It is refused       *)
(* exactly when somebody else holds the child alone, or when the asker wants  *)
(* alone what is shared, be it by itself. Who asks again for what it holds is *)
(* granted it and holds no more than before, so a retry is harmless. A        *)
(* request that failed or whose answer is lost may have been decided or not;  *)
(* one for a child that is found missing changes nothing.                    *)
(***************************************************************************)
CONSTANTS Askers, Things, Ids

VARIABLES
    held,   \* who holds what: [who, of, mode]
    asked   \* the requests: [at, who, of, mode, ans]

ownVars == <<held, asked>>

Modes == {"unique", "shared"}
NotAsked == [at |-> "idle"]

OwnInit == held = {} /\ asked = [i \in Ids |-> NotAsked]

Conflict(q) ==
    \E h \in held : /\ h.of = q.of
                    /\ \/ h.mode = "unique" /\ h.who # q.who
                       \/ h.mode = "shared" /\ q.mode = "unique"

Holds(q) == \E h \in held : h.who = q.who /\ h.of = q.of

Held(q) == [who |-> q.who, of |-> q.of, mode |-> q.mode]

Ask(i) ==
    /\ asked[i].at = "idle"
    /\ \E w \in Askers, c \in Things, m \in Modes :
          asked' = [asked EXCEPT ![i] = [at |-> "open", who |-> w, of |-> c, mode |-> m,
                                         ans |-> "none"]]
    /\ UNCHANGED held

Told(q, a) == [at |-> "over", who |-> q.who, of |-> q.of, mode |-> q.mode,
               ans |-> IF q.ans = "lost" THEN "lost" ELSE a]
Say(i, a) == asked' = [asked EXCEPT ![i] = Told(asked[i], a)]

Refuse(i) ==
    /\ asked[i].at = "open"
    /\ Conflict(asked[i])
    /\ Say(i, "refused")
    /\ UNCHANGED held

Grant(i) ==
    /\ asked[i].at = "open"
    /\ ~Conflict(asked[i])
    /\ Say(i, "granted")
    /\ held' = IF Holds(asked[i]) THEN held ELSE held \cup {Held(asked[i])}

Miss(i) ==
    /\ asked[i].at = "open"
    /\ Say(i, "missing")
    /\ UNCHANGED held

LoseAnswer(i) ==
    /\ asked[i].at # "idle"
    /\ asked' = [asked EXCEPT ![i].ans = "lost"]
    /\ UNCHANGED held

\* The framework dies
Fail ==
    /\ asked' = [i \in Ids |-> IF asked[i].at = "open"
                               THEN [asked[i] EXCEPT !.at = "over", !.ans = "lost"]
                               ELSE asked[i]]
    /\ UNCHANGED held

Forget(i) ==
    /\ asked[i].at = "over"
    /\ asked' = [asked EXCEPT ![i] = NotAsked]
    /\ UNCHANGED held

Release(w, c, m) ==
    /\ held' = held \ {[who |-> w, of |-> c, mode |-> m]}
    /\ UNCHANGED asked

OwnNext ==
    \/ \E i \in Ids :
          Ask(i) \/ Refuse(i) \/ Grant(i) \/ Miss(i) \/ LoseAnswer(i) \/ Forget(i)
    \/ \E w \in Askers, c \in Things, m \in Modes : Release(w, c, m)
    \/ Fail

OwnSpec == OwnInit /\ [][OwnNext]_ownVars
=============================================================================
