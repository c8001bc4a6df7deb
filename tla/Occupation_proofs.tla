-------------------------- MODULE Occupation_proofs --------------------------
(***************************************************************************)
(* What the CROwnership table promises, most of it when the requests for one *)
(* child do not overlap, for every set of occupiers, abilities, devices and  *)
(* requests.                                                                 *)
(***************************************************************************)
EXTENDS Occupation, TLAPS

\* Every row is written with the kinds of an ability
KindInv == \A x \in rows : x.pkind = "ability" /\ x.ckind = "ability"

\* Requests for one child do not overlap
Apart == \A r, s \in Requests :
            req[r].pc # "idle" /\ req[s].pc # "idle" /\ req[r].of = req[s].of => r = s

\* What a handler has read is still so
ReadsHold ==
    \A r \in Requests : req[r].of \in Abilities =>
        /\ req[r].pc \in {"sharers", "write"} =>
              \A x \in rows : x.child = req[r].of => x.mode = "shared"
        /\ req[r].pc = "write" /\ req[r].mode = "unique" =>
              \A x \in rows : x.child # req[r].of

\* Only an answered request has an answer that is not "lost"
AnswerInv ==
    \A r \in Requests :
        req[r].ans \in {"granted", "refused", "missing"} => req[r].pc = "done"

IInv == /\ TypeOK /\ KindInv /\ AnswerInv
        /\ Apart /\ ReadsHold /\ AbilityExclusive /\ GrantMeansRow /\ RefusalHasConflict

LEMMA InitIInv == Init => IInv
<1> SUFFICES ASSUME Init PROVE IInv
  OBVIOUS
<1> QED
  BY DEF Init, IInv, TypeOK, KindInv, AnswerInv, Apart, ReadsHold, AbilityExclusive,
         Exclusive, GrantMeansRow, RefusalHasConflict, NoRequest

\* What one request does to itself while the rows stay
LEMMA RequestStep ==
    ASSUME IInv, NEW r \in Requests, NEW q \in Busy,
           req' = [req EXCEPT ![r] = q], UNCHANGED rows,
           q.pc = "done" => q.ans # "none",
           q.ans \in {"granted", "refused", "missing"} => q.pc = "done",
           \A s \in Requests \ {r} : req[s].pc # "idle" => req[s].of # q.of,
           q.of \in Abilities /\ q.pc \in {"sharers", "write"} =>
              \A x \in rows : x.child = q.of => x.mode = "shared",
           q.of \in Abilities /\ q.pc = "write" /\ q.mode = "unique" =>
              \A x \in rows : x.child # q.of,
           q.ans = "granted" =>
              \E x \in rows : x.parent = q.who /\ x.child = q.of /\ x.mode \in {q.mode, "unique"},
           q.ans = "refused" =>
              \E x \in rows : /\ x.child = q.of
                              /\ x.parent # q.who \/ (x.mode = "shared" /\ q.mode = "unique")
    PROVE  IInv'
<1>1. req'[r] = q /\ \A s \in Requests : s # r => req'[s] = req[s]
  BY DEF IInv, TypeOK
<1>2. TypeOK' /\ KindInv' /\ AnswerInv' /\ AbilityExclusive'
  BY <1>1 DEF IInv, TypeOK, KindInv, AnswerInv, AbilityExclusive, Exclusive
<1>3. Apart'
  BY <1>1 DEF IInv, Apart
<1>4. ReadsHold'
  BY <1>1 DEF IInv, ReadsHold
<1>5. GrantMeansRow'
  BY <1>1 DEF IInv, GrantMeansRow
<1>6. RefusalHasConflict'
  BY <1>1 DEF IInv, RefusalHasConflict
<1> QED
  BY <1>2, <1>3, <1>4, <1>5, <1>6 DEF IInv

\* A request that is not idle is one of Busy, and nobody else asks for its child
LEMMA BusyRequest ==
    ASSUME IInv, NEW r \in Requests, req[r].pc # "idle"
    PROVE  /\ req[r] \in Busy
           /\ \A s \in Requests \ {r} : req[s].pc # "idle" => req[s].of # req[r].of
BY DEF IInv, TypeOK, NoRequest, Apart

\* The owner that get_ability_owner or get_device_owner finds has a unique row
LEMMA OwnerRow ==
    ASSUME NEW c, NEW w \in OwnerOf(c)
    PROVE  \E x \in rows : x.parent = w /\ x.child = c /\ x.mode = "unique"
BY DEF OwnerOf, get_ability_owner, get_device_owner, Parents

LEMMA AskStep ==
    ASSUME IInv, Serial, NEW r \in Requests, NEW o \in Occupiers, NEW c \in Children,
           NEW m \in OwnershipMode, Ask(r, o, c, m)
    PROVE  IInv'
<1> DEFINE q == [pc |-> "owner", who |-> o, of |-> c, mode |-> m, ans |-> "none"]
<1>1. q \in Busy
  BY DEF Busy, Answers
<1>2. \A s \in Requests \ {r} : req[s].pc # "idle" => req[s].of # q.of
  BY DEF Ask, Quiet
<1> QED
  BY <1>1, <1>2, RequestStep DEF Ask

LEMMA ReadOwnerStep ==
    ASSUME IInv, NEW r \in Requests, ReadOwner(r)
    PROVE  IInv'
<1>1. req[r].pc = "owner" /\ req[r].ans \in {"none", "lost"}
  BY BusyRequest DEF ReadOwner, IInv, AnswerInv, Busy, Answers
<1>2. CASE OwnerOf(req[r].of) = {} /\ GoOn(r, "sharers")
  <2> DEFINE q == [req[r] EXCEPT !.pc = "sharers"]
  <2>1. q \in Busy /\ q.pc = "sharers" /\ q.of = req[r].of /\ q.ans = req[r].ans
    BY <1>1, BusyRequest DEF Busy
  <2>2. req' = [req EXCEPT ![r] = q]
    BY <1>2 DEF GoOn
  <2>3. ASSUME q.of \in Abilities, NEW x \in rows, x.child = q.of PROVE x.mode = "shared"
    <3>1. q.of \notin Devices /\ x.pkind = "ability" /\ x.ckind = "ability"
      BY <2>3, OccupationAssumption DEF IInv, KindInv
    <3>2. x.mode # "unique"
      BY <1>2, <2>1, <2>3, <3>1 DEF OwnerOf, get_ability_owner, Parents
    <3> QED
      BY <3>2 DEF IInv, TypeOK, Rows, OwnershipMode
  <2>4. \A s \in Requests \ {r} : req[s].pc # "idle" => req[s].of # q.of
    BY <1>1, <2>1, BusyRequest
  <2>5. q.ans \in {"none", "lost"} /\ UNCHANGED rows
    BY <1>1, <2>1 DEF ReadOwner
  <2> HIDE DEF q
  <2> QED
    BY <2>1, <2>2, <2>3, <2>4, <2>5, RequestStep
<1>3. ASSUME NEW w \in OwnerOf(req[r].of),
             Answer(r, IF w = req[r].who THEN "granted" ELSE "refused")
      PROVE  IInv'
  <2> DEFINE a == IF req[r].ans = "lost" THEN "lost"
                  ELSE IF w = req[r].who THEN "granted" ELSE "refused"
             q == [req[r] EXCEPT !.pc = "done", !.ans = a]
  <2>1. q \in Busy /\ q.pc = "done" /\ q.of = req[r].of /\ q.ans = a
        /\ q.who = req[r].who /\ q.mode = req[r].mode
    BY <1>1, BusyRequest DEF Busy, Answers
  <2>2. req' = [req EXCEPT ![r] = q]
    BY <1>3 DEF Answer
  <2>3. PICK x \in rows : x.parent = w /\ x.child = q.of /\ x.mode = "unique"
    BY <2>1, OwnerRow
  <2>4. a # "none" /\ (a = "granted" => w = q.who) /\ (a = "refused" => w # q.who)
    BY <2>1
  <2>5. \A s \in Requests \ {r} : req[s].pc # "idle" => req[s].of # q.of
    BY <1>1, <2>1, BusyRequest
  <2> HIDE DEF q, a
  <2>6. UNCHANGED rows
    BY DEF ReadOwner
  <2> QED
    BY <2>1, <2>2, <2>3, <2>4, <2>5, <2>6, RequestStep
<1>4. CASE Answer(r, "missing")
  <2> DEFINE a == IF req[r].ans = "lost" THEN "lost" ELSE "missing"
             q == [req[r] EXCEPT !.pc = "done", !.ans = a]
  <2>1. q \in Busy /\ q.pc = "done" /\ q.of = req[r].of /\ q.ans = a
    BY <1>1, BusyRequest DEF Busy, Answers
  <2>2. req' = [req EXCEPT ![r] = q] /\ UNCHANGED rows
    BY <1>4 DEF Answer, ReadOwner
  <2>3. a \in {"missing", "lost"}
    OBVIOUS
  <2>4. \A s \in Requests \ {r} : req[s].pc # "idle" => req[s].of # q.of
    BY <1>1, <2>1, BusyRequest
  <2> HIDE DEF q, a
  <2> QED
    BY <2>1, <2>2, <2>3, <2>4, RequestStep
<1> QED
  BY <1>2, <1>3, <1>4 DEF ReadOwner

LEMMA ReadSharersStep ==
    ASSUME IInv, NEW r \in Requests, ReadSharers(r)
    PROVE  IInv'
<1> DEFINE sharers == get_ability_sharers(req[r].of)
<1>1. req[r].pc = "sharers" /\ req[r].ans \in {"none", "lost"} /\ UNCHANGED rows
  BY BusyRequest DEF ReadSharers, IInv, AnswerInv, Busy, Answers
<1>2. ASSUME NEW a0 \in {"granted", "refused"}, Answer(r, a0),
             a0 = "granted" => req[r].mode = "shared" /\ req[r].who \in sharers,
             a0 = "refused" => sharers # {} /\ req[r].mode = "unique"
      PROVE  IInv'
  <2> DEFINE a == IF req[r].ans = "lost" THEN "lost" ELSE a0
             q == [req[r] EXCEPT !.pc = "done", !.ans = a]
  <2>1. q \in Busy /\ q.pc = "done" /\ q.of = req[r].of /\ q.ans = a
        /\ q.who = req[r].who /\ q.mode = req[r].mode
    BY <1>1, BusyRequest DEF Busy, Answers
  <2>2. req' = [req EXCEPT ![r] = q]
    BY <1>2 DEF Answer
  <2>3. a = "granted" =>
          \E x \in rows : x.parent = q.who /\ x.child = q.of /\ x.mode = q.mode
    BY <1>2, <2>1 DEF get_ability_sharers, Parents
  <2>4. a = "refused" =>
          \E x \in rows : x.child = q.of /\ x.mode = "shared" /\ q.mode = "unique"
    BY <1>2, <2>1 DEF get_ability_sharers, Parents
  <2>5. a # "none"
    OBVIOUS
  <2>6. \A s \in Requests \ {r} : req[s].pc # "idle" => req[s].of # q.of
    BY <1>1, <2>1, BusyRequest
  <2> HIDE DEF q, a
  <2> QED
    BY <1>1, <2>1, <2>2, <2>3, <2>4, <2>5, <2>6, RequestStep
<1>3. ASSUME GoOn(r, "write"), ~(sharers # {} /\ req[r].mode = "unique")
      PROVE  IInv'
  <2> DEFINE q == [req[r] EXCEPT !.pc = "write"]
  <2>1. q \in Busy /\ q.pc = "write" /\ q.of = req[r].of /\ q.ans = req[r].ans
        /\ q.mode = req[r].mode
    BY <1>1, BusyRequest DEF Busy
  <2>2. req' = [req EXCEPT ![r] = q]
    BY <1>3 DEF GoOn
  <2>3. q.of \in Abilities => \A x \in rows : x.child = q.of => x.mode = "shared"
    BY <1>1, <2>1 DEF IInv, ReadsHold
  <2>4. ASSUME q.of \in Abilities, q.mode = "unique", NEW x \in rows, x.child = q.of
        PROVE  FALSE
    <3>1. x.mode = "shared" /\ x.pkind = "ability" /\ x.ckind = "ability"
      BY <2>3, <2>4 DEF IInv, KindInv
    <3>2. x.parent \in sharers
      BY <2>1, <2>4, <3>1 DEF get_ability_sharers, Parents
    <3> QED
      BY <1>3, <2>1, <2>4, <3>2
  <2>5. \A s \in Requests \ {r} : req[s].pc # "idle" => req[s].of # q.of
    BY <1>1, <2>1, BusyRequest
  <2> HIDE DEF q
  <2> QED
    BY <1>1, <2>1, <2>2, <2>3, <2>4, <2>5, RequestStep
<1> QED
  BY <1>2, <1>3 DEF ReadSharers

LEMMA WriteRowStep ==
    ASSUME IInv, NEW r \in Requests, WriteRow(r)
    PROVE  IInv'
<1> DEFINE n == NewRow(req[r])
           a == IF req[r].ans = "lost" THEN "lost" ELSE "granted"
           q == [req[r] EXCEPT !.pc = "done", !.ans = a]
<1>1. /\ req[r].pc = "write" /\ rows' = Replaced(n)
      /\ req' = [req EXCEPT ![r] = q]
  BY DEF WriteRow, Answer
<1>2. /\ q \in Busy /\ q.pc = "done" /\ q.of = req[r].of /\ q.ans = a
      /\ q.who = req[r].who /\ q.mode = req[r].mode /\ a \in {"granted", "lost"}
  BY <1>1, BusyRequest DEF Busy, Answers
<1>3. req'[r] = q /\ \A s \in Requests : s # r => req'[s] = req[s]
  BY <1>1 DEF IInv, TypeOK
<1>4. /\ n \in Rows /\ n.parent = q.who /\ n.child = q.of /\ n.mode = q.mode
      /\ n.pkind = "ability" /\ n.ckind = "ability"
  BY <1>1, <1>2, BusyRequest DEF NewRow, Rows, Kinds, Busy
<1>5. /\ n \in rows' /\ rows' \subseteq rows \cup {n}
      /\ \A x \in rows : x.child # n.child => x \in rows'
  BY <1>1 DEF Replaced
<1>6. \A s \in Requests \ {r} : req[s].pc # "idle" => req[s].of # n.child
  BY <1>1, <1>2, <1>4, BusyRequest
<1> HIDE DEF n, q, a
<1>7. TypeOK'
  BY <1>1, <1>2, <1>3, <1>4, <1>5 DEF IInv, TypeOK
<1>8. KindInv' /\ AnswerInv'
  BY <1>2, <1>3, <1>4, <1>5 DEF IInv, KindInv, AnswerInv
<1>9. Apart'
  BY <1>1, <1>2, <1>3 DEF IInv, Apart
<1>10. ReadsHold'
  BY <1>2, <1>3, <1>4, <1>5, <1>6 DEF IInv, ReadsHold
<1>11. AbilityExclusive'
  <2> SUFFICES ASSUME NEW x \in rows', NEW y \in rows', x.child = y.child,
                      x.child \in Abilities, x.mode = "unique"
               PROVE  x = y
    BY DEF AbilityExclusive, Exclusive
  <2>1. CASE x.child # n.child
    BY <1>5, <2>1 DEF IInv, AbilityExclusive, Exclusive
  <2>2. CASE x.child = n.child
    <3>1. \A z \in rows : z.child = n.child => z.mode = "shared"
      BY <1>1, <1>2, <1>4, <2>2 DEF IInv, ReadsHold
    <3>2. x = n
      BY <1>5, <2>2, <3>1
    <3>3. \A z \in rows : z.child # n.child
      BY <1>1, <1>2, <1>4, <2>2, <3>2 DEF IInv, ReadsHold
    <3> QED
      BY <1>5, <2>2, <3>2, <3>3
  <2> QED
    BY <2>1, <2>2
<1>12. GrantMeansRow'
  <2> SUFFICES ASSUME NEW s \in Requests, req'[s].ans = "granted"
               PROVE  \E x \in rows' : /\ x.parent = req'[s].who /\ x.child = req'[s].of
                                       /\ x.mode \in {req'[s].mode, "unique"}
    BY DEF GrantMeansRow
  <2>1. CASE s = r
    BY <1>2, <1>3, <1>4, <1>5, <2>1
  <2>2. CASE s # r
    <3>1. req[s].pc = "done" /\ req'[s] = req[s]
      BY <1>3, <2>2 DEF IInv, AnswerInv
    <3>2. PICK x \in rows : /\ x.parent = req[s].who /\ x.child = req[s].of
                            /\ x.mode \in {req[s].mode, "unique"}
      BY <3>1 DEF IInv, GrantMeansRow
    <3> QED
      BY <1>5, <1>6, <2>2, <3>1, <3>2
  <2> QED
    BY <2>1, <2>2
<1>13. RefusalHasConflict'
  <2> SUFFICES ASSUME NEW s \in Requests, req'[s].ans = "refused"
               PROVE  \E x \in rows' : /\ x.child = req'[s].of
                                       /\ \/ x.parent # req'[s].who
                                          \/ x.mode = "shared" /\ req'[s].mode = "unique"
    BY DEF RefusalHasConflict
  <2>1. s # r /\ req'[s] = req[s] /\ req[s].pc = "done"
    BY <1>2, <1>3 DEF IInv, AnswerInv
  <2>2. PICK x \in rows : /\ x.child = req[s].of
                          /\ \/ x.parent # req[s].who
                             \/ x.mode = "shared" /\ req[s].mode = "unique"
    BY <2>1 DEF IInv, RefusalHasConflict
  <2> QED
    BY <1>5, <1>6, <2>1, <2>2
<1> QED
  BY <1>7, <1>8, <1>9, <1>10, <1>11, <1>12, <1>13 DEF IInv

LEMMA LoseAnswerStep ==
    ASSUME IInv, NEW r \in Requests, LoseAnswer(r)
    PROVE  IInv'
<1> DEFINE q == [req[r] EXCEPT !.ans = "lost"]
<1>1. /\ q \in Busy /\ q.pc = req[r].pc /\ q.of = req[r].of /\ q.mode = req[r].mode
      /\ q.ans = "lost" /\ req[r].pc # "idle"
      /\ req' = [req EXCEPT ![r] = q] /\ UNCHANGED rows
  BY BusyRequest DEF LoseAnswer, Busy, Answers
<1> HIDE DEF q
<1>2. \A s \in Requests \ {r} : req[s].pc # "idle" => req[s].of # q.of
  BY <1>1, BusyRequest
<1>3. q.of \in Abilities =>
        /\ q.pc \in {"sharers", "write"} => \A x \in rows : x.child = q.of => x.mode = "shared"
        /\ q.pc = "write" /\ q.mode = "unique" => \A x \in rows : x.child # q.of
  BY <1>1 DEF IInv, ReadsHold
<1> QED
  BY <1>1, <1>2, <1>3, RequestStep

LEMMA ReturnStep ==
    ASSUME IInv, NEW r \in Requests, Return(r)
    PROVE  IInv'
<1>1. /\ req'[r] = NoRequest /\ UNCHANGED rows
      /\ \A s \in Requests : s # r => req'[s] = req[s]
  BY DEF Return, IInv, TypeOK
<1>2. NoRequest.pc = "idle" /\ NoRequest.ans = "none"
  BY DEF NoRequest
<1>3. TypeOK'
  BY <1>2 DEF Return, IInv, TypeOK
<1>4. KindInv' /\ AnswerInv' /\ Apart' /\ ReadsHold' /\ AbilityExclusive'
  BY <1>1, <1>2
     DEF IInv, KindInv, AnswerInv, Apart, ReadsHold, AbilityExclusive, Exclusive
<1>5. GrantMeansRow' /\ RefusalHasConflict'
  BY <1>1, <1>2 DEF IInv, GrantMeansRow, RefusalHasConflict
<1> QED
  BY <1>3, <1>4, <1>5 DEF IInv

LEMMA UnoccupyStep ==
    ASSUME IInv, Serial, NEW o \in Occupiers, NEW c \in Children, NEW m \in OwnershipMode,
           Unoccupy(o, c, m)
    PROVE  IInv'
<1>1. rows' \subseteq rows /\ UNCHANGED req /\ \A x \in rows : x.child # c => x \in rows'
  BY DEF Unoccupy
<1>2. \A s \in Requests : req[s].pc # "idle" => req[s].of # c
  BY DEF Unoccupy, Quiet
<1>3. TypeOK' /\ KindInv' /\ AnswerInv' /\ Apart' /\ ReadsHold' /\ AbilityExclusive'
  BY <1>1 DEF IInv, TypeOK, KindInv, AnswerInv, Apart, ReadsHold, AbilityExclusive, Exclusive
<1>4. GrantMeansRow'
  BY <1>1, <1>2 DEF IInv, AnswerInv, GrantMeansRow
<1>5. RefusalHasConflict'
  BY <1>1, <1>2 DEF IInv, AnswerInv, RefusalHasConflict
<1> QED
  BY <1>3, <1>4, <1>5 DEF IInv

LEMMA CrashStep ==
    ASSUME IInv, Crash
    PROVE  IInv'
<1>1. UNCHANGED rows /\ req' \in [Requests -> Busy \cup {NoRequest}]
  BY BusyRequest DEF Crash, InProgress, IInv, TypeOK, Busy, Answers
<1>2. ASSUME NEW r \in Requests
      PROVE  \/ req'[r] = req[r] /\ ~InProgress(r)
             \/ /\ InProgress(r) /\ req'[r].pc = "done" /\ req'[r].ans = "lost"
                /\ req'[r].of = req[r].of
  BY BusyRequest DEF Crash, InProgress, Busy
<1>3. TypeOK' /\ KindInv' /\ AnswerInv' /\ AbilityExclusive'
  BY <1>1, <1>2 DEF IInv, TypeOK, KindInv, AnswerInv, AbilityExclusive, Exclusive
<1>4. Apart'
  BY <1>2 DEF IInv, Apart, InProgress
<1>5. ReadsHold'
  BY <1>1, <1>2 DEF IInv, ReadsHold, InProgress
<1>6. GrantMeansRow' /\ RefusalHasConflict'
  BY <1>1, <1>2 DEF IInv, GrantMeansRow, RefusalHasConflict
<1> QED
  BY <1>3, <1>4, <1>5, <1>6 DEF IInv

LEMMA NextIInv == Serial /\ IInv /\ [Next]_vars => IInv'
<1> SUFFICES ASSUME Serial, IInv, [Next]_vars PROVE IInv'
  OBVIOUS
<1>1. ASSUME NEW r \in Requests, NEW o \in Occupiers, NEW c \in Children,
             NEW m \in OwnershipMode, Ask(r, o, c, m)
      PROVE  IInv'
  BY <1>1, AskStep
<1>2. ASSUME NEW r \in Requests, ReadOwner(r) PROVE IInv'
  BY <1>2, ReadOwnerStep
<1>3. ASSUME NEW r \in Requests, ReadSharers(r) PROVE IInv'
  BY <1>3, ReadSharersStep
<1>4. ASSUME NEW r \in Requests, WriteRow(r) PROVE IInv'
  BY <1>4, WriteRowStep
<1>5. ASSUME NEW r \in Requests, LoseAnswer(r) PROVE IInv'
  BY <1>5, LoseAnswerStep
<1>6. ASSUME NEW r \in Requests, Return(r) PROVE IInv'
  BY <1>6, ReturnStep
<1>7. ASSUME NEW o \in Occupiers, NEW c \in Children, NEW m \in OwnershipMode,
             Unoccupy(o, c, m)
      PROVE  IInv'
  BY <1>7, UnoccupyStep
<1>8. CASE Crash
  BY <1>8, CrashStep
<1>9. CASE UNCHANGED vars
  BY <1>9 DEF vars, IInv, TypeOK, KindInv, AnswerInv, Apart, ReadsHold, AbilityExclusive,
              Exclusive, GrantMeansRow, RefusalHasConflict
<1> QED
  BY <1>1, <1>2, <1>3, <1>4, <1>5, <1>6, <1>7, <1>8, <1>9 DEF Next

LEMMA SerialIInv == ASSUME Serial PROVE Spec => []IInv
BY InitIInv, NextIInv, PTL DEF Spec

\* Types and kinds need no Serial: whatever overlaps, each statement writes what it may
LEMMA TypesAndKinds == Spec => [](TypeOK /\ KindInv)
<1>1. Init => TypeOK /\ KindInv
  BY DEF Init, TypeOK, KindInv, NoRequest
<1>2. TypeOK /\ KindInv /\ [Next]_vars => (TypeOK /\ KindInv)'
  <2> SUFFICES ASSUME TypeOK, KindInv, [Next]_vars
               PROVE  TypeOK' /\ KindInv'
    OBVIOUS
  <2> USE DEF TypeOK, KindInv
  <2>1. ASSUME NEW r \in Requests, NEW q \in Busy, req' = [req EXCEPT ![r] = q],
               q.pc = "done" => q.ans # "none", rows' \subseteq Rows, KindInv'
        PROVE  TypeOK' /\ KindInv'
    BY <2>1
  <2>2. ASSUME NEW r \in Requests, req[r].pc # "idle" PROVE req[r] \in Busy
    BY <2>2 DEF NoRequest
  <2>3. ASSUME NEW r \in Requests, NEW o \in Occupiers, NEW c \in Children,
               NEW m \in OwnershipMode, Ask(r, o, c, m)
        PROVE  TypeOK' /\ KindInv'
    BY <2>3 DEF Ask, Busy, Answers
  <2>4. ASSUME NEW r \in Requests, NEW pc \in {"sharers", "write"}, req[r].pc # "idle",
               GoOn(r, pc), UNCHANGED rows
        PROVE  TypeOK' /\ KindInv'
    <3> DEFINE q == [req[r] EXCEPT !.pc = pc]
    <3>1. q \in Busy /\ q.pc # "done" /\ req' = [req EXCEPT ![r] = q]
      BY <2>2, <2>4 DEF GoOn, Busy
    <3> QED
      BY <2>1, <2>4, <3>1
  <2>5. ASSUME NEW r \in Requests, NEW a \in Answers \ {"none"}, req[r].pc # "idle",
               Answer(r, a), rows' \subseteq Rows, KindInv'
        PROVE  TypeOK' /\ KindInv'
    <3> DEFINE b == IF req[r].ans = "lost" THEN "lost" ELSE a
               q == [req[r] EXCEPT !.pc = "done", !.ans = b]
    <3>1. q \in Busy /\ q.ans # "none" /\ req' = [req EXCEPT ![r] = q]
      BY <2>2, <2>5 DEF Answer, Busy, Answers
    <3> QED
      BY <2>1, <2>5, <3>1
  <2>6. ASSUME NEW r \in Requests, ReadOwner(r) PROVE TypeOK' /\ KindInv'
    BY <2>4, <2>5, <2>6 DEF ReadOwner, Answers
  <2>7. ASSUME NEW r \in Requests, ReadSharers(r) PROVE TypeOK' /\ KindInv'
    BY <2>4, <2>5, <2>7 DEF ReadSharers, Answers
  <2>8. ASSUME NEW r \in Requests, WriteRow(r) PROVE TypeOK' /\ KindInv'
    <3>1. NewRow(req[r]) \in Rows
      BY <2>2, <2>8 DEF WriteRow, NewRow, Rows, Kinds, Busy
    <3>2. rows' \subseteq Rows /\ KindInv'
      BY <2>8, <3>1 DEF WriteRow, Replaced, NewRow
    <3> QED
      BY <2>5, <2>8, <3>2 DEF WriteRow, Answers
  <2>9. ASSUME NEW r \in Requests, LoseAnswer(r) PROVE TypeOK' /\ KindInv'
    <3> DEFINE q == [req[r] EXCEPT !.ans = "lost"]
    <3>1. q \in Busy /\ q.ans # "none" /\ req' = [req EXCEPT ![r] = q]
      BY <2>2, <2>9 DEF LoseAnswer, Busy, Answers
    <3> QED
      BY <2>1, <2>9, <3>1 DEF LoseAnswer
  <2>10. ASSUME NEW r \in Requests, Return(r) PROVE TypeOK' /\ KindInv'
    BY <2>10 DEF Return, NoRequest
  <2>11. ASSUME NEW o \in Occupiers, NEW c \in Children, NEW m \in OwnershipMode,
                Unoccupy(o, c, m)
         PROVE  TypeOK' /\ KindInv'
    BY <2>11 DEF Unoccupy
  <2>12. CASE Crash
    BY <2>2, <2>12 DEF Crash, InProgress, Busy, Answers
  <2>13. CASE UNCHANGED vars
    BY <2>13 DEF vars
  <2> QED
    BY <2>3, <2>6, <2>7, <2>8, <2>9, <2>10, <2>11, <2>12, <2>13 DEF Next
<1> QED
  BY <1>1, <1>2, PTL DEF Spec

\* CROwnership and the requests keep to their types, however requests overlap
THEOREM TypeCorrect == Spec => []TypeOK
BY TypesAndKinds, PTL

\* occupy_device writes its rows with the kinds of an ability, so get_device_owner, which
\* looks for those of a device, finds nobody, whatever was granted before
THEOREM DevicesHaveNoOwner == Spec => [](\A c \in Devices : get_device_owner(c) = {})
<1>1. KindInv => \A c \in Devices : get_device_owner(c) = {}
  BY DEF KindInv, get_device_owner, Parents
<1> QED
  BY <1>1, TypesAndKinds, PTL

\* occupy_ability: an ability with a unique owner has no other occupier, when the
\* requests for one child are answered one after the other
THEOREM AbilitiesAreExclusive == ASSUME Serial PROVE Spec => []AbilityExclusive
<1>1. IInv => AbilityExclusive
  BY DEF IInv
<1> QED
  BY <1>1, SerialIInv, PTL

\* An occupier that was answered OK has its row until its request is over
THEOREM GrantsAreInTheTable == ASSUME Serial PROVE Spec => []GrantMeansRow
<1>1. IInv => GrantMeansRow
  BY DEF IInv
<1> QED
  BY <1>1, SerialIInv, PTL

\* Nobody is refused for a row of its own, over lost answers, retries and crashes
THEOREM RefusalsHaveAConflict == ASSUME Serial PROVE Spec => []RefusalHasConflict
<1>1. IInv => RefusalHasConflict
  BY DEF IInv
<1> QED
  BY <1>1, SerialIInv, PTL

-----------------------------------------------------------------------------
(* Every request for an ability is decided in one moment: Occupation implements *)
(* Ownership. The moment is the statement that answers.                         *)

\* What one request does to its own record is all that the askers see of it
LEMMA OneRequest ==
    ASSUME IInv, NEW r \in Requests, NEW q,
           req' = [req EXCEPT ![r] = q]
    PROVE  AskedAbilities' = [AskedAbilities EXCEPT ![r] = AbilityRequest(r)']
<1>1. \A s \in Requests \ {r} : req'[s] = req[s]
  BY DEF IInv, TypeOK
<1>2. \A s \in Requests \ {r} : AbilityRequest(s)' = AbilityRequest(s)
  BY <1>1 DEF AbilityRequest, InProgress
<1> QED
  BY <1>2 DEF AskedAbilities

\* An asker hears the answer that the handler returns, unless it has given up
LEMMA Answered ==
    ASSUME IInv, NEW r \in Requests, InProgress(r), NEW a, Answer(r, a)
    PROVE  /\ req[r].of \notin Abilities => UNCHANGED AskedAbilities
           /\ req[r].of \in Abilities =>
                 /\ AskedAbilities[r].at = "open" /\ AskedAbilities[r].who = req[r].who
                 /\ AskedAbilities[r].of = req[r].of /\ AskedAbilities[r].mode = req[r].mode
                 /\ Promise!Say(r, a)
<1> DEFINE b == IF req[r].ans = "lost" THEN "lost" ELSE a
           q == [req[r] EXCEPT !.pc = "done", !.ans = b]
<1>1. req[r] \in Busy /\ req[r].pc \notin {"idle", "done"}
  BY BusyRequest DEF InProgress
<1>2. req' = [req EXCEPT ![r] = q]
  BY DEF Answer
<1>3. /\ req'[r] = q /\ q.pc = "done" /\ q.ans = b /\ q.of = req[r].of
      /\ q.who = req[r].who /\ q.mode = req[r].mode
  BY <1>1, <1>2 DEF IInv, TypeOK, Busy
<1>4. AskedAbilities' = [AskedAbilities EXCEPT ![r] = AbilityRequest(r)']
  BY <1>2, OneRequest
<1>5. CASE req[r].of \notin Abilities
  <2>1. AbilityRequest(r)' = AbilityRequest(r)
    BY <1>3, <1>5 DEF AbilityRequest
  <2> QED
    BY <1>4, <1>5, <2>1 DEF AskedAbilities
<1>6. CASE req[r].of \in Abilities
  <2> DEFINE p == [at |-> "open", who |-> req[r].who, of |-> req[r].of,
                   mode |-> req[r].mode, ans |-> req[r].ans]
  <2>1. AskedAbilities[r] = p
    BY <1>1, <1>6 DEF AskedAbilities, AbilityRequest, InProgress
  <2>2. AbilityRequest(r)' = [at |-> "over", who |-> req[r].who, of |-> req[r].of,
                              mode |-> req[r].mode, ans |-> b]
    BY <1>3, <1>6 DEF AbilityRequest, InProgress
  <2>3. p.at = "open" /\ p.who = req[r].who /\ p.of = req[r].of /\ p.mode = req[r].mode
    OBVIOUS
  <2>4. Promise!Told(p, a) = AbilityRequest(r)'
    BY <2>2 DEF Promise!Told
  <2>5. Promise!Say(r, a)
    BY <1>4, <2>1, <2>4 DEF Promise!Say
  <2> QED
    BY <1>6, <2>1, <2>3, <2>5
<1> QED
  BY <1>5, <1>6

\* Going on to the next statement is nothing that an asker sees
LEMMA GoesOn ==
    ASSUME IInv, NEW r \in Requests, InProgress(r), NEW pc \in {"sharers", "write"}, GoOn(r, pc)
    PROVE  UNCHANGED AskedAbilities
<1> DEFINE q == [req[r] EXCEPT !.pc = pc]
<1>1. req[r] \in Busy /\ req[r].pc # "idle"
  BY BusyRequest DEF InProgress
<1>2. /\ req'[r] = q /\ q.pc = pc /\ q.of = req[r].of /\ q.who = req[r].who
      /\ q.mode = req[r].mode /\ q.ans = req[r].ans
      /\ req' = [req EXCEPT ![r] = q]
  BY <1>1 DEF GoOn, IInv, TypeOK, Busy
<1>3. AbilityRequest(r)' = AbilityRequest(r)
  BY <1>1, <1>2 DEF AbilityRequest, InProgress
<1> QED
  BY <1>2, <1>3, OneRequest DEF AskedAbilities

LEMMA AskImplements ==
    ASSUME IInv, NEW r \in Requests, NEW o \in Occupiers, NEW c \in Children,
           NEW m \in OwnershipMode, Ask(r, o, c, m)
    PROVE  Promise!Ask(r) \/ UNCHANGED Promise!ownVars
<1> DEFINE q == [pc |-> "owner", who |-> o, of |-> c, mode |-> m, ans |-> "none"]
<1>1. UNCHANGED HeldAbilities
  BY DEF Ask, HeldAbilities
<1>2. req'[r] = q /\ req' = [req EXCEPT ![r] = q] /\ req[r].pc = "idle"
  BY DEF Ask, IInv, TypeOK
<1>3. AskedAbilities' = [AskedAbilities EXCEPT ![r] = AbilityRequest(r)']
  BY <1>2, OneRequest
<1>4. AskedAbilities[r] = [at |-> "idle"]
  BY <1>2 DEF AskedAbilities, AbilityRequest
<1>5. CASE c \notin Abilities
  <2>1. AbilityRequest(r)' = [at |-> "idle"]
    BY <1>2, <1>5 DEF AbilityRequest
  <2> QED
    BY <1>1, <1>3, <1>4, <2>1 DEF Promise!ownVars, AskedAbilities
<1>6. CASE c \in Abilities
  <2>1. AbilityRequest(r)' = [at |-> "open", who |-> o, of |-> c, mode |-> m, ans |-> "none"]
    BY <1>2, <1>6 DEF AbilityRequest, InProgress
  <2>2. AskedAbilities' = [AskedAbilities EXCEPT ![r] =
             [at |-> "open", who |-> o, of |-> c, mode |-> m, ans |-> "none"]]
    BY <1>3, <2>1
  <2>3. AskedAbilities[r].at = "idle" /\ m \in Promise!Modes
    BY <1>4 DEF Promise!Modes, OwnershipMode
  <2>4. Promise!Ask(r)
    BY <1>1, <1>6, <2>2, <2>3 DEF Promise!Ask
  <2> QED
    BY <2>4
<1> QED
  BY <1>5, <1>6

LEMMA ReadOwnerImplements ==
    ASSUME IInv, NEW r \in Requests, ReadOwner(r)
    PROVE  Promise!Refuse(r) \/ Promise!Grant(r) \/ Promise!Miss(r) \/ UNCHANGED Promise!ownVars
<1>1. InProgress(r) /\ UNCHANGED HeldAbilities
  BY DEF ReadOwner, InProgress, HeldAbilities
<1>2. CASE GoOn(r, "sharers")
  BY <1>1, <1>2, GoesOn DEF Promise!ownVars
<1>3. ASSUME NEW w \in OwnerOf(req[r].of),
             Answer(r, IF w = req[r].who THEN "granted" ELSE "refused")
      PROVE  Promise!Refuse(r) \/ Promise!Grant(r) \/ Promise!Miss(r) \/ UNCHANGED Promise!ownVars
  <2> DEFINE p == AskedAbilities[r]
             a == IF w = req[r].who THEN "granted" ELSE "refused"
  <2>1. CASE req[r].of \notin Abilities
    BY <1>1, <1>3, <2>1, Answered DEF Promise!ownVars
  <2>2. CASE req[r].of \in Abilities
    <3>1. p.at = "open" /\ p.who = req[r].who /\ p.of = req[r].of /\ Promise!Say(r, a)
      BY <1>1, <1>3, <2>2, Answered
    <3>2. PICK x \in rows : x.parent = w /\ x.child = p.of /\ x.mode = "unique"
      BY <3>1, OwnerRow
    <3>3. \A y \in rows : y.child = p.of => y = x
      BY <2>2, <3>1, <3>2 DEF IInv, AbilityExclusive, Exclusive
    <3>4. [who |-> w, of |-> p.of, mode |-> "unique"] \in HeldAbilities
      BY <2>2, <3>1, <3>2 DEF HeldAbilities
    <3>5. \A h \in HeldAbilities : h.of = p.of => h.who = w /\ h.mode = "unique"
      BY <3>2, <3>3 DEF HeldAbilities
    <3>6. CASE w = p.who
      <4>1. ~Promise!Conflict(p) /\ Promise!Holds(p)
        BY <3>4, <3>5, <3>6 DEF Promise!Conflict, Promise!Holds
      <4> QED
        BY <1>1, <3>1, <3>6, <4>1 DEF Promise!Grant
    <3>7. CASE w # p.who
      <4>1. Promise!Conflict(p)
        BY <3>4, <3>7 DEF Promise!Conflict
      <4> QED
        BY <1>1, <3>1, <3>7, <4>1 DEF Promise!Refuse
    <3> QED
      BY <3>6, <3>7
  <2> QED
    BY <2>1, <2>2
<1>4. CASE Answer(r, "missing")
  <2>1. CASE req[r].of \notin Abilities
    BY <1>1, <1>4, <2>1, Answered DEF Promise!ownVars
  <2>2. CASE req[r].of \in Abilities
    BY <1>1, <1>4, <2>2, Answered DEF Promise!Miss
  <2> QED
    BY <2>1, <2>2
<1> QED
  BY <1>2, <1>3, <1>4 DEF ReadOwner

LEMMA ReadSharersImplements ==
    ASSUME IInv, NEW r \in Requests, ReadSharers(r)
    PROVE  Promise!Refuse(r) \/ Promise!Grant(r) \/ UNCHANGED Promise!ownVars
<1> DEFINE sharers == get_ability_sharers(req[r].of)
           p == AskedAbilities[r]
<1>1. InProgress(r) /\ UNCHANGED HeldAbilities /\ req[r].pc = "sharers"
  BY DEF ReadSharers, InProgress, HeldAbilities
<1>2. CASE GoOn(r, "write")
  BY <1>1, <1>2, GoesOn DEF Promise!ownVars
<1>3. ASSUME NEW a, Answer(r, a), req[r].of \notin Abilities
      PROVE  UNCHANGED Promise!ownVars
  BY <1>1, <1>3, Answered DEF Promise!ownVars
<1>4. ASSUME NEW a, Answer(r, a), req[r].of \in Abilities
      PROVE  /\ p.at = "open" /\ p.who = req[r].who /\ p.of = req[r].of
             /\ p.mode = req[r].mode /\ Promise!Say(r, a)
  BY <1>1, <1>4, Answered
<1>5. ASSUME NEW w \in sharers, req[r].of \in Abilities
      PROVE  [who |-> w, of |-> req[r].of, mode |-> "shared"] \in HeldAbilities
  BY <1>5 DEF get_ability_sharers, Parents, HeldAbilities
<1>6. CASE sharers # {} /\ req[r].mode = "unique" /\ Answer(r, "refused")
  <2>1. CASE req[r].of \in Abilities
    <3>1. p.at = "open" /\ p.of = req[r].of /\ p.mode = "unique" /\ Promise!Say(r, "refused")
      BY <1>4, <1>6, <2>1
    <3>2. Promise!Conflict(p)
      BY <1>5, <1>6, <2>1, <3>1 DEF Promise!Conflict
    <3> QED
      BY <1>1, <3>1, <3>2 DEF Promise!Refuse
  <2> QED
    BY <1>3, <1>6, <2>1
<1>7. CASE req[r].mode = "shared" /\ req[r].who \in sharers /\ Answer(r, "granted")
  <2>1. CASE req[r].of \in Abilities
    <3>1. /\ p.at = "open" /\ p.who = req[r].who /\ p.of = req[r].of /\ p.mode = "shared"
          /\ Promise!Say(r, "granted")
      BY <1>4, <1>7, <2>1
    <3>2. Promise!Holds(p)
      BY <1>5, <1>7, <2>1, <3>1 DEF Promise!Holds
    <3>3. \A h \in HeldAbilities : h.of = p.of => h.mode = "shared"
      BY <1>1, <2>1, <3>1 DEF HeldAbilities, IInv, ReadsHold
    <3>4. ~Promise!Conflict(p)
      BY <3>1, <3>3 DEF Promise!Conflict
    <3> QED
      BY <1>1, <3>1, <3>2, <3>4 DEF Promise!Grant
  <2> QED
    BY <1>3, <1>7, <2>1
<1> QED
  BY <1>2, <1>6, <1>7 DEF ReadSharers

\* What a handler that may write a row for an ability adds to what is held
LEMMA WrittenRow ==
    ASSUME IInv, NEW r \in Requests, req[r].pc = "write", rows' = Replaced(NewRow(req[r])),
           req[r].of \in Abilities
    PROVE  HeldAbilities' = HeldAbilities \cup
               {[who |-> req[r].who, of |-> req[r].of, mode |-> req[r].mode]}
<1> DEFINE n == NewRow(req[r])
           h(x) == [who |-> x.parent, of |-> x.child, mode |-> x.mode]
<1>1. /\ n.parent = req[r].who /\ n.child = req[r].of /\ n.mode = req[r].mode
      /\ n.pkind = "ability" /\ n.ckind = "ability"
  BY DEF NewRow
<1>2. req[r].mode \in OwnershipMode
  BY BusyRequest DEF Busy
\* A replaced row is the row itself
<1>3. ASSUME NEW x \in rows, x.parent = n.parent, x.child = n.child PROVE h(x) = h(n)
  <2>1. x.mode = "shared" /\ req[r].mode # "unique"
    BY <1>1, <1>3 DEF IInv, ReadsHold
  <2> QED
    BY <1>1, <1>2, <1>3, <2>1 DEF OwnershipMode
<1>4. n \in rows' /\ rows' \subseteq rows \cup {n}
  BY DEF Replaced
<1>5. ASSUME NEW x \in rows PROVE x \in rows' \/ h(x) = h(n)
  BY <1>3 DEF Replaced
<1>6. h(n) = [who |-> req[r].who, of |-> req[r].of, mode |-> req[r].mode]
  BY <1>1
<1> HIDE DEF n
<1>7. HeldAbilities' = {h(x) : x \in {y \in rows' : y.child \in Abilities}}
  BY DEF HeldAbilities
<1>8. HeldAbilities = {h(x) : x \in {y \in rows : y.child \in Abilities}}
  BY DEF HeldAbilities
<1>9. HeldAbilities' \subseteq HeldAbilities \cup {h(n)}
  BY <1>4, <1>7, <1>8
<1>10. h(n) \in HeldAbilities'
  BY <1>1, <1>4, <1>7
<1>11. HeldAbilities \subseteq HeldAbilities'
  BY <1>5, <1>7, <1>8, <1>10
<1> QED
  BY <1>6, <1>9, <1>10, <1>11

LEMMA WriteRowImplements ==
    ASSUME IInv, NEW r \in Requests, WriteRow(r)
    PROVE  Promise!Grant(r) \/ UNCHANGED Promise!ownVars
<1> DEFINE p == AskedAbilities[r]
<1>1. /\ InProgress(r) /\ req[r].pc = "write" /\ Answer(r, "granted")
      /\ rows' = Replaced(NewRow(req[r]))
  BY DEF WriteRow, InProgress
<1>2. CASE req[r].of \notin Abilities
  <2>1. {y \in rows' : y.child \in Abilities} = {y \in rows : y.child \in Abilities}
    BY <1>1, <1>2 DEF Replaced, NewRow
  <2> QED
    BY <1>1, <1>2, <2>1, Answered DEF HeldAbilities, Promise!ownVars
<1>3. CASE req[r].of \in Abilities
  <2>1. /\ p.at = "open" /\ p.who = req[r].who /\ p.of = req[r].of /\ p.mode = req[r].mode
        /\ Promise!Say(r, "granted")
    BY <1>1, <1>3, Answered
  <2>2. \A h \in HeldAbilities : h.of = p.of => h.mode = "shared" /\ p.mode # "unique"
    BY <1>1, <1>3, <2>1 DEF HeldAbilities, IInv, ReadsHold
  <2>3. ~Promise!Conflict(p)
    BY <2>2 DEF Promise!Conflict
  <2>4. HeldAbilities' = HeldAbilities \cup {Promise!Held(p)}
    BY <1>1, <1>3, <2>1, WrittenRow DEF Promise!Held
  <2>5. ASSUME Promise!Holds(p) PROVE Promise!Held(p) \in HeldAbilities
    <3>1. PICK h \in HeldAbilities : h.who = p.who /\ h.of = p.of
      BY <2>5 DEF Promise!Holds
    <3>2. h = [who |-> h.who, of |-> h.of, mode |-> h.mode]
      BY <3>1 DEF HeldAbilities
    <3>3. h.mode = "shared" /\ p.mode = "shared"
      BY <1>1, <2>1, <2>2, <3>1, BusyRequest DEF Busy, OwnershipMode
    <3> QED
      BY <3>1, <3>2, <3>3 DEF Promise!Held
  <2>6. HeldAbilities' = IF Promise!Holds(p) THEN HeldAbilities
                         ELSE HeldAbilities \cup {Promise!Held(p)}
    BY <2>4, <2>5
  <2> QED
    BY <2>1, <2>3, <2>6 DEF Promise!Grant
<1> QED
  BY <1>2, <1>3

LEMMA LoseAnswerImplements ==
    ASSUME IInv, NEW r \in Requests, LoseAnswer(r)
    PROVE  Promise!LoseAnswer(r) \/ UNCHANGED Promise!ownVars
<1> DEFINE q == [req[r] EXCEPT !.ans = "lost"]
<1>1. req[r] \in Busy /\ req[r].pc # "idle" /\ UNCHANGED HeldAbilities
  BY BusyRequest DEF LoseAnswer, HeldAbilities
<1>2. /\ req' = [req EXCEPT ![r] = q] /\ req'[r] = q /\ q.pc = req[r].pc /\ q.ans = "lost"
      /\ q.of = req[r].of /\ q.who = req[r].who /\ q.mode = req[r].mode
  BY <1>1 DEF LoseAnswer, IInv, TypeOK, Busy
<1>3. AskedAbilities' = [AskedAbilities EXCEPT ![r] = AbilityRequest(r)']
  BY <1>2, OneRequest
<1>4. CASE req[r].of \notin Abilities
  <2>1. AbilityRequest(r)' = AbilityRequest(r)
    BY <1>1, <1>2, <1>4 DEF AbilityRequest
  <2> QED
    BY <1>1, <1>3, <2>1 DEF AskedAbilities, Promise!ownVars
<1>5. CASE req[r].of \in Abilities
  <2> DEFINE at == IF InProgress(r) THEN "open" ELSE "over"
             p == [at |-> at, who |-> req[r].who, of |-> req[r].of, mode |-> req[r].mode,
                   ans |-> req[r].ans]
  <2>1. AskedAbilities[r] = p
    BY <1>1, <1>5 DEF AbilityRequest, AskedAbilities
  <2>2. AbilityRequest(r)' = [at |-> at, who |-> req[r].who, of |-> req[r].of,
                              mode |-> req[r].mode, ans |-> "lost"]
    BY <1>1, <1>2, <1>5 DEF AbilityRequest, InProgress
  <2>3. AbilityRequest(r)' = [p EXCEPT !.ans = "lost"] /\ p.at # "idle"
    BY <2>2
  <2> HIDE DEF p
  <2>4. AskedAbilities' = [AskedAbilities EXCEPT ![r].ans = "lost"]
    BY <1>3, <2>1, <2>3
  <2> QED
    BY <1>1, <2>1, <2>3, <2>4 DEF Promise!LoseAnswer
<1> QED
  BY <1>4, <1>5

LEMMA ReturnImplements ==
    ASSUME IInv, NEW r \in Requests, Return(r)
    PROVE  Promise!Forget(r) \/ UNCHANGED Promise!ownVars
<1>1. /\ req[r].pc = "done" /\ req' = [req EXCEPT ![r] = NoRequest] /\ req'[r] = NoRequest
      /\ UNCHANGED HeldAbilities
  BY DEF Return, IInv, TypeOK, HeldAbilities
<1>2. AbilityRequest(r)' = [at |-> "idle"]
  BY <1>1 DEF AbilityRequest, NoRequest
<1>3. AskedAbilities' = [AskedAbilities EXCEPT ![r] = [at |-> "idle"]]
  BY <1>1, <1>2, OneRequest
<1>4. CASE req[r].of \notin Abilities
  BY <1>1, <1>3, <1>4 DEF AskedAbilities, AbilityRequest, Promise!ownVars
<1>5. CASE req[r].of \in Abilities
  <2>1. AskedAbilities[r].at = "over"
    BY <1>1, <1>5 DEF AskedAbilities, AbilityRequest, InProgress
  <2> QED
    BY <1>1, <1>3, <2>1 DEF Promise!Forget, Promise!NotAsked
<1> QED
  BY <1>4, <1>5

LEMMA UnoccupyImplements ==
    ASSUME IInv, NEW o \in Occupiers, NEW c \in Children, NEW m \in OwnershipMode,
           Unoccupy(o, c, m)
    PROVE  (c \in Abilities /\ Promise!Release(o, c, m)) \/ UNCHANGED Promise!ownVars
<1>1. UNCHANGED AskedAbilities
  BY DEF Unoccupy, AskedAbilities, AbilityRequest, InProgress
<1>2. CASE c \notin Abilities
  <2>1. {y \in rows' : y.child \in Abilities} = {y \in rows : y.child \in Abilities}
    BY <1>2 DEF Unoccupy
  <2> QED
    BY <1>1, <2>1 DEF HeldAbilities, Promise!ownVars
<1>3. CASE c \in Abilities
  <2> DEFINE g == [who |-> o, of |-> c, mode |-> m]
             h(x) == [who |-> x.parent, of |-> x.child, mode |-> x.mode]
  <2>1. c \notin Devices
    BY <1>3, OccupationAssumption
  <2>2. rows' = {x \in rows : h(x) # g}
    BY <2>1 DEF Unoccupy, IInv, KindInv
  <2>3. HeldAbilities' = HeldAbilities \ {g}
    BY <2>2 DEF HeldAbilities
  <2> QED
    BY <1>1, <1>3, <2>3 DEF Promise!Release
<1> QED
  BY <1>2, <1>3

LEMMA CrashImplements ==
    ASSUME IInv, Crash
    PROVE  Promise!Fail
<1>1. UNCHANGED HeldAbilities
  BY DEF Crash, HeldAbilities
<1>2. ASSUME NEW r \in Requests
      PROVE  AbilityRequest(r)' = IF AbilityRequest(r).at = "open"
                                  THEN [AbilityRequest(r) EXCEPT !.at = "over", !.ans = "lost"]
                                  ELSE AbilityRequest(r)
  <2>1. CASE InProgress(r)
    <3> DEFINE q == [req[r] EXCEPT !.pc = "done", !.ans = "lost"]
    <3>1. req[r] \in Busy /\ req[r].pc # "idle"
      BY <2>1, BusyRequest DEF InProgress
    <3>2. /\ req'[r] = q /\ q.pc = "done" /\ q.ans = "lost" /\ q.of = req[r].of
          /\ q.who = req[r].who /\ q.mode = req[r].mode
      BY <2>1, <3>1 DEF Crash, Busy
    <3> QED
      BY <2>1, <3>1, <3>2 DEF AbilityRequest, InProgress
  <2>2. CASE ~InProgress(r)
    <3>1. req'[r] = req[r]
      BY <2>2 DEF Crash
    <3> QED
      BY <2>2, <3>1 DEF AbilityRequest, InProgress
  <2> QED
    BY <2>1, <2>2
<1> QED
  BY <1>1, <1>2 DEF Promise!Fail, AskedAbilities

\* occupy_ability and unoccupy_ability: requests for one child that do not overlap are
\* decided in one moment each, over lost answers, crashes and whatever is asked of
\* other children meanwhile
THEOREM RequestsAreAtomic == ASSUME Serial PROVE Spec => DecidedAtOnce
<1>1. Init => Promise!OwnInit
  BY DEF Init, Promise!OwnInit, Promise!NotAsked, HeldAbilities, AskedAbilities, AbilityRequest,
         NoRequest
<1>2. IInv /\ [Next]_vars => [Promise!OwnNext]_(Promise!ownVars)
  <2> SUFFICES ASSUME IInv, [Next]_vars
               PROVE  Promise!OwnNext \/ UNCHANGED Promise!ownVars
    OBVIOUS
  <2>1. ASSUME NEW r \in Requests, NEW o \in Occupiers, NEW c \in Children,
               NEW m \in OwnershipMode, Ask(r, o, c, m)
        PROVE  Promise!OwnNext \/ UNCHANGED Promise!ownVars
    BY <2>1, AskImplements DEF Promise!OwnNext
  <2>2. ASSUME NEW r \in Requests, ReadOwner(r) \/ ReadSharers(r) \/ WriteRow(r)
        PROVE  Promise!OwnNext \/ UNCHANGED Promise!ownVars
    BY <2>2, ReadOwnerImplements, ReadSharersImplements, WriteRowImplements
       DEF Promise!OwnNext
  <2>3. ASSUME NEW r \in Requests, LoseAnswer(r) \/ Return(r)
        PROVE  Promise!OwnNext \/ UNCHANGED Promise!ownVars
    BY <2>3, LoseAnswerImplements, ReturnImplements DEF Promise!OwnNext
  <2>4. ASSUME NEW o \in Occupiers, NEW c \in Children, NEW m \in OwnershipMode,
               Unoccupy(o, c, m)
        PROVE  Promise!OwnNext \/ UNCHANGED Promise!ownVars
    BY <2>4, UnoccupyImplements DEF Promise!OwnNext, Promise!Modes, OwnershipMode
  <2>5. CASE Crash
    BY <2>5, CrashImplements DEF Promise!OwnNext
  <2>6. CASE UNCHANGED vars
    BY <2>6 DEF vars, Promise!ownVars, HeldAbilities, AskedAbilities, AbilityRequest, InProgress
  <2> QED
    BY <2>1, <2>2, <2>3, <2>4, <2>5, <2>6 DEF Next
<1> QED
  BY <1>1, <1>2, SerialIInv, PTL DEF Spec, DecidedAtOnce, Promise!OwnSpec
=============================================================================
