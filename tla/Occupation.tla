----------------------------- MODULE Occupation -----------------------------
(***************************************************************************)
(* The CROwnership table of a framework and the requests that occupy and     *)
(* release its abilities and devices: ResourceManager::occupy_ability,       *)
(* occupy_device and their counterparts. A handler reads the owner, reads    *)
(* the sharers and writes the row in three statements, without a transaction *)
(* or a lock, on one of the HTTP server's threads. A request for a child     *)
(* whose CR sits on another framework is forwarded by HTTP to that           *)
(* framework (the one modelled here), and the answer may get lost.           *)
(***************************************************************************)
EXTENDS Naturals

CONSTANTS
    Occupiers,   \* ids that occupy
    Abilities,   \* children found in AbilityCRBasic or AbilityInstance
    Devices,     \* children found in DeviceCRBasic
    Forwarded,   \* children that are asked for from another framework
    Requests,    \* bound: requests in progress at a time
    Serial       \* TRUE: the requests for one child do not overlap

ASSUME OccupationAssumption ==
    /\ Abilities \cap Devices = {}
    /\ Forwarded \subseteq Abilities \cup Devices
    /\ Serial \in BOOLEAN

Children == Abilities \cup Devices
Kinds == {"ability", "device"}
OwnershipMode == {"unique", "shared"}

VARIABLES
    rows,   \* CROwnership
    req     \* the requests: [pc, who, of, mode, ans]

vars == <<rows, req>>

Rows == [parent : Occupiers, pkind : Kinds, child : Children, ckind : Kinds,
         mode : OwnershipMode]
Answers == {"none", "granted", "refused", "missing", "lost"}
Busy == [pc : {"owner", "sharers", "write", "done"}, who : Occupiers,
         of : Children, mode : OwnershipMode, ans : Answers]
NoRequest == [pc |-> "idle", ans |-> "none"]

TypeOK ==
    /\ rows \subseteq Rows
    /\ req \in [Requests -> Busy \cup {NoRequest}]
    /\ \A r \in Requests : req[r].pc = "done" => req[r].ans # "none"

Init == rows = {} /\ req = [r \in Requests |-> NoRequest]

-----------------------------------------------------------------------------
(* The SELECTs *)

Parents(kind, c, mode) ==
    {x.parent : x \in {y \in rows : /\ y.pkind = kind /\ y.child = c
                                    /\ y.ckind = kind /\ y.mode = mode}}

get_ability_owner(c) == Parents("ability", c, "unique")
get_device_owner(c) == Parents("device", c, "unique")
get_ability_sharers(c) == Parents("ability", c, "shared")

OwnerOf(c) == IF c \in Devices THEN get_device_owner(c) ELSE get_ability_owner(c)

-----------------------------------------------------------------------------
(* Requests. InProgress: the handler has not returned *)

InProgress(r) == req[r].pc \in {"owner", "sharers", "write"}
Quiet(c) == Serial => \A r \in Requests : req[r].pc # "idle" => req[r].of # c

\* POST /api/cr/:id/occupation, of a child that was found; it may be gone when its
\* own framework looks for it
Ask(r, o, c, m) ==
    /\ req[r].pc = "idle"
    /\ Quiet(c)
    /\ req' = [req EXCEPT ![r] = [pc |-> "owner", who |-> o, of |-> c, mode |-> m,
                                  ans |-> "none"]]
    /\ UNCHANGED rows

\* The handler returns; its answer reaches the asker unless that has given up.
\* Fault: the handler returns without an answer
Answer_Dropped(r, a) == req' = [req EXCEPT ![r].pc = "done"]
Answer(r, a) ==
    req' = [req EXCEPT ![r].pc = "done", ![r].ans = IF @ = "lost" THEN @ ELSE a]

GoOn(r, pc) == req' = [req EXCEPT ![r].pc = pc]

\* judge_*_exist, and the CR with its spec, then get_*_owner. A child that is gone is
\* not occupied. Faults: an owner who asks again is refused; the owner is not looked at
ReadOwner_RefusesSelf(r) ==
    /\ req[r].pc = "owner"
    /\ IF OwnerOf(req[r].of) = {} THEN GoOn(r, "sharers") ELSE Answer(r, "refused")
    /\ UNCHANGED rows
ReadOwner_Ignored(r) ==
    /\ req[r].pc = "owner"
    /\ GoOn(r, "sharers")
    /\ UNCHANGED rows
ReadOwner(r) ==
    /\ req[r].pc = "owner"
    /\ \/ Answer(r, "missing")
       \/ OwnerOf(req[r].of) = {} /\ GoOn(r, "sharers")
       \/ \E w \in OwnerOf(req[r].of) :
             Answer(r, IF w = req[r].who THEN "granted" ELSE "refused")
    /\ UNCHANGED rows

\* get_ability_sharers, for devices too
ReadSharers(r) ==
    LET sharers == get_ability_sharers(req[r].of)
    IN  /\ req[r].pc = "sharers"
        /\ CASE sharers # {} /\ req[r].mode = "unique" -> Answer(r, "refused")
             [] req[r].mode = "shared" /\ req[r].who \in sharers -> Answer(r, "granted")
             [] OTHER -> GoOn(r, "write")
        /\ UNCHANGED rows

\* add_ability_sharers and add_ability_owner: a REPLACE on the table's key
Replaced(x) ==
    {y \in rows : ~(/\ y.parent = x.parent /\ y.pkind = x.pkind
                    /\ y.child = x.child /\ y.ckind = x.ckind)} \cup {x}

NewRow(q) == [parent |-> q.who, pkind |-> "ability", child |-> q.of,
              ckind |-> "ability", mode |-> q.mode]

WriteRow(r) ==
    /\ req[r].pc = "write"
    /\ rows' = Replaced(NewRow(req[r]))
    /\ Answer(r, "granted")

\* send_http_occupy_request fails: the forwarder answers "post error" while the
\* framework that has the child goes on, or has done it
LoseAnswer(r) ==
    /\ req[r].pc # "idle" /\ req[r].of \in Forwarded
    /\ req[r].ans # "lost"
    /\ req' = [req EXCEPT ![r].ans = "lost"]
    /\ UNCHANGED rows

Return(r) ==
    /\ req[r].pc = "done"
    /\ req' = [req EXCEPT ![r] = NoRequest]
    /\ UNCHANGED rows

\* DELETE /api/cr/:id/occupation: one statement, which for a device looks for
\* child_kind "device"
Unoccupy(o, c, m) ==
    /\ Quiet(c)
    /\ rows' = {x \in rows :
                   ~(/\ x.parent = o /\ x.child = c /\ x.mode = m
                     /\ x.ckind = IF c \in Devices THEN "device" ELSE "ability")}
    /\ UNCHANGED req

\* The framework dies and comes back: the table is on disk, the requests fail
Crash ==
    /\ \E r \in Requests : InProgress(r)
    /\ req' = [r \in Requests |->
                  IF InProgress(r) THEN [req[r] EXCEPT !.pc = "done", !.ans = "lost"]
                  ELSE req[r]]
    /\ UNCHANGED rows

Next ==
    \/ \E r \in Requests :
        \/ \E o \in Occupiers, c \in Children, m \in OwnershipMode : Ask(r, o, c, m)
        \/ ReadOwner(r) \/ ReadSharers(r) \/ WriteRow(r) \/ LoseAnswer(r) \/ Return(r)
    \/ \E o \in Occupiers, c \in Children, m \in OwnershipMode : Unoccupy(o, c, m)
    \/ Crash

Spec == Init /\ [][Next]_vars

-----------------------------------------------------------------------------
(* Properties *)

Exclusive(C) ==
    \A x, y \in rows : x.child = y.child /\ x.child \in C /\ x.mode = "unique" => x = y

\* "can't add owner to unique object, it is already occupied": an ability never has
\* two unique owners, however the requests for it overlap
OneOwner ==
    \A x, y \in rows :
        x.child = y.child /\ x.child \in Abilities /\ x.mode = "unique" /\ y.mode = "unique"
            => x = y

\* An ability with a unique owner has no other occupier, sharer or owner, over any
\* history of requests, releases, lost answers and crashes
AbilityExclusive == Exclusive(Abilities)

\* An asker that was told OK is in the table, with its mode or as the owner
GrantMeansRow ==
    \A r \in Requests : req[r].ans = "granted" =>
        \E x \in rows : /\ x.parent = req[r].who /\ x.child = req[r].of
                        /\ x.mode \in {req[r].mode, "unique"}

\* A refusal has a cause: somebody else holds the child, or the asker wants alone
\* what it shares. So a retry after a lost answer or a crash is granted, not taken
\* for a conflict with itself
RefusalHasConflict ==
    \A r \in Requests : req[r].ans = "refused" =>
        \E x \in rows : /\ x.child = req[r].of
                        /\ \/ x.parent # req[r].who
                           \/ x.mode = "shared" /\ req[r].mode = "unique"

\* Ownership, of what is held of abilities
HeldAbilities ==
    {[who |-> x.parent, of |-> x.child, mode |-> x.mode] :
        x \in {y \in rows : y.child \in Abilities}}
AbilityRequest(r) ==
    IF req[r].pc = "idle" THEN [at |-> "idle"]
    ELSE IF req[r].of \notin Abilities THEN [at |-> "idle"]
    ELSE [at |-> IF InProgress(r) THEN "open" ELSE "over",
          who |-> req[r].who, of |-> req[r].of, mode |-> req[r].mode, ans |-> req[r].ans]
AskedAbilities == [r \in Requests |-> AbilityRequest(r)]
Promise == INSTANCE Ownership WITH
    Askers <- Occupiers, Things <- Abilities, Ids <- Requests,
    held <- HeldAbilities, asked <- AskedAbilities

\* The three statements of occupy_ability and the one of unoccupy are as good as one
\* each: every request for an ability is decided in one moment, is granted or refused
\* by what is held then, and writes what its answer says, whatever is lost or dies
DecidedAtOnce == Promise!OwnSpec
=============================================================================
