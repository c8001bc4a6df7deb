---------------------------- MODULE BullyElection ----------------------------
(***************************************************************************)
(* The election of a team leader among frameworks: struct Bully, of which    *)
(* every framework runs one. Its working thread wakes up at random           *)
(* intervals, and holds the mutex m for a whole round: a leader sends a      *)
(* victory to each known peer, a follower pings its leader, and both wait    *)
(* for the answers. Messages are HTTP requests; their handler takes the same *)
(* mutex, so two frameworks in a round may wait for each other until their   *)
(* requests time out. A request may be lost or refused, its answer may come  *)
(* too late, and a request that timed out is handled when the mutex of its   *)
(* receiver is free. Nothing here counts on a broadcast: no code starts the  *)
(* thread that would send it.                                                *)
(***************************************************************************)
EXTENDS Integers, FiniteSets

CONSTANTS
    Nodes,        \* framework ids, in their order
    Weight,       \* params.weight of each
    MaxWaiting,   \* bound: requests that wait for a mutex at a time
    MaxStops      \* bound: frameworks that stop

ASSUME BullyAssumption ==
    /\ Nodes \subseteq Nat
    /\ Weight \in [Nodes -> Int]
    /\ MaxWaiting \in Nat /\ MaxStops \in Nat

\* So it is in every finite set of ids
ASSUME LargestIdAssumption ==
    \A S \in SUBSET Nodes : S # {} => \E p \in S : \A o \in S : o <= p

NoOne == -1

\* Key::operator<
Less(a, b) == Weight[a] < Weight[b] \/ (Weight[a] = Weight[b] /\ a < b)

VARIABLES
    alive,     \* running frameworks
    leader,    \* current_leader
    peers,     \* peers: by id
    work,      \* the round of the working thread: [at, todo, failed, to]
    inbox,     \* requests whose handlers wait for m: [from, type], one for all alike
    stops

bullyVars == <<alive, leader, peers, work, inbox, stops>>

MsgTypes == {"victory", "ping"}
Messages == [from : Nodes, type : MsgTypes]
Works == [at : {"sleep", "victory", "ping"}, todo : SUBSET Nodes, failed : SUBSET Nodes,
          to : Nodes \cup {NoOne}]
Sleep == [at |-> "sleep", todo |-> {}, failed |-> {}, to |-> NoOne]

BullyTypeOK ==
    /\ alive \subseteq Nodes
    /\ leader \in [Nodes -> Nodes \cup {NoOne}]
    /\ peers \in [Nodes -> SUBSET Nodes]
    /\ work \in [Nodes -> Works]
    /\ inbox \in [Nodes -> SUBSET Messages]
    /\ stops \in 0 .. MaxStops
    /\ \A n \in Nodes : work[n].to # NoOne => work[n].at # "sleep"

BullyInit ==
    /\ alive = Nodes
    /\ leader = [n \in Nodes |-> NoOne]
    /\ peers = [n \in Nodes |-> {}]
    /\ work = [n \in Nodes |-> Sleep]
    /\ inbox = [n \in Nodes |-> {}]
    /\ stops = 0

Holds(n) == work[n].at # "sleep"   \* its working thread holds m

-----------------------------------------------------------------------------
(* The handlers: on_election_message, under m *)

\* on_msg_victory
AfterVictory(n, o) == IF Less(o, n) THEN leader[n] ELSE o

\* on_msg_ping. Fault: a smaller peer is followed
AfterPing_Any(n, o) == IF leader[n] # NoOne /\ ~Less(leader[n], o) THEN leader[n] ELSE o
AfterPing(n, o) ==
    IF Less(o, n) \/ (leader[n] # NoOne /\ ~Less(leader[n], o)) THEN leader[n] ELSE o

\* The answer reaches the sender, if that still waits for it
Handle(n, q) ==
    /\ n \in alive /\ ~Holds(n)
    /\ q \in inbox[n]
    /\ inbox' = [inbox EXCEPT ![n] = @ \ {q}]
    /\ peers' = [peers EXCEPT ![n] = @ \cup {q.from}]
    /\ leader' = [leader EXCEPT ![n] = IF q.type = "victory" THEN AfterVictory(n, q.from)
                                       ELSE AfterPing(n, q.from)]
    /\ work' = [work EXCEPT ![q.from].to =
                   IF @ = n /\ work[q.from].at = q.type THEN NoOne ELSE @]
    /\ UNCHANGED <<alive, stops>>

-----------------------------------------------------------------------------
(* The rounds: work_working *)

\* The sleep of random length is over, and nobody has m
Wake(n) == n \in alive /\ ~Holds(n)

\* out->send: the request reaches p, or does not: nobody is there, or the request is
\* answered by status 500, as the array is that `json payload{msg}` makes of it
Reach(n, p, t) ==
    /\ p \in alive
    /\ Cardinality({x \in Nodes \X Messages : x[2] \in inbox[x[1]]}) < MaxWaiting
    /\ inbox' = [inbox EXCEPT ![p] = @ \cup {[from |-> n, type |-> t]}]
Send(n, p, t) == Reach(n, p, t) \/ UNCHANGED inbox

\* A round ends; its broadcast goes to msg_buf, which nobody reads. Fault: the request
\* is not forgotten
RoundOver_KeepsTo(n) == work' = [work EXCEPT ![n].at = "sleep"]
RoundOver(n) == work' = [work EXCEPT ![n] = Sleep]

\* Neither leader nor follower: it leads
LeadRound(n) ==
    /\ Wake(n) /\ leader[n] = NoOne
    /\ leader' = [leader EXCEPT ![n] = n]
    /\ UNCHANGED <<alive, peers, work, inbox, stops>>

VictoryRound(n) ==
    /\ Wake(n) /\ leader[n] = n
    /\ work' = [work EXCEPT ![n] = [Sleep EXCEPT !.at = "victory", !.todo = peers[n]]]
    /\ UNCHANGED <<alive, leader, peers, inbox, stops>>

SendVictory(n) ==
    /\ work[n].at = "victory" /\ work[n].to = NoOne
    /\ \E p \in work[n].todo :
          /\ work' = [work EXCEPT ![n].to = p, ![n].todo = @ \ {p}]
          /\ Send(n, p, "victory")
    /\ UNCHANGED <<alive, leader, peers, stops>>

\* The round ends with the erasure of the peers that failed
PeersAfterVictories(n) == peers[n] \ work[n].failed
VictoriesSent(n) ==
    /\ work[n].at = "victory" /\ work[n].to = NoOne /\ work[n].todo = {}
    /\ peers' = [peers EXCEPT ![n] = PeersAfterVictories(n)]
    /\ RoundOver(n)
    /\ UNCHANGED <<alive, leader, inbox, stops>>

PingRound(n) ==
    /\ Wake(n) /\ leader[n] \notin {NoOne, n}
    /\ work' = [work EXCEPT ![n] = [Sleep EXCEPT !.at = "ping", !.to = leader[n]]]
    /\ Send(n, leader[n], "ping")
    /\ UNCHANGED <<alive, leader, peers, stops>>

PingAnswered(n) ==
    /\ work[n].at = "ping" /\ work[n].to = NoOne
    /\ RoundOver(n)
    /\ UNCHANGED <<alive, leader, peers, inbox, stops>>

\* An answer that is not there in time, and every answer but 200, is a timeout
VictoryFails(n) ==
    /\ work[n].at = "victory" /\ work[n].to # NoOne
    /\ work' = [work EXCEPT ![n].failed = @ \cup {work[n].to}, ![n].to = NoOne]
    /\ UNCHANGED <<alive, leader, peers, inbox, stops>>

is_biggest_in_peers(n, S) == \A p \in S : Less(p, n)
\* The largest id, whatever its weight
max_id_in_peers(S) == CHOOSE p \in S : \A o \in S : o <= p

\* The next leader when the old one is down, S the other peers. Fault: the old one
NextLeader_Keeps(n, S) == leader[n]
NextLeader(n, S) == IF is_biggest_in_peers(n, S) THEN n ELSE max_id_in_peers(S)

PingFails(n) ==
    LET rest == peers[n] \ {leader[n]}
    IN  /\ work[n].at = "ping" /\ work[n].to # NoOne
        /\ peers' = [peers EXCEPT ![n] = rest]
        /\ leader' = [leader EXCEPT ![n] = NextLeader(n, rest)]
        /\ RoundOver(n)
        /\ UNCHANGED <<alive, inbox, stops>>

\* A ping of n reaches p though no round of n has sent it. Frameworks know of each other
\* by nothing else; work_broadcast would send it, and nothing here has to
Announce(n, p) ==
    /\ n \in alive /\ p # n
    /\ Reach(n, p, "ping")
    /\ UNCHANGED <<alive, leader, peers, work, stops>>

\* finish(), or the end of the process
Stop(n) ==
    /\ n \in alive /\ stops < MaxStops
    /\ stops' = stops + 1
    /\ alive' = alive \ {n}
    /\ leader' = [leader EXCEPT ![n] = NoOne]
    /\ peers' = [peers EXCEPT ![n] = {}]
    /\ work' = [work EXCEPT ![n] = Sleep]
    /\ inbox' = [inbox EXCEPT ![n] = {}]

Start(n) ==
    /\ n \in Nodes \ alive
    /\ alive' = alive \cup {n}
    /\ UNCHANGED <<leader, peers, work, inbox, stops>>

Begins(n) == LeadRound(n) \/ VictoryRound(n) \/ PingRound(n)
GoesOn(n) == \/ SendVictory(n) \/ VictoriesSent(n) \/ PingAnswered(n)
             \/ VictoryFails(n) \/ PingFails(n)
Handles(n) == \E q \in inbox[n] : Handle(n, q)

BullyNext == \E n \in Nodes : \/ Handles(n) \/ Begins(n) \/ GoesOn(n) \/ Stop(n) \/ Start(n)
                              \/ \E p \in Nodes : Announce(n, p)

BullySpec == BullyInit /\ [][BullyNext]_bullyVars

\* The working thread runs: every sleep ends, a round goes on, and a request ends by an
\* answer or by its timeout. No request has to arrive or to be handled
FairBullySpec ==
    BullySpec /\ \A n \in Nodes : WF_bullyVars(GoesOn(n)) /\ WF_bullyVars(Begins(n))

-----------------------------------------------------------------------------
(* Properties *)

\* "recv false victory", "recv false challange": a framework never follows one
\* whose key is smaller than its own, whatever stops and whichever requests cross
FollowsBigger ==
    \A n \in Nodes : leader[n] # NoOne => ~Less(leader[n], n)

\* Again and again a framework that runs sleeps with its mutex free and with a leader
\* that runs: dead leaders are given up, though the next one may be dead as well and
\* late requests bring them back, and no rounds wait for each other for ever
LeadersLive == \A n \in Nodes : []<>(n \in alive => leader[n] \in alive /\ ~Holds(n))
=============================================================================
