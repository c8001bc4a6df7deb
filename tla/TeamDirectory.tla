---------------------------- MODULE TeamDirectory ----------------------------
(***************************************************************************)
(* Teams of frameworks (DiscoveryManager). A master broadcasts its address   *)
(* over UDP every ten seconds; whoever hears it keeps it in TeamMaster and   *)
(* in the tokens of that team; a framework with a token sends HTTP heartbeats *)
(* to the token's address, and the master keeps TeamMember with an expiry.   *)
(* Timers and packets of a framework run on its loop thread, so a heartbeat  *)
(* to an address that does not answer holds up everything else; /api/team/*  *)
(* and /api/team-heartbeat run on HTTP threads beside it, without a lock.    *)
(***************************************************************************)
EXTENDS Naturals, FiniteSets

CONSTANTS
    Members, Masters,   \* frameworks
    Threads,            \* HTTP threads of a member
    Teams, IPs, Ports,
    Hosts,              \* what each master may be configured as when it starts
    Configured,         \* pairs of a member and a team in its config.yaml
    Expiry,             \* discovery_mgr.expiry in ticks
    MaxEvents           \* bound: stops, joins and leaves in all

\* What a broadcast says of a master, and TeamMaster keeps of it
Announcements == [team : Teams, ip : IPs, port : Ports]
Addrs == [ip : IPs, port : Ports]
Address(e) == [ip |-> e.ip, port |-> e.port]

Nothing == [team |-> "nothing", ip |-> "nothing", port |-> 0]
Unknown == [ip |-> "unknown", port |-> 0]   \* masterIP of a token is empty
Never == Expiry + 2     \* no row in TeamMember
Enough == 3             \* since counts up to this

ASSUME TeamAssumption ==
    /\ Hosts \in [Masters -> SUBSET Announcements]
    /\ \A m, n \in Masters : \A h \in Hosts[m], k \in Hosts[n] : h.ip = k.ip => m = n
    /\ Configured \subseteq Members \X Teams
    /\ Members \cap Masters = {}
    /\ Expiry \in Nat \ {0} /\ MaxEvents \in Nat
    /\ {Nothing.ip, Unknown.ip} \cap IPs = {}

VARIABLES
    up,            \* frameworks that run
    host,          \* master_token and address of each master, read when it starts
    net,           \* broadcasts on their way, in no order
    TeamMaster,    \* [Members -> [Masters -> announcement]]
    team_tokens,   \* [Members -> set of tokens]
    hearing,       \* a packet whose handler has begun to change an entry
    joining,       \* joins between their look at TeamMaster and their push_back
    round,         \* the sending timer of a member: tokens left, or waiting for an address
    TeamMember,    \* [Masters -> [Members -> ticks since last_updated]]
    expired,       \* what the cleanup timer of a master is about to erase
    due,           \* timers that have not run in this tick
    events,
    spoilt,        \* history: teams whose tokens something has kept from following
    since          \* history: ticks for which a member's way to a master has been good

vars == <<up, host, net, TeamMaster, team_tokens, hearing, joining, round, TeamMember,
          expired, due, events, spoilt, since>>
member == <<TeamMaster, team_tokens, hearing, joining, round, spoilt>>
master == <<host, TeamMember, expired>>

Frameworks == Members \cup Masters
Tokens == [team : Teams, at : Addrs \cup {Unknown}]
NoPacket == [from |-> "no one", says |-> Nothing, raced |-> FALSE]
Packets == [from : Masters, says : Announcements, raced : BOOLEAN]
NoJoin == [team |-> "none", at |-> Unknown]
NoRound == [at |-> "idle", todo |-> {}, lost |-> {}]
\* lost: teams whose heartbeat of this round has been refused or skipped
Rounds == [at : {"idle", "sending", "waiting"}, todo : SUBSET Tokens, lost : SUBSET Teams]

TypeOK ==
    /\ up \subseteq Frameworks
    /\ host \in [Masters -> Announcements] /\ \A m \in Masters : host[m] \in Hosts[m]
    /\ net \subseteq Members \X Masters \X Announcements
    /\ TeamMaster \in [Members -> [Masters -> Announcements \cup {Nothing}]]
    /\ team_tokens \in [Members -> SUBSET Tokens]
    /\ hearing \in [Members -> Packets \cup {NoPacket}]
    /\ joining \in [Members -> [Threads -> Tokens \cup {NoJoin}]]
    /\ round \in [Members -> Rounds]
    /\ TeamMember \in [Masters -> [Members -> 0..Never]]
    /\ expired \in [Masters -> SUBSET Members]
    /\ due \subseteq up
    /\ events \in 0..MaxEvents
    /\ spoilt \in [Members -> SUBSET Teams]
    /\ since \in [Members -> [Masters -> 0..Enough]]
    /\ \A f \in Members \ up : /\ hearing[f] = NoPacket /\ round[f] = NoRound
                               /\ \A p \in Threads : joining[f][p] = NoJoin
                               /\ \A x \in net : x[1] # f
    /\ \A m \in Masters \ up : \A f \in Members : TeamMember[m][f] = Never

\* load_team_config_from_file
LoadTokens(f) == {[team |-> t, at |-> Unknown] : t \in {u \in Teams : <<f, u>> \in Configured}}

Init ==
    /\ up = Frameworks
    /\ host \in [Masters -> Announcements] /\ \A m \in Masters : host[m] \in Hosts[m]
    /\ net = {}
    /\ TeamMaster = [f \in Members |-> [m \in Masters |-> Nothing]]
    /\ team_tokens = [f \in Members |-> LoadTokens(f)]
    /\ hearing = [f \in Members |-> NoPacket]
    /\ joining = [f \in Members |-> [p \in Threads |-> NoJoin]]
    /\ round = [f \in Members |-> NoRound]
    /\ TeamMember = [m \in Masters |-> [f \in Members |-> Never]]
    /\ expired = [m \in Masters |-> {}]
    /\ due = up
    /\ events = 0
    /\ spoilt = [f \in Members |-> {}]
    /\ since = [f \in Members |-> [m \in Masters |-> 0]]

Event == events < MaxEvents /\ events' = events + 1

\* The master that answers at an address, if any
At(a) == {m \in Masters \cap up : Address(host[m]) = a}
Joined(f, t) == \E x \in team_tokens[f] : x.team = t
Addressed(f) == {x \in team_tokens[f] : x.at # Unknown}
\* A join of the team has looked, and will push what it saw
Pending(f, t) == \E p \in Threads : joining[f][p] # NoJoin /\ joining[f][p].team = t

\* The loop thread of f is free
LoopFree(f) == f \in up /\ round[f].at = "idle" /\ hearing[f] = NoPacket

-----------------------------------------------------------------------------
(* The master's broadcast; UDP loses it, delays it and brings it out of order *)

\* start_sending of a master: hearers are the members it will arrive at
Broadcast(m, hearers) ==
    /\ m \in due
    /\ due' = due \ {m}
    /\ net' = net \cup (hearers \cap up) \X {m} \X {host[m]}
    /\ UNCHANGED <<up, member, master, events>>

\* Teams that the handling of a packet leaves behind: an entry has changed, and the
\* tokens of its team have not. update_master_info touches them only for a new list of
\* IPs, whatever the port and the team
LeftBehind(f, e, a) ==
    LET moved == IF e.ip = a.ip THEN {e.team, a.team} ELSE {e.team} \ {a.team}
    IN  {t \in moved : e \notin {Nothing, a} /\ (Joined(f, t) \/ Pending(f, t))}

\* parse_ipv4_broadcast: the port and the team of a known entry are written first, and
\* with the IPs as they were that is all
Hear(f, m, a) ==
    LET e == TeamMaster[f][m] IN
    /\ <<f, m, a>> \in net /\ LoopFree(f)
    /\ net' = net \ {<<f, m, a>>}
    /\ TeamMaster' = [TeamMaster EXCEPT ![f][m] =
                         IF e = Nothing THEN e ELSE [a EXCEPT !.ip = e.ip]]
    /\ hearing' = [hearing EXCEPT ![f] =
                      IF e.ip # a.ip THEN [from |-> m, says |-> a, raced |-> FALSE] ELSE @]
    /\ spoilt' = [spoilt EXCEPT ![f] = @ \cup LeftBehind(f, e, a)]
    /\ UNCHANGED <<up, master, team_tokens, joining, round, due, events>>

\* The tokens of the team take the address. Fault: only an entry that is new brings one
TokensAfter_CreateOnly(f, h) ==
    LET own == {x \in team_tokens[f] : x.team = h.says.team /\ TeamMaster[f][h.from] = Nothing}
    IN  {(team_tokens[f] \ own) \cup {[x EXCEPT !.at = Address(h.says)] : x \in own}}
\* A thread that changes the vector meanwhile makes the walk over it touch any of them
TokensAfter(f, h) ==
    LET own == {x \in team_tokens[f] : x.team = h.says.team}
    IN  {(team_tokens[f] \ W) \cup {[x EXCEPT !.at = Address(h.says)] : x \in W} :
            W \in IF h.raced THEN SUBSET team_tokens[f] ELSE {own}}

\* create_master_info and the end of update_master_info. Fault: an entry is kept as it
\* came first
HearEnds_KeepsEntry(f) ==
    LET h == hearing[f]
        late == {t \in {h.says.team} : Pending(f, t)}
    IN
    /\ h # NoPacket
    /\ \E T \in TokensAfter(f, h) : team_tokens' = [team_tokens EXCEPT ![f] = T]
    /\ TeamMaster' = [TeamMaster EXCEPT ![f][h.from] = IF @ = Nothing THEN h.says ELSE @]
    /\ hearing' = [hearing EXCEPT ![f] = NoPacket]
    /\ spoilt' = [spoilt EXCEPT ![f] = late \cup
                     IF h.raced THEN @ \cup {x.team : x \in team_tokens[f]}
                     ELSE @ \ {h.says.team}]
    /\ UNCHANGED <<up, net, master, joining, round, due, events>>
HearEnds(f) ==
    LET h == hearing[f]
        late == {t \in {h.says.team} : Pending(f, t)}
    IN
    /\ h # NoPacket
    /\ \E T \in TokensAfter(f, h) : team_tokens' = [team_tokens EXCEPT ![f] = T]
    /\ TeamMaster' = [TeamMaster EXCEPT ![f][h.from] = h.says]
    /\ hearing' = [hearing EXCEPT ![f] = NoPacket]
    /\ spoilt' = [spoilt EXCEPT ![f] = late \cup
                     IF h.raced THEN @ \cup {x.team : x \in team_tokens[f]}
                     ELSE @ \ {h.says.team}]
    /\ UNCHANGED <<up, net, master, joining, round, due, events>>

-----------------------------------------------------------------------------
(* The member's heartbeats: send_team_data, token by token *)

BeginRound(f) ==
    /\ f \in due /\ LoopFree(f)
    /\ round' = [round EXCEPT ![f] = [at |-> "sending", todo |-> Addressed(f), lost |-> {}]]
    /\ due' = due \ {f}
    /\ UNCHANGED <<up, net, master, TeamMaster, team_tokens, hearing, joining, events, spoilt>>

\* POST /api/team-heartbeat at m, which takes the members of its own team whose JWT is
\* valid and has not expired; whether this one is, nobody on the way can tell
Heartbeat(f, x) ==
    \E m \in At(x.at) :
        \/ /\ host[m].team = x.team
           /\ TeamMember' = [TeamMember EXCEPT ![m][f] = 0]
           /\ round' = [round EXCEPT ![f].todo = @ \ {x}]
        \/ /\ round' = [round EXCEPT ![f].todo = @ \ {x}, ![f].lost = @ \cup {x.team}]
           /\ UNCHANGED TeamMember

\* An address where nobody answers holds the loop thread
NoAnswer(f, x) ==
    /\ At(x.at) = {}
    /\ round' = [round EXCEPT ![f].todo = @ \ {x}, ![f].at = "waiting"]
    /\ UNCHANGED TeamMember

SendTo(f, x) ==
    /\ round[f].at = "sending" /\ x \in round[f].todo
    /\ Heartbeat(f, x) \/ NoAnswer(f, x)
    /\ UNCHANGED <<up, host, net, TeamMaster, team_tokens, hearing, joining, expired, due,
                   events, spoilt>>

\* The connection attempt ends with an error
GiveUp(f) ==
    /\ round[f].at = "waiting"
    /\ round' = [round EXCEPT ![f].at = "sending"]
    /\ UNCHANGED <<up, net, master, TeamMaster, team_tokens, hearing, joining, due, events,
                   spoilt>>

EndRound(f) ==
    /\ round[f].at = "sending" /\ round[f].todo = {}
    /\ round' = [round EXCEPT ![f] = NoRound]
    /\ UNCHANGED <<up, net, master, TeamMaster, team_tokens, hearing, joining, due, events,
                   spoilt>>

-----------------------------------------------------------------------------
(* The master's cleanup timer. The row is erased after its age has been seen, *)
(* while HTTP threads write TeamMember                                        *)

\* Faults: the comparison is the wrong way round; the timeout is in milliseconds
Old_Young(m) == {f \in Members : TeamMember[m][f] < Expiry}
Old_Millis(m) == {}
Old(m) == {f \in Members : TeamMember[m][f] > Expiry /\ TeamMember[m][f] # Never}
\* Within a tick of the expiry it depends on the phase of the timers
Aging(m) == {f \in Members : TeamMember[m][f] = Expiry}

SeeExpired(m) ==
    /\ m \in up /\ expired[m] = {}
    /\ \E S \in SUBSET Aging(m) : expired' = [expired EXCEPT ![m] = Old(m) \cup S]
    /\ expired[m]' # {}
    /\ UNCHANGED <<up, host, net, member, TeamMember, due, events>>

Erase(m) ==
    /\ expired[m] # {}
    /\ TeamMember' = [TeamMember EXCEPT ![m] =
                         [f \in Members |-> IF f \in expired[m] THEN Never ELSE @[f]]]
    /\ expired' = [expired EXCEPT ![m] = {}]
    /\ UNCHANGED <<up, host, net, member, due, events>>

-----------------------------------------------------------------------------
(* POST /api/team/join and /api/team/leave, on HTTP threads *)

\* A change of the vector under the loop thread, which walks over what was there: a
\* packet's walk may touch anything, and a round may miss any token that it had left
Disturbs(f) ==
    /\ hearing' = [hearing EXCEPT ![f] = IF @ = NoPacket THEN @ ELSE [@ EXCEPT !.raced = TRUE]]
    /\ \E T \in SUBSET round[f].todo :
          round' = [round EXCEPT ![f].todo = T,
                                 ![f].lost = @ \cup {x.team : x \in round[f].todo \ T}]

\* Without a token of the team, a master of it is looked for in TeamMaster. Another
\* thread may be between this look and its push_back. Fault: it joins though no master
\* is known
JoinLooks_Any(f, p, m) ==
    LET e == TeamMaster[f][m] IN
    /\ f \in up /\ joining[f][p] = NoJoin
    /\ ~Joined(f, e.team)
    /\ Event
    /\ joining' = [joining EXCEPT ![f][p] = [team |-> e.team, at |-> Address(e)]]
    /\ UNCHANGED <<up, net, master, TeamMaster, team_tokens, hearing, round, due, spoilt>>
JoinLooks(f, p, m) ==
    LET e == TeamMaster[f][m] IN
    /\ f \in up /\ joining[f][p] = NoJoin
    /\ e # Nothing /\ ~Joined(f, e.team)
    /\ Event
    /\ joining' = [joining EXCEPT ![f][p] = [team |-> e.team, at |-> Address(e)]]
    /\ UNCHANGED <<up, net, master, TeamMaster, team_tokens, hearing, round, due, spoilt>>

JoinPushes(f, p) ==
    /\ joining[f][p] # NoJoin
    /\ team_tokens' = [team_tokens EXCEPT ![f] = @ \cup {joining[f][p]}]
    /\ joining' = [joining EXCEPT ![f][p] = NoJoin]
    /\ Disturbs(f)
    /\ UNCHANGED <<up, net, master, TeamMaster, due, events, spoilt>>

Leave(f, t) ==
    /\ f \in up /\ Joined(f, t)
    /\ Event
    /\ team_tokens' = [team_tokens EXCEPT ![f] = {x \in @ : x.team # t}]
    /\ Disturbs(f)
    /\ UNCHANGED <<up, net, master, TeamMaster, joining, due, spoilt>>

-----------------------------------------------------------------------------
(* Stops, starts and time. Nothing of multi_map and of joined teams is stored *)

StopMember(f) ==
    /\ f \in up /\ Event
    /\ up' = up \ {f} /\ due' = due \ {f}
    /\ net' = {x \in net : x[1] # f}
    /\ hearing' = [hearing EXCEPT ![f] = NoPacket]
    /\ joining' = [joining EXCEPT ![f] = [p \in Threads |-> NoJoin]]
    /\ round' = [round EXCEPT ![f] = NoRound]
    /\ UNCHANGED <<master, TeamMaster, team_tokens, spoilt>>

StartMember(f) ==
    /\ f \in Members \ up
    /\ up' = up \cup {f} /\ due' = due \cup {f}
    /\ TeamMaster' = [TeamMaster EXCEPT ![f] = [m \in Masters |-> Nothing]]
    /\ team_tokens' = [team_tokens EXCEPT ![f] = LoadTokens(f)]
    /\ spoilt' = [spoilt EXCEPT ![f] = {}]
    /\ UNCHANGED <<net, master, hearing, joining, round, events>>

StopMaster(m) ==
    /\ m \in up /\ Event
    /\ up' = up \ {m} /\ due' = due \ {m}
    /\ TeamMember' = [TeamMember EXCEPT ![m] = [f \in Members |-> Never]]
    /\ expired' = [expired EXCEPT ![m] = {}]
    /\ UNCHANGED <<net, host, member>>

\* The addresses of the host and its team are read when it starts, and at no other time
StartMaster(m) ==
    /\ m \in Masters \ up
    /\ up' = up \cup {m} /\ due' = due \cup {m}
    /\ \E h \in Hosts[m] : host' = [host EXCEPT ![m] = h]
    /\ UNCHANGED <<net, member, TeamMember, expired, events>>

\* Ten seconds. Every timer has run that its loop thread could run
AtMost(n, x) == IF x > n THEN n ELSE x
Tick ==
    /\ \A f \in Frameworks : f \in due => f \in Members /\ round[f].at = "waiting"
    /\ \A f \in Members : round[f].at # "sending" /\ hearing[f] = NoPacket
    /\ \A m \in Masters \cap up : Old(m) = {} /\ expired[m] = {}
    /\ due' = up
    /\ TeamMember' = [m \in Masters |-> [f \in Members |->
          IF TeamMember[m][f] = Never THEN Never ELSE AtMost(Expiry + 1, TeamMember[m][f] + 1)]]
    /\ UNCHANGED <<up, host, net, member, expired, events>>

-----------------------------------------------------------------------------

\* The token that a member of m should have
TokenFor(m) == [team |-> host[m].team, at |-> Address(host[m])]
\* f has it, its heartbeats have come through, and none of them has to wait
Good(f, m) ==
    /\ {f, m} \subseteq up /\ TokenFor(m) \in team_tokens[f]
    /\ host[m].team \notin round[f].lost
    /\ round[f].at # "waiting" /\ \A x \in Addressed(f) : At(x.at) # {}
History(ticks) ==
    since' = [f \in Members |-> [m \in Masters |->
                 IF Good(f, m)' THEN AtMost(Enough, since[f][m] + ticks) ELSE 0]]

LoopStep(f) ==
    \/ HearEnds(f) \/ BeginRound(f) \/ GiveUp(f) \/ EndRound(f) \/ StartMember(f)
    \/ \E x \in round[f].todo : SendTo(f, x)
HttpStep(f) ==
    \/ \E p \in Threads : JoinPushes(f, p) \/ \E m \in Masters : JoinLooks(f, p, m)
    \/ \E t \in Teams : Leave(f, t)
Listens(f, m) == \E a \in Announcements : Hear(f, m, a)
Reaches(m, f) == \E hearers \in SUBSET Members : f \in hearers /\ Broadcast(m, hearers)
MasterStep(m) ==
    \/ SeeExpired(m) \/ Erase(m) \/ StartMaster(m)
    \/ \E hearers \in SUBSET Members : Broadcast(m, hearers)

Next ==
    \/ /\ \/ \E f \in Members : \/ LoopStep(f) \/ HttpStep(f) \/ StopMember(f)
                                \/ \E m \in Masters : Listens(f, m)
          \/ \E m \in Masters : MasterStep(m) \/ StopMaster(m)
       /\ History(0)
    \/ Tick /\ History(1)

Spec == Init /\ [][Next]_vars

\* The loops run, frameworks that stop are started again, and a broadcast that is
\* sent for ever arrives some time. Nobody has to call the HTTP interface
Fairness ==
    /\ WF_vars(Tick /\ History(1))
    /\ \A f \in Members : WF_vars(LoopStep(f) /\ History(0))
    /\ \A m \in Masters : WF_vars(MasterStep(m) /\ History(0))
    /\ \A f \in Members, m \in Masters :
          SF_vars(Listens(f, m) /\ History(0)) /\ SF_vars(Reaches(m, f) /\ History(0))
FairSpec == Spec /\ Fairness

-----------------------------------------------------------------------------
(* Properties *)

\* The address in a token is that of a master of its team as this framework knows it,
\* though it is copied at three places and packets come late and out of order. What
\* can spoil that: a master that keeps its IPs and takes another port or team, an entry
\* that changes while a join of its team is under way, and a join or leave in the
\* middle of the walk over the tokens
Known(f, t, a) ==
    \E m \in Masters : LET e == TeamMaster[f][m]
                       IN  e # Nothing /\ e.team = t /\ Address(e) = a
TokenIsEntry ==
    \A f \in Members \cap up : hearing[f] = NoPacket =>
        \A x \in Addressed(f) : Known(f, x.team, x.at) \/ x.team \in spoilt[f]

\* A member whose way to its master has been good for three periods is listed, with
\* the races of its heartbeats with the cleanup timer
LiveMemberListed ==
    \A f \in Members, m \in Masters : since[f][m] = Enough => TeamMember[m][f] # Never

\* A member that has stopped or left disappears from the list, though nobody says so
LostMemberGoes ==
    \A f \in Members, m \in Masters :
        TeamMember[m][f] # Never ~>
            TeamMember[m][f] = Never \/ (f \in up /\ Joined(f, host[m].team))

\* Tokens that nothing has spoilt learn the address that their master has now, after
\* restarts of both
TokenFollows ==
    \A f \in Members, m \in Masters :
        {f, m} \subseteq up /\ Joined(f, host[m].team) ~>
            \/ ~({f, m} \subseteq up)
            \/ \A x \in team_tokens[f] : x.team = host[m].team => x = TokenFor(m)
            \/ host[m].team \in spoilt[f]
=============================================================================
