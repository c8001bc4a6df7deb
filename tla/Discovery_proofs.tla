-------------------------- MODULE Discovery_proofs --------------------------
(***************************************************************************)
(* Proofs about the two parts of DiscoveryManager, for any frameworks.        *)
(* TeamDirectory, any members, masters, HTTP threads, teams and addresses:    *)
(* types; that a token has the address of TeamMaster, or something has kept   *)
(* its team from following; and that a member whose way has been good for     *)
(* three periods is listed, with heartbeats, joins and the cleanup timer in   *)
(* any order (the expiry has to be two periods or more). BullyElection, any   *)
(* weights, stops, lost requests and overlapping rounds: types; and that no   *)
(* framework follows a smaller one when the weights are in the order of the   *)
(* ids.                                                                      *)
(***************************************************************************)
EXTENDS TeamDirectory, BullyElection, TLAPS

-----------------------------------------------------------------------------
(* TeamDirectory: types *)

LEMMA SinceType == TypeOK /\ History(0) => since' \in [Members -> [Masters -> 0..Enough]]
<1> SUFFICES ASSUME TypeOK, History(0)
             PROVE  since' \in [Members -> [Masters -> 0..Enough]]
  OBVIOUS
<1>1. ASSUME NEW f \in Members, NEW m \in Masters
      PROVE  IF Good(f, m)' THEN AtMost(Enough, since[f][m] + 0) \in 0..Enough ELSE 0 \in 0..Enough
  <2>1. since[f][m] \in 0..Enough  BY DEF TypeOK
  <2> QED  BY <2>1 DEF AtMost, Enough
<1> HIDE DEF AtMost, Good
<1> QED  BY <1>1 DEF History, Enough

LEMMA BroadcastType ==
    ASSUME TypeOK, NEW m \in Masters, NEW hearers \in SUBSET Members,
           Broadcast(m, hearers), History(0)
    PROVE  TypeOK'
<1>1. /\ net' \subseteq Members \X Masters \X Announcements
      /\ \A f \in Members \ up : \A x \in net' : x[1] # f
  BY DEF Broadcast, TypeOK
<1>2. since' \in [Members -> [Masters -> 0..Enough]]  BY SinceType
<1> QED  BY <1>1, <1>2 DEF Broadcast, member, master, TypeOK

LEMMA HearType ==
    ASSUME TypeOK, NEW f \in Members, NEW m \in Masters, NEW a \in Announcements,
           Hear(f, m, a), History(0)
    PROVE  TypeOK'
<1>1. f \in up  BY DEF Hear, LoopFree
<1>2. TeamMaster' \in [Members -> [Masters -> Announcements \cup {Nothing}]]
  <2> DEFINE e == TeamMaster[f][m]
  <2>1. e \in Announcements \cup {Nothing}  BY DEF TypeOK
  <2>2. ASSUME e # Nothing  PROVE [a EXCEPT !.ip = e.ip] \in Announcements
    BY <2>1, <2>2 DEF Announcements
  <2>3. (IF e = Nothing THEN e ELSE [a EXCEPT !.ip = e.ip]) \in Announcements \cup {Nothing}
    BY <2>1, <2>2
  <2>4. TeamMaster' = [TeamMaster EXCEPT ![f][m] =
                          IF e = Nothing THEN e ELSE [a EXCEPT !.ip = e.ip]]
    BY DEF Hear
  <2> HIDE DEF e
  <2> QED  BY <2>3, <2>4 DEF TypeOK
<1>3. /\ hearing' \in [Members -> Packets \cup {NoPacket}]
      /\ \A g \in Members \ up : hearing'[g] = NoPacket
  <2>1. [from |-> m, says |-> a, raced |-> FALSE] \in Packets  BY DEF Packets
  <2> QED  BY <1>1, <2>1 DEF Hear, TypeOK
<1>4. spoilt' \in [Members -> SUBSET Teams]
  <2>1. LeftBehind(f, TeamMaster[f][m], a) \subseteq Teams
    BY DEF LeftBehind, TypeOK, Announcements
  <2> QED  BY <2>1 DEF Hear, TypeOK
<1>5. since' \in [Members -> [Masters -> 0..Enough]]  BY SinceType
<1>6. UNCHANGED <<up, host, TeamMember, expired, team_tokens, joining, round, due, events>>
      /\ net' \subseteq net
  BY DEF Hear, master
<1> QED  BY <1>2, <1>3, <1>4, <1>5, <1>6 DEF TypeOK

LEMMA TokensAfterType ==
    ASSUME TypeOK, NEW f \in Members, hearing[f] # NoPacket, NEW T \in TokensAfter(f, hearing[f])
    PROVE  T \in SUBSET Tokens
<1>1. hearing[f] \in Packets /\ team_tokens[f] \in SUBSET Tokens  BY DEF TypeOK
<1>2. Address(hearing[f].says) \in Addrs  BY <1>1 DEF Packets, Announcements, Address, Addrs
<1>3. \A x \in team_tokens[f] : [x EXCEPT !.at = Address(hearing[f].says)] \in Tokens
  BY <1>1, <1>2 DEF Tokens
<1> HIDE DEF Address
<1> QED  BY <1>1, <1>3 DEF TokensAfter

LEMMA HearEndsType ==
    ASSUME TypeOK, NEW f \in Members, HearEnds(f), History(0)
    PROVE  TypeOK'
<1>1. hearing[f] # NoPacket /\ hearing[f] \in Packets  BY DEF HearEnds, TypeOK
<1>2. hearing[f].from \in Masters /\ hearing[f].says \in Announcements
  BY <1>1 DEF Packets
<1>3. team_tokens' \in [Members -> SUBSET Tokens]
  <2>1. PICK T \in TokensAfter(f, hearing[f]) : team_tokens' = [team_tokens EXCEPT ![f] = T]
    BY DEF HearEnds
  <2>2. T \in SUBSET Tokens  BY <1>1, TokensAfterType
  <2> QED  BY <2>1, <2>2 DEF TypeOK
<1>4. TeamMaster' \in [Members -> [Masters -> Announcements \cup {Nothing}]]
  BY <1>2 DEF HearEnds, TypeOK
<1>5. /\ hearing' \in [Members -> Packets \cup {NoPacket}]
      /\ \A g \in Members \ up : hearing'[g] = NoPacket
  BY DEF HearEnds, TypeOK
<1>6. spoilt' \in [Members -> SUBSET Teams]
  <2>1. hearing[f].says.team \in Teams  BY <1>2 DEF Announcements
  <2>2. {x.team : x \in team_tokens[f]} \subseteq Teams  BY DEF TypeOK, Tokens
  <2>3. spoilt[f] \subseteq Teams  BY DEF TypeOK
  <2>4. spoilt'[f] \subseteq Teams /\ spoilt' = [spoilt EXCEPT ![f] = spoilt'[f]]
    BY <2>1, <2>2, <2>3 DEF HearEnds, TypeOK
  <2> QED  BY <2>4 DEF TypeOK
<1>7. since' \in [Members -> [Masters -> 0..Enough]]  BY SinceType
<1>8. UNCHANGED <<up, net, host, TeamMember, expired, joining, round, due, events>>
  BY DEF HearEnds, master
<1> QED  BY <1>3, <1>4, <1>5, <1>6, <1>7, <1>8 DEF TypeOK

\* What a change of one round must keep
LEMMA RoundType ==
    ASSUME TypeOK, NEW f \in Members, f \in up, NEW r \in Rounds,
           round' = [round EXCEPT ![f] = r]
    PROVE  round' \in [Members -> Rounds] /\ \A g \in Members \ up : round'[g] = NoRound
BY DEF TypeOK

LEMMA BeginRoundType ==
    ASSUME TypeOK, NEW f \in Members, BeginRound(f), History(0)
    PROVE  TypeOK'
<1>1. [at |-> "sending", todo |-> Addressed(f), lost |-> {}] \in Rounds
  BY DEF Rounds, Addressed, TypeOK
<1>2. round' \in [Members -> Rounds] /\ \A g \in Members \ up : round'[g] = NoRound
  BY <1>1, RoundType DEF BeginRound, LoopFree
<1>3. since' \in [Members -> [Masters -> 0..Enough]]  BY SinceType
<1> QED  BY <1>2, <1>3 DEF BeginRound, master, TypeOK

LEMMA GiveUpType ==
    ASSUME TypeOK, NEW f \in Members, GiveUp(f), History(0)
    PROVE  TypeOK'
<1>1. f \in up  BY DEF GiveUp, TypeOK, NoRound
<1>2. round' = [round EXCEPT ![f] = [round[f] EXCEPT !.at = "sending"]]  BY DEF GiveUp
<1>3. [round[f] EXCEPT !.at = "sending"] \in Rounds
  <2>1. round[f] \in Rounds  BY DEF TypeOK
  <2> QED  BY <2>1 DEF Rounds
<1>4. round' \in [Members -> Rounds] /\ \A g \in Members \ up : round'[g] = NoRound
  BY <1>1, <1>2, <1>3, RoundType
<1>5. since' \in [Members -> [Masters -> 0..Enough]]  BY SinceType
<1> QED  BY <1>4, <1>5 DEF GiveUp, master, TypeOK

LEMMA EndRoundType ==
    ASSUME TypeOK, NEW f \in Members, EndRound(f), History(0)
    PROVE  TypeOK'
<1>1. f \in up  BY DEF EndRound, TypeOK, NoRound
<1>2. NoRound \in Rounds  BY DEF NoRound, Rounds
<1>3. round' \in [Members -> Rounds] /\ \A g \in Members \ up : round'[g] = NoRound
  BY <1>1, <1>2, RoundType DEF EndRound
<1>4. since' \in [Members -> [Masters -> 0..Enough]]  BY SinceType
<1> QED  BY <1>3, <1>4 DEF EndRound, master, TypeOK

\* What a sent heartbeat does to the round and to the row
LEMMA SendToIs ==
    ASSUME TypeOK, NEW f \in Members, NEW x \in round[f].todo, SendTo(f, x)
    PROVE  /\ f \in up /\ x \in Tokens
           /\ round' \in [Members -> Rounds]
           /\ \A g \in Members \ {f} : round'[g] = round[g]
           /\ round'[f].todo = round[f].todo \ {x}
           /\ TeamMember' \in [Masters -> [Members -> 0..Never]]
           /\ \/ /\ At(x.at) = {} /\ round'[f].at = "waiting"
                 /\ TeamMember' = TeamMember
              \/ \E n \in At(x.at) :
                    /\ host[n].team = x.team /\ round'[f].at = "sending"
                    /\ round'[f].lost = round[f].lost
                    /\ \A m \in Masters, g \in Members : TeamMember'[m][g] =
                          IF m = n /\ g = f THEN 0 ELSE TeamMember[m][g]
              \/ /\ round'[f].at = "sending" /\ round'[f].lost = round[f].lost \cup {x.team}
                 /\ TeamMember' = TeamMember
<1> DEFINE Done ==
        /\ f \in up /\ x \in Tokens
        /\ round' \in [Members -> Rounds]
        /\ \A g \in Members \ {f} : round'[g] = round[g]
        /\ round'[f].todo = round[f].todo \ {x}
        /\ TeamMember' \in [Masters -> [Members -> 0..Never]]
        /\ \/ /\ At(x.at) = {} /\ round'[f].at = "waiting"
              /\ TeamMember' = TeamMember
           \/ \E n \in At(x.at) :
                 /\ host[n].team = x.team /\ round'[f].at = "sending"
                 /\ round'[f].lost = round[f].lost
                 /\ \A m \in Masters, g \in Members : TeamMember'[m][g] =
                       IF m = n /\ g = f THEN 0 ELSE TeamMember[m][g]
           \/ /\ round'[f].at = "sending" /\ round'[f].lost = round[f].lost \cup {x.team}
              /\ TeamMember' = TeamMember
<1>1. f \in up /\ x \in Tokens  BY DEF SendTo, TypeOK, NoRound, Rounds
<1>2. /\ round[f] \in Rounds /\ round[f].at = "sending"
      /\ TeamMember \in [Masters -> [Members -> 0..Never]]
  BY DEF SendTo, TypeOK
<1>3. Never \in Nat  BY TeamAssumption DEF Never
<1>4. ASSUME NoAnswer(f, x)  PROVE Done
  <2>1. round' = [round EXCEPT ![f] =
                     [round[f] EXCEPT !.todo = @ \ {x}, !.at = "waiting"]]
    BY <1>4, <1>2 DEF NoAnswer, TypeOK, Rounds
  <2>2. [round[f] EXCEPT !.todo = @ \ {x}, !.at = "waiting"] \in Rounds
    BY <1>2 DEF Rounds
  <2> QED  BY <1>1, <1>2, <1>4, <2>1, <2>2, RoundType DEF NoAnswer, TypeOK, Rounds
<1>5. ASSUME Heartbeat(f, x)  PROVE Done
  <2>1. PICK n \in At(x.at) :
           \/ /\ host[n].team = x.team
              /\ TeamMember' = [TeamMember EXCEPT ![n][f] = 0]
              /\ round' = [round EXCEPT ![f].todo = @ \ {x}]
           \/ /\ round' = [round EXCEPT ![f].todo = @ \ {x}, ![f].lost = @ \cup {x.team}]
              /\ UNCHANGED TeamMember
    BY <1>5 DEF Heartbeat
  <2>2. CASE /\ host[n].team = x.team
             /\ TeamMember' = [TeamMember EXCEPT ![n][f] = 0]
             /\ round' = [round EXCEPT ![f].todo = @ \ {x}]
    <3>1. [round[f] EXCEPT !.todo = @ \ {x}] \in Rounds  BY <1>2 DEF Rounds
    <3>2. round' = [round EXCEPT ![f] = [round[f] EXCEPT !.todo = @ \ {x}]]
      BY <2>2
    <3>3. n \in Masters  BY DEF At
    <3>4. /\ TeamMember' \in [Masters -> [Members -> 0..Never]]
          /\ \A m \in Masters, g \in Members : TeamMember'[m][g] =
                IF m = n /\ g = f THEN 0 ELSE TeamMember[m][g]
      BY <1>2, <1>3, <2>2, <3>3
    <3>5. /\ round' \in [Members -> Rounds]
          /\ \A g \in Members \ {f} : round'[g] = round[g]
          /\ round'[f] = [round[f] EXCEPT !.todo = @ \ {x}]
      BY <1>1, <3>1, <3>2, RoundType DEF TypeOK
    <3>6. /\ round'[f].todo = round[f].todo \ {x} /\ round'[f].at = "sending"
          /\ round'[f].lost = round[f].lost
      BY <1>2, <3>5 DEF Rounds
    <3>7. TeamMember' \in [Masters -> [Members -> 0..Never]]  BY <3>4
    <3> QED  BY <1>1, <2>1, <2>2, <3>4, <3>5, <3>6, <3>7
  <2>3. CASE /\ round' = [round EXCEPT ![f].todo = @ \ {x}, ![f].lost = @ \cup {x.team}]
             /\ UNCHANGED TeamMember
    <3>1. [round[f] EXCEPT !.todo = @ \ {x}, !.lost = @ \cup {x.team}] \in Rounds
      BY <1>1, <1>2 DEF Rounds, Tokens
    <3>2. round' = [round EXCEPT ![f] =
                       [round[f] EXCEPT !.todo = @ \ {x}, !.lost = @ \cup {x.team}]]
      BY <2>3, <1>2 DEF TypeOK, Rounds
    <3> QED  BY <1>1, <1>2, <2>3, <3>1, <3>2, RoundType DEF TypeOK, Rounds
  <2> QED  BY <2>1, <2>2, <2>3
<1>6. Heartbeat(f, x) \/ NoAnswer(f, x)  BY DEF SendTo
<1>7. Done
  <2> HIDE DEF Done
  <2> QED  BY <1>4, <1>5, <1>6
<1> QED  BY <1>7

LEMMA SendToType ==
    ASSUME TypeOK, NEW f \in Members, NEW x \in round[f].todo, SendTo(f, x), History(0)
    PROVE  TypeOK'
<1>1. /\ f \in up /\ round' \in [Members -> Rounds]
      /\ \A g \in Members \ {f} : round'[g] = round[g]
      /\ TeamMember' \in [Masters -> [Members -> 0..Never]]
  BY SendToIs
<1>2. \A m \in Masters \ up : \A g \in Members : TeamMember'[m][g] = Never
  <2> SUFFICES ASSUME NEW m \in Masters \ up, NEW g \in Members
               PROVE  TeamMember'[m][g] = Never
    OBVIOUS
  <2>1. m \notin At(x.at)  BY DEF At
  <2>2. TeamMember'[m][g] = TeamMember[m][g]  BY <2>1, SendToIs
  <2> QED  BY <2>2 DEF TypeOK
<1>3. \A g \in Members \ up : round'[g] = NoRound  BY <1>1 DEF TypeOK
<1>4. since' \in [Members -> [Masters -> 0..Enough]]  BY SinceType
<1>5. UNCHANGED <<up, host, net, TeamMaster, team_tokens, hearing, joining, expired, due,
                  events, spoilt>>
  BY DEF SendTo
<1>6. Never' = Never  BY DEF Never
<1> QED  BY <1>1, <1>2, <1>3, <1>4, <1>5, <1>6 DEF TypeOK

LEMMA SeeExpiredType ==
    ASSUME TypeOK, NEW m \in Masters, SeeExpired(m), History(0)
    PROVE  TypeOK'
<1>1. \A S \in SUBSET Aging(m) : Old(m) \cup S \subseteq Members  BY DEF Old, Aging
<1>2. expired' \in [Masters -> SUBSET Members]  BY <1>1 DEF SeeExpired, TypeOK
<1>3. since' \in [Members -> [Masters -> 0..Enough]]  BY SinceType
<1> QED  BY <1>2, <1>3 DEF SeeExpired, member, TypeOK

LEMMA EraseIs ==
    ASSUME TypeOK, NEW m \in Masters, Erase(m)
    PROVE  /\ TeamMember' \in [Masters -> [Members -> 0..Never]]
           /\ \A n \in Masters, f \in Members : TeamMember'[n][f] =
                 IF n = m /\ f \in expired[m] THEN Never ELSE TeamMember[n][f]
<1>1. Never \in Nat  BY TeamAssumption DEF Never
<1> DEFINE R == [f \in Members |-> IF f \in expired[m] THEN Never ELSE TeamMember[m][f]]
<1>2. R \in [Members -> 0..Never]  BY <1>1 DEF TypeOK
<1>3. TeamMember' = [TeamMember EXCEPT ![m] = R]  BY DEF Erase
<1>4. \A f \in Members : R[f] = IF f \in expired[m] THEN Never ELSE TeamMember[m][f]
  OBVIOUS
<1> HIDE DEF R
<1> QED  BY <1>2, <1>3, <1>4 DEF TypeOK

LEMMA EraseType ==
    ASSUME TypeOK, NEW m \in Masters, Erase(m), History(0)
    PROVE  TypeOK'
<1>1. expired' \in [Masters -> SUBSET Members]  BY DEF Erase, TypeOK
<1>2. /\ TeamMember' \in [Masters -> [Members -> 0..Never]]
      /\ \A n \in Masters \ up : \A f \in Members : TeamMember'[n][f] = Never
  BY EraseIs DEF TypeOK
<1>3. since' \in [Members -> [Masters -> 0..Enough]]  BY SinceType
<1>4. UNCHANGED <<up, host, net, member, due, events>> /\ Never' = Never
  BY DEF Erase, Never
<1> QED  BY <1>1, <1>2, <1>3, <1>4 DEF member, TypeOK

\* What a change of the vector does to the loop thread that walks over it
LEMMA DisturbsIs ==
    ASSUME TypeOK, NEW f \in Members, f \in up, Disturbs(f)
    PROVE  /\ hearing' \in [Members -> Packets \cup {NoPacket}]
           /\ \A g \in Members \ {f} : hearing'[g] = hearing[g] /\ round'[g] = round[g]
           /\ hearing[f] = NoPacket => hearing'[f] = NoPacket
           /\ hearing[f] # NoPacket =>
                 /\ hearing'[f] # NoPacket /\ hearing'[f].raced
                 /\ hearing'[f].from = hearing[f].from /\ hearing'[f].says = hearing[f].says
           /\ round' \in [Members -> Rounds]
           /\ round'[f].at = round[f].at /\ round'[f].todo \subseteq round[f].todo
           /\ \A x \in round[f].todo : x \in round'[f].todo \/ x.team \in round'[f].lost
           /\ round[f].lost \subseteq round'[f].lost
<1>1. round[f] \in Rounds /\ hearing[f] \in Packets \cup {NoPacket}  BY DEF TypeOK
<1>2. PICK T \in SUBSET round[f].todo :
         round' = [round EXCEPT ![f].todo = T,
                                ![f].lost = @ \cup {x.team : x \in round[f].todo \ T}]
  BY DEF Disturbs
<1>3. {x.team : x \in round[f].todo \ T} \subseteq Teams  BY <1>1 DEF Rounds, Tokens
<1> DEFINE r == [round[f] EXCEPT !.todo = T,
                                 !.lost = @ \cup {x.team : x \in round[f].todo \ T}]
<1>4. r \in Rounds  BY <1>1, <1>3 DEF Rounds
<1>5. /\ r.at = round[f].at /\ r.todo = T
      /\ r.lost = round[f].lost \cup {x.team : x \in round[f].todo \ T}
  BY <1>1 DEF Rounds
<1>6. round' = [round EXCEPT ![f] = r]
  <2>1. round[f] = [at |-> round[f].at, todo |-> round[f].todo, lost |-> round[f].lost]
    BY <1>1 DEF Rounds
  <2> QED  BY <1>2, <2>1 DEF TypeOK
<1>7. /\ round' \in [Members -> Rounds] /\ round'[f] = r
      /\ \A g \in Members \ {f} : round'[g] = round[g]
  <2> HIDE DEF r
  <2> QED  BY <1>4, <1>6 DEF TypeOK
<1>8. /\ hearing' \in [Members -> Packets \cup {NoPacket}]
      /\ \A g \in Members \ {f} : hearing'[g] = hearing[g]
      /\ hearing[f] = NoPacket => hearing'[f] = NoPacket
      /\ hearing[f] # NoPacket =>
            /\ hearing'[f] # NoPacket /\ hearing'[f].raced
            /\ hearing'[f].from = hearing[f].from /\ hearing'[f].says = hearing[f].says
  <2>1. hearing' = [hearing EXCEPT ![f] =
                       IF hearing[f] = NoPacket THEN NoPacket ELSE [hearing[f] EXCEPT !.raced = TRUE]]
    BY DEF Disturbs
  <2>2. CASE hearing[f] = NoPacket  BY <2>1, <2>2 DEF TypeOK
  <2>3. CASE hearing[f] # NoPacket
    <3>1. hearing[f] \in Packets  BY <1>1, <2>3
    <3>2. [hearing[f] EXCEPT !.raced = TRUE] \in Packets  BY <3>1 DEF Packets
    <3>3. [hearing[f] EXCEPT !.raced = TRUE] # NoPacket  BY <3>1 DEF Packets, NoPacket
    <3>4. hearing'[f] = [hearing[f] EXCEPT !.raced = TRUE]  BY <2>1, <2>3 DEF TypeOK
    <3>5. hearing'[f].raced /\ hearing'[f].from = hearing[f].from
          /\ hearing'[f].says = hearing[f].says
      BY <3>1, <3>4 DEF Packets
    <3> QED  BY <2>1, <2>3, <3>2, <3>3, <3>4, <3>5 DEF TypeOK
  <2> QED  BY <2>2, <2>3
<1> HIDE DEF r
<1> QED  BY <1>5, <1>7, <1>8

LEMMA JoinLooksType ==
    ASSUME TypeOK, NEW f \in Members, NEW p \in Threads, NEW m \in Masters,
           JoinLooks(f, p, m), History(0)
    PROVE  TypeOK'
<1> DEFINE e == TeamMaster[f][m]
<1>1. e \in Announcements /\ f \in up  BY DEF JoinLooks, TypeOK
<1>2. [team |-> e.team, at |-> Address(e)] \in Tokens
  BY <1>1 DEF Announcements, Tokens, Address, Addrs
<1>3. /\ joining' \in [Members -> [Threads -> Tokens \cup {NoJoin}]]
      /\ \A g \in Members \ up : joining'[g] = joining[g]
  <2>1. joining' = [joining EXCEPT ![f][p] = [team |-> e.team, at |-> Address(e)]]
    BY DEF JoinLooks
  <2> HIDE DEF e
  <2> QED  BY <1>1, <1>2, <2>1 DEF TypeOK
<1>4. events' \in 0..MaxEvents
  BY TeamAssumption DEF JoinLooks, Event, TypeOK
<1>5. since' \in [Members -> [Masters -> 0..Enough]]  BY SinceType
<1> QED  BY <1>3, <1>4, <1>5 DEF JoinLooks, master, TypeOK

LEMMA JoinPushesType ==
    ASSUME TypeOK, NEW f \in Members, NEW p \in Threads, JoinPushes(f, p), History(0)
    PROVE  TypeOK'
<1>1. f \in up  BY DEF JoinPushes, TypeOK
<1>2. joining[f][p] \in Tokens  BY DEF JoinPushes, TypeOK
<1>3. team_tokens' \in [Members -> SUBSET Tokens]  BY <1>2 DEF JoinPushes, TypeOK
<1>4. /\ joining' \in [Members -> [Threads -> Tokens \cup {NoJoin}]]
      /\ \A g \in Members \ up : joining'[g] = joining[g]
  BY <1>1 DEF JoinPushes, TypeOK
<1>5. Disturbs(f)  BY DEF JoinPushes
<1>6. since' \in [Members -> [Masters -> 0..Enough]]  BY SinceType
<1>7. UNCHANGED <<up, net, host, TeamMember, expired, TeamMaster, due, events, spoilt>>
  BY DEF JoinPushes, master
<1> QED  BY <1>1, <1>3, <1>4, <1>5, <1>6, <1>7, DisturbsIs DEF TypeOK

LEMMA LeaveType ==
    ASSUME TypeOK, NEW f \in Members, NEW t \in Teams, Leave(f, t), History(0)
    PROVE  TypeOK'
<1>1. f \in up /\ Disturbs(f)  BY DEF Leave
<1>2. team_tokens' \in [Members -> SUBSET Tokens]  BY DEF Leave, TypeOK
<1>3. events' \in 0..MaxEvents  BY TeamAssumption DEF Leave, Event, TypeOK
<1>4. since' \in [Members -> [Masters -> 0..Enough]]  BY SinceType
<1>5. UNCHANGED <<up, net, host, TeamMember, expired, TeamMaster, joining, due, spoilt>>
  BY DEF Leave, master
<1> QED  BY <1>1, <1>2, <1>3, <1>4, <1>5, DisturbsIs DEF TypeOK

LEMMA StopMemberType ==
    ASSUME TypeOK, NEW f \in Members, StopMember(f), History(0)
    PROVE  TypeOK'
<1>1. NoRound \in Rounds  BY DEF NoRound, Rounds
<1>2. /\ hearing' \in [Members -> Packets \cup {NoPacket}]
      /\ joining' \in [Members -> [Threads -> Tokens \cup {NoJoin}]]
      /\ round' \in [Members -> Rounds]
  BY <1>1 DEF StopMember, TypeOK
<1>3. \A g \in Members \ up' : /\ hearing'[g] = NoPacket /\ round'[g] = NoRound
                               /\ \A p \in Threads : joining'[g][p] = NoJoin
                               /\ \A x \in net' : x[1] # g
  BY DEF StopMember, TypeOK
<1>4. \A m \in Masters \ up' : \A g \in Members : TeamMember'[m][g] = Never'
  BY TeamAssumption DEF StopMember, master, TypeOK, Never
<1>5. events' \in 0..MaxEvents  BY TeamAssumption DEF StopMember, Event, TypeOK
<1>6. since' \in [Members -> [Masters -> 0..Enough]]  BY SinceType
<1> QED  BY <1>2, <1>3, <1>4, <1>5, <1>6 DEF StopMember, master, TypeOK

\* load_team_config_from_file gives tokens without an address
LEMMA LoadType ==
    ASSUME NEW f \in Members
    PROVE  LoadTokens(f) \subseteq Tokens /\ \A x \in LoadTokens(f) : x.at = Unknown
<1>1. \A t \in Teams : [team |-> t, at |-> Unknown] \in Tokens  BY DEF Tokens
<1>2. \A x \in LoadTokens(f) : \E t \in Teams : x = [team |-> t, at |-> Unknown]
  BY DEF LoadTokens
<1> QED  BY <1>1, <1>2

LEMMA StartMemberType ==
    ASSUME TypeOK, NEW f \in Members, StartMember(f), History(0)
    PROVE  TypeOK'
<1>1. /\ TeamMaster' \in [Members -> [Masters -> Announcements \cup {Nothing}]]
      /\ team_tokens' \in [Members -> SUBSET Tokens]
      /\ spoilt' \in [Members -> SUBSET Teams]
  BY LoadType DEF StartMember, TypeOK
<1>2. up' \subseteq Frameworks /\ due' \subseteq up'
  BY DEF StartMember, TypeOK, Frameworks
<1>3. since' \in [Members -> [Masters -> 0..Enough]]  BY SinceType
<1>4. UNCHANGED <<net, host, TeamMember, expired, hearing, joining, round, events>>
  BY DEF StartMember, master
<1>5. up \subseteq up'  BY DEF StartMember
<1> QED  BY <1>1, <1>2, <1>3, <1>4, <1>5 DEF TypeOK

LEMMA StopMasterType ==
    ASSUME TypeOK, NEW m \in Masters, StopMaster(m), History(0)
    PROVE  TypeOK'
<1>1. Never \in Nat  BY TeamAssumption DEF Never
<1>2. TeamMember' \in [Masters -> [Members -> 0..Never]]  BY <1>1 DEF StopMaster, TypeOK
<1>3. \A n \in Masters \ up' : \A f \in Members : TeamMember'[n][f] = Never'
  BY DEF StopMaster, TypeOK, Never
<1>4. Members \ up' = Members \ up  BY TeamAssumption DEF StopMaster
<1>5. events' \in 0..MaxEvents  BY TeamAssumption DEF StopMaster, Event, TypeOK
<1>6. since' \in [Members -> [Masters -> 0..Enough]]  BY SinceType
<1>7. /\ expired' \in [Masters -> SUBSET Members]
      /\ up' \subseteq Frameworks /\ due' \subseteq up'
  BY DEF StopMaster, TypeOK
<1> QED  BY <1>2, <1>3, <1>4, <1>5, <1>6, <1>7 DEF StopMaster, member, TypeOK, Never

LEMMA StartMasterType ==
    ASSUME TypeOK, NEW m \in Masters, StartMaster(m), History(0)
    PROVE  TypeOK'
<1>1. PICK h \in Hosts[m] : host' = [host EXCEPT ![m] = h]  BY DEF StartMaster
<1>2. h \in Announcements  BY TeamAssumption
<1>3. host' \in [Masters -> Announcements] /\ \A n \in Masters : host'[n] \in Hosts[n]
  BY <1>1, <1>2 DEF TypeOK
<1>4. up' \subseteq Frameworks /\ due' \subseteq up'
  BY DEF StartMaster, TypeOK, Frameworks
<1>5. since' \in [Members -> [Masters -> 0..Enough]]  BY SinceType
<1>6. UNCHANGED <<net, member, TeamMember, expired, events>> /\ up \subseteq up'
  BY DEF StartMaster
<1> QED  BY <1>3, <1>4, <1>5, <1>6 DEF member, TypeOK, Never

\* A way is only as old as it has been good
LEMMA SinceIs ==
    ASSUME TypeOK, NEW k \in {0, 1}, History(k)
    PROVE  /\ since' \in [Members -> [Masters -> 0..Enough]]
           /\ \A f \in Members, m \in Masters :
                 since[f][m] \in Nat /\ since'[f][m] \in Nat /\
                 (since'[f][m] > 0 => Good(f, m)' /\ since'[f][m] <= since[f][m] + k)
<1>1. since \in [Members -> [Masters -> 0..Enough]]  BY DEF TypeOK
<1>2. ASSUME NEW f \in Members, NEW m \in Masters
      PROVE  /\ since'[f][m] \in 0..Enough /\ since[f][m] \in Nat
             /\ since'[f][m] > 0 => Good(f, m)' /\ since'[f][m] <= since[f][m] + k
  <2>1. since'[f][m] = IF Good(f, m)' THEN AtMost(Enough, since[f][m] + k) ELSE 0
    BY DEF History
  <2>2. since[f][m] \in 0..Enough  BY <1>1
  <2> HIDE DEF Good
  <2>3. CASE Good(f, m)'  BY <2>1, <2>2, <2>3 DEF AtMost, Enough
  <2>4. CASE ~Good(f, m)'  BY <2>1, <2>2, <2>4 DEF Enough
  <2> QED  BY <2>3, <2>4
<1>3. since' = [f \in Members |-> [m \in Masters |-> since'[f][m]]]
  BY DEF History
<1>4. \A f \in Members, m \in Masters : since'[f][m] \in Nat  BY <1>2 DEF Enough
<1> HIDE DEF Good
<1> QED  BY <1>2, <1>3, <1>4

\* Every row is a tick older
LEMMA TickIs ==
    ASSUME TypeOK, Tick
    PROVE  /\ TeamMember' \in [Masters -> [Members -> 0..Never]]
           /\ \A f \in Members, m \in Masters :
                 /\ TeamMember[m][f] = Never => TeamMember'[m][f] = Never
                 /\ TeamMember[m][f] = 0 => TeamMember'[m][f] = 1
<1>1. ASSUME NEW f \in Members, NEW m \in Masters
      PROVE  /\ TeamMember'[m][f] \in 0..Never
             /\ TeamMember[m][f] = Never => TeamMember'[m][f] = Never
             /\ TeamMember[m][f] = 0 => TeamMember'[m][f] = 1
  <2>1. TeamMember[m][f] \in 0..Never  BY DEF TypeOK
  <2>2. TeamMember'[m][f] = IF TeamMember[m][f] = Never THEN Never
                            ELSE AtMost(Expiry + 1, TeamMember[m][f] + 1)
    BY DEF Tick
  <2> QED  BY <2>1, <2>2, TeamAssumption DEF Never, AtMost
<1>2. TeamMember' = [m \in Masters |-> [f \in Members |-> TeamMember'[m][f]]]
  BY DEF Tick
<1> QED  BY <1>1, <1>2

LEMMA TickType ==
    ASSUME TypeOK, Tick, History(1)
    PROVE  TypeOK'
<1>1. UNCHANGED <<up, host, net, TeamMaster, team_tokens, hearing, joining, round, spoilt,
                  expired, events>>
  BY DEF Tick, member
<1>2. due' \subseteq up'  BY DEF Tick
<1>3. \A m \in Masters \ up' : \A g \in Members : TeamMember'[m][g] = Never'
  BY <1>1, TickIs DEF TypeOK, Never
<1>4. since' \in [Members -> [Masters -> 0..Enough]]  BY SinceIs
<1>5. TeamMember' \in [Masters -> [Members -> 0..Never]]  BY TickIs
<1> QED  BY <1>1, <1>2, <1>3, <1>4, <1>5 DEF TypeOK, Never

\* Every step
LEMMA TypeStep == TypeOK /\ [Next]_vars => TypeOK'
<1> SUFFICES ASSUME TypeOK, [Next]_vars  PROVE TypeOK'
  OBVIOUS
<1>1. ASSUME History(0), NEW f \in Members, LoopStep(f)  PROVE TypeOK'
  BY <1>1, HearEndsType, BeginRoundType, GiveUpType, EndRoundType, StartMemberType, SendToType
     DEF LoopStep
<1>2. ASSUME History(0), NEW f \in Members, HttpStep(f)  PROVE TypeOK'
  BY <1>2, JoinPushesType, JoinLooksType, LeaveType DEF HttpStep
<1>3. ASSUME History(0), NEW f \in Members, NEW m \in Masters, Listens(f, m)  PROVE TypeOK'
  BY <1>3, HearType DEF Listens
<1>4. ASSUME History(0), NEW m \in Masters, MasterStep(m)  PROVE TypeOK'
  BY <1>4, SeeExpiredType, EraseType, StartMasterType, BroadcastType DEF MasterStep
<1>5. CASE UNCHANGED vars
  BY <1>5 DEF vars, TypeOK, Frameworks, Never
<1> QED
  BY <1>1, <1>2, <1>3, <1>4, <1>5, StopMemberType, StopMasterType, TickType DEF Next

LEMMA TypeInit == Init => TypeOK
<1> SUFFICES ASSUME Init  PROVE TypeOK
  OBVIOUS
<1>1. Never \in Nat /\ Never \in 0..Never  BY TeamAssumption DEF Never
<1>2. NoRound \in Rounds  BY DEF NoRound, Rounds
<1>3. team_tokens \in [Members -> SUBSET Tokens]  BY LoadType DEF Init
<1>4. \A m \in Masters \ up : FALSE  BY DEF Init, Frameworks
<1>5. \A f \in Members \ up : FALSE  BY DEF Init, Frameworks
<1> QED  BY <1>1, <1>2, <1>3, <1>4, <1>5, TeamAssumption DEF Init, TypeOK, Enough

\* The variables have their types, and what has stopped keeps nothing in memory
THEOREM TypeCorrect == Spec => []TypeOK
BY TypeInit, TypeStep, PTL DEF Spec

-----------------------------------------------------------------------------
(* TeamDirectory: the addresses in the tokens *)

\* An address is that of an entry, or what happens to its team is under way
Accounted(f, t, a) ==
    \/ Known(f, t, a) \/ t \in spoilt[f]
    \/ hearing[f] # NoPacket /\ t = hearing[f].says.team
\* A packet that is being handled has given its team to the entry
HearInv == \A f \in Members : hearing[f] # NoPacket =>
               \/ TeamMaster[f][hearing[f].from] = Nothing
               \/ TeamMaster[f][hearing[f].from].team = hearing[f].says.team
Raced(f) == hearing[f] # NoPacket /\ hearing[f].raced
TokenInv == \A f \in Members \cap up : Raced(f) \/
                \A x \in Addressed(f) : Accounted(f, x.team, x.at)
PendingInv == \A f \in Members \cap up, p \in Threads : joining[f][p] # NoJoin =>
                  Accounted(f, joining[f][p].team, joining[f][p].at)
AddrInv == HearInv /\ TokenInv /\ PendingInv

\* For a framework of which nothing changes here
LEMMA AddrSame ==
    ASSUME AddrInv, NEW f \in Members, f \in up,
           TeamMaster'[f] = TeamMaster[f], team_tokens'[f] = team_tokens[f],
           hearing'[f] = hearing[f], joining'[f] = joining[f], spoilt'[f] = spoilt[f]
    PROVE  /\ Raced(f)' \/ \A x \in Addressed(f)' : Accounted(f, x.team, x.at)'
           /\ \A p \in Threads : joining'[f][p] # NoJoin =>
                 Accounted(f, joining[f][p].team, joining[f][p].at)'
<1>1. Addressed(f)' = Addressed(f)  BY DEF Addressed
<1>2. \A t, a : Known(f, t, a)' <=> Known(f, t, a)  BY DEF Known
<1>3. \A t, a : Accounted(f, t, a)' <=> Accounted(f, t, a)  BY <1>2 DEF Accounted
<1> HIDE DEF Accounted, Addressed
<1> QED  BY <1>1, <1>3 DEF AddrInv, TokenInv, PendingInv, Raced

\* So it is enough to look at the framework that a step is about
LEMMA AddrOne ==
    ASSUME TypeOK, AddrInv, NEW f \in Members,
           \A g \in Members \ {f} :
              /\ TeamMaster'[g] = TeamMaster[g] /\ team_tokens'[g] = team_tokens[g]
              /\ hearing'[g] = hearing[g] /\ joining'[g] = joining[g]
              /\ spoilt'[g] = spoilt[g] /\ (g \in up' => g \in up),
           hearing'[f] # NoPacket => \/ TeamMaster'[f][hearing'[f].from] = Nothing
                                     \/ TeamMaster'[f][hearing'[f].from].team = hearing'[f].says.team,
           f \in up' => \/ Raced(f)'
                        \/ \A x \in Addressed(f)' : Accounted(f, x.team, x.at)',
           f \in up' => \A p \in Threads : joining'[f][p] # NoJoin =>
                           Accounted(f, joining[f][p].team, joining[f][p].at)'
    PROVE  AddrInv'
<1>1. HearInv'
  BY DEF AddrInv, HearInv
<1>2. ASSUME NEW g \in Members \cap up', g # f
      PROVE  /\ Raced(g)' \/ \A x \in Addressed(g)' : Accounted(g, x.team, x.at)'
             /\ \A p \in Threads : joining'[g][p] # NoJoin =>
                   Accounted(g, joining[g][p].team, joining[g][p].at)'
  <2> HIDE DEF Accounted, Addressed
  <2> QED  BY <1>2, AddrSame
<1> HIDE DEF Accounted, Addressed
<1>3. TokenInv'  BY <1>2 DEF TokenInv
<1>4. PendingInv'  BY <1>2 DEF PendingInv
<1> QED  BY <1>1, <1>3, <1>4 DEF AddrInv

LEMMA AddrUnchanged ==
    ASSUME AddrInv, UNCHANGED <<TeamMaster, team_tokens, hearing, joining, spoilt>>,
           \A f \in Members : f \in up' => f \in up
    PROVE  AddrInv'
<1>1. \A f : Addressed(f)' = Addressed(f)  BY DEF Addressed
<1>2. \A f, t, a : Accounted(f, t, a)' <=> Accounted(f, t, a)  BY DEF Accounted, Known
<1>3. HearInv'  BY DEF AddrInv, HearInv
<1> HIDE DEF Accounted, Addressed
<1>4. TokenInv'  BY <1>1, <1>2 DEF AddrInv, TokenInv, Raced
<1>5. PendingInv'  BY <1>2 DEF AddrInv, PendingInv
<1> QED  BY <1>3, <1>4, <1>5 DEF AddrInv

\* The tokens and joins of the old team of an entry are marked, unless the handling
\* goes on and will give them the address
LEMMA HearAddr ==
    ASSUME TypeOK, AddrInv, NEW f \in Members, NEW m \in Masters, NEW a \in Announcements,
           Hear(f, m, a)
    PROVE  AddrInv'
<1> DEFINE e == TeamMaster[f][m]
           new == IF e = Nothing THEN e ELSE [a EXCEPT !.ip = e.ip]
<1>1. /\ f \in up /\ hearing[f] = NoPacket
      /\ TeamMaster' = [TeamMaster EXCEPT ![f][m] = new]
      /\ hearing' = [hearing EXCEPT ![f] =
                        IF e.ip # a.ip THEN [from |-> m, says |-> a, raced |-> FALSE] ELSE @]
      /\ spoilt' = [spoilt EXCEPT ![f] = @ \cup LeftBehind(f, e, a)]
      /\ UNCHANGED <<up, team_tokens, joining>>
  BY DEF Hear, LoopFree
<1>2. e \in Announcements \cup {Nothing}  BY DEF TypeOK
<1>3. /\ TeamMaster'[f][m] = new
      /\ \A n \in Masters \ {m} : TeamMaster'[f][n] = TeamMaster[f][n]
      /\ \A g \in Members \ {f} : /\ TeamMaster'[g] = TeamMaster[g]
                                  /\ hearing'[g] = hearing[g] /\ spoilt'[g] = spoilt[g]
      /\ hearing'[f] = IF e.ip # a.ip THEN [from |-> m, says |-> a, raced |-> FALSE]
                       ELSE NoPacket
      /\ spoilt'[f] = spoilt[f] \cup LeftBehind(f, e, a)
  <2> HIDE DEF new, e
  <2> QED  BY <1>1 DEF TypeOK
<1>4. e # Nothing => new.team = a.team /\ new.ip = e.ip /\ new.port = a.port /\ new # Nothing
  BY <1>2, TeamAssumption DEF Announcements, Nothing
<1>5. e = Nothing => e.ip # a.ip  BY TeamAssumption DEF Nothing, Announcements
<1> DEFINE packet == [from |-> m, says |-> a, raced |-> FALSE]
<1>0. packet # NoPacket /\ packet.from = m /\ packet.says = a
  <2>1. a # Nothing  BY TeamAssumption DEF Announcements, Nothing
  <2>2. packet.says = a /\ packet.from = m  OBVIOUS
  <2>3. NoPacket.says = Nothing  BY DEF NoPacket
  <2> HIDE DEF packet
  <2> QED  BY <2>1, <2>2, <2>3
<1>6. ASSUME NEW t, NEW b, Accounted(f, t, b), Joined(f, t) \/ Pending(f, t)
      PROVE  Accounted(f, t, b)'
  <2>1. CASE t \in spoilt[f]  BY <2>1, <1>3 DEF Accounted
  <2>2. CASE t \notin spoilt[f]
    <3>1. Known(f, t, b)  BY <2>2, <1>1, <1>6 DEF Accounted
    <3>2. PICK n \in Masters : /\ TeamMaster[f][n] # Nothing /\ TeamMaster[f][n].team = t
                               /\ Address(TeamMaster[f][n]) = b
      BY <3>1 DEF Known
    <3>3. CASE n # m
      <4>1. TeamMaster'[f][n] = TeamMaster[f][n]  BY <1>3, <3>3
      <4> QED  BY <3>2, <4>1 DEF Accounted, Known
    <3>4. CASE n = m
      <4>1. e # Nothing /\ e.team = t /\ Address(e) = b  BY <3>2, <3>4
      <4>2. CASE e = a
        <5>1. new = e  BY <4>1, <4>2 DEF Announcements
        <5>2. TeamMaster'[f][m] = e  BY <1>3, <5>1
        <5> HIDE DEF e, new
        <5> QED  BY <4>1, <5>2 DEF Accounted, Known
      <4>3. CASE e # a /\ e.ip # a.ip /\ a.team = t
        <5>1. hearing'[f] = packet  BY <1>3, <4>3
        <5> HIDE DEF packet
        <5> QED  BY <5>1, <1>0, <4>3 DEF Accounted
      <4>4. CASE e # a /\ ~(e.ip # a.ip /\ a.team = t)
        <5>1. t \in LeftBehind(f, e, a)
          BY <4>1, <4>4, <1>6 DEF LeftBehind
        <5> QED  BY <5>1, <1>3 DEF Accounted
      <4> QED  BY <4>2, <4>3, <4>4
    <3> QED  BY <3>3, <3>4
  <2> QED  BY <2>1, <2>2
<1>7. Raced(f)' \/ \A x \in Addressed(f)' : Accounted(f, x.team, x.at)'
  <2>1. Addressed(f)' = Addressed(f)  BY <1>1 DEF Addressed
  <2>2. ~Raced(f)  BY <1>1 DEF Raced
  <2>3. \A x \in Addressed(f) : Accounted(f, x.team, x.at) /\ Joined(f, x.team)
    BY <1>1, <2>2 DEF AddrInv, TokenInv, Addressed, Joined
  <2> HIDE DEF Accounted, Addressed
  <2> QED  BY <1>6, <2>1, <2>3
<1>8. \A p \in Threads : joining'[f][p] # NoJoin =>
          Accounted(f, joining[f][p].team, joining[f][p].at)'
  <2>1. \A p \in Threads : joining[f][p] # NoJoin =>
           /\ Accounted(f, joining[f][p].team, joining[f][p].at)
           /\ Pending(f, joining[f][p].team)
    BY <1>1 DEF AddrInv, PendingInv, Pending
  <2> HIDE DEF Accounted, Pending
  <2> QED  BY <1>1, <1>6, <2>1
<1>9. hearing'[f] # NoPacket => \/ TeamMaster'[f][hearing'[f].from] = Nothing
                                \/ TeamMaster'[f][hearing'[f].from].team = hearing'[f].says.team
  <2>1. hearing'[f] # NoPacket => hearing'[f] = packet  BY <1>3
  <2>2. e = Nothing => new = Nothing  OBVIOUS
  <2> HIDE DEF e, new, packet
  <2> QED  BY <1>0, <1>3, <1>4, <2>1, <2>2
<1> HIDE DEF Accounted, Addressed, e, new, packet
<1> QED  BY <1>1, <1>3, <1>7, <1>8, <1>9, AddrOne

LEMMA HearEndsAddr ==
    ASSUME TypeOK, AddrInv, NEW f \in Members, HearEnds(f)
    PROVE  AddrInv'
<1> DEFINE h == hearing[f]
<1>1. h # NoPacket /\ h \in Packets /\ f \in up  BY DEF HearEnds, TypeOK
<1>2. h.from \in Masters /\ h.says \in Announcements /\ h.says # Nothing
  BY <1>1, TeamAssumption DEF Packets, Announcements, Nothing
<1>3. PICK T \in TokensAfter(f, h) : team_tokens' = [team_tokens EXCEPT ![f] = T]
  BY DEF HearEnds
<1>4. /\ team_tokens'[f] = T /\ hearing'[f] = NoPacket
      /\ TeamMaster'[f][h.from] = h.says
      /\ \A n \in Masters \ {h.from} : TeamMaster'[f][n] = TeamMaster[f][n]
      /\ spoilt'[f] = {t \in {h.says.team} : Pending(f, t)} \cup
                          IF h.raced THEN spoilt[f] \cup {x.team : x \in team_tokens[f]}
                          ELSE spoilt[f] \ {h.says.team}
      /\ \A g \in Members \ {f} :
            /\ TeamMaster'[g] = TeamMaster[g] /\ team_tokens'[g] = team_tokens[g]
            /\ hearing'[g] = hearing[g] /\ spoilt'[g] = spoilt[g]
      /\ up' = up /\ joining' = joining
  BY <1>2, <1>3 DEF HearEnds, TypeOK
<1>5. ASSUME NEW t, NEW b, Accounted(f, t, b), t # h.says.team
      PROVE  Accounted(f, t, b)'
  <2>1. CASE t \in spoilt[f]  BY <2>1, <1>4, <1>5 DEF Accounted
  <2>2. CASE t \notin spoilt[f]
    <3>1. Known(f, t, b)  BY <2>2, <1>5 DEF Accounted
    <3>2. PICK n \in Masters : /\ TeamMaster[f][n] # Nothing /\ TeamMaster[f][n].team = t
                               /\ Address(TeamMaster[f][n]) = b
      BY <3>1 DEF Known
    <3>3. n # h.from  BY <1>1, <1>5, <3>2 DEF AddrInv, HearInv
    <3>4. TeamMaster'[f][n] = TeamMaster[f][n]  BY <1>4, <3>3
    <3> QED  BY <3>2, <3>4 DEF Accounted, Known
  <2> QED  BY <2>1, <2>2
<1>6. \A x \in Addressed(f)' : Accounted(f, x.team, x.at)'
  <2> SUFFICES ASSUME NEW x \in T, x.at # Unknown  PROVE Accounted(f, x.team, x.at)'
    BY <1>4 DEF Addressed
  <2>1. CASE h.raced
    <3>1. x.team \in {y.team : y \in team_tokens[f]}
      BY <1>1 DEF TokensAfter, TypeOK, Tokens
    <3> QED  BY <1>4, <2>1, <3>1 DEF Accounted
  <2>2. CASE ~h.raced
    <3> DEFINE own == {y \in team_tokens[f] : y.team = h.says.team}
    <3>1. T = (team_tokens[f] \ own) \cup {[y EXCEPT !.at = Address(h.says)] : y \in own}
      BY <2>2 DEF TokensAfter
    <3>2. CASE x \in team_tokens[f] \ own
      <4>1. x \in Addressed(f) /\ x.team # h.says.team  BY <3>2 DEF Addressed
      <4>2. Accounted(f, x.team, x.at)  BY <1>1, <2>2, <4>1 DEF AddrInv, TokenInv, Raced
      <4> QED  BY <1>5, <4>1, <4>2
    <3>3. CASE x \in {[y EXCEPT !.at = Address(h.says)] : y \in own}
      <4>1. PICK y \in own : x = [y EXCEPT !.at = Address(h.says)]  BY <3>3
      <4>2. y \in Tokens  BY DEF TypeOK
      <4>3. x.team = h.says.team /\ x.at = Address(h.says)  BY <4>1, <4>2 DEF Tokens
      <4> QED  BY <1>2, <1>4, <4>3 DEF Accounted, Known
    <3> QED  BY <3>1, <3>2, <3>3
  <2> QED  BY <2>1, <2>2
<1>7. \A p \in Threads : joining'[f][p] # NoJoin =>
          Accounted(f, joining[f][p].team, joining[f][p].at)'
  <2> SUFFICES ASSUME NEW p \in Threads, joining[f][p] # NoJoin
               PROVE  Accounted(f, joining[f][p].team, joining[f][p].at)'
    BY <1>4
  <2>1. CASE joining[f][p].team = h.says.team
    <3>1. joining[f][p].team \in spoilt'[f]  BY <1>4, <2>1 DEF Pending
    <3> QED  BY <1>4, <3>1 DEF Accounted
  <2>2. CASE joining[f][p].team # h.says.team
    <3>1. Accounted(f, joining[f][p].team, joining[f][p].at)
      BY <1>1 DEF AddrInv, PendingInv
    <3> HIDE DEF Accounted
    <3> QED  BY <1>4, <1>5, <2>2, <3>1
  <2> QED  BY <2>1, <2>2
<1> HIDE DEF Accounted, Addressed, h
<1> QED  BY <1>4, <1>6, <1>7, AddrOne

LEMMA JoinLooksAddr ==
    ASSUME TypeOK, AddrInv, NEW f \in Members, NEW p \in Threads, NEW m \in Masters,
           JoinLooks(f, p, m)
    PROVE  AddrInv'
<1> DEFINE e == TeamMaster[f][m]
<1>1. /\ f \in up /\ e # Nothing
      /\ joining'[f][p] = [team |-> e.team, at |-> Address(e)]
      /\ \A q \in Threads \ {p} : joining'[f][q] = joining[f][q]
      /\ \A g \in Members \ {f} : joining'[g] = joining[g]
      /\ UNCHANGED <<up, TeamMaster, team_tokens, hearing, spoilt>>
  BY DEF JoinLooks, TypeOK
<1>2. \A g, t, b : Accounted(g, t, b)' <=> Accounted(g, t, b)
  BY <1>1 DEF Accounted, Known
<1>3. Addressed(f)' = Addressed(f)  BY <1>1 DEF Addressed
<1>4. ASSUME NEW q \in Threads, joining'[f][q] # NoJoin
      PROVE  Accounted(f, joining[f][q].team, joining[f][q].at)'
  <2>1. CASE q = p
    <3>1. Known(f, e.team, Address(e))  BY <1>1 DEF Known
    <3> QED  BY <1>1, <2>1, <3>1 DEF Accounted, Known
  <2>2. CASE q # p
    <3>1. joining'[f][q] = joining[f][q]  BY <1>1, <2>2
    <3>2. Accounted(f, joining[f][q].team, joining[f][q].at)
      BY <1>1, <1>4, <3>1 DEF AddrInv, PendingInv
    <3> QED  BY <1>1, <3>1, <3>2 DEF Accounted, Known
  <2> QED  BY <2>1, <2>2
<1>5. Raced(f)' \/ \A x \in Addressed(f)' : Accounted(f, x.team, x.at)'
  <2> HIDE DEF Accounted, Addressed
  <2> QED  BY <1>1, <1>2, <1>3 DEF AddrInv, TokenInv, Raced
<1>6. hearing'[f] # NoPacket => \/ TeamMaster'[f][hearing'[f].from] = Nothing
                                \/ TeamMaster'[f][hearing'[f].from].team = hearing'[f].says.team
  BY <1>1 DEF AddrInv, HearInv
<1> HIDE DEF Accounted, Addressed, e
<1> QED  BY <1>1, <1>4, <1>5, <1>6, AddrOne

LEMMA JoinPushesAddr ==
    ASSUME TypeOK, AddrInv, NEW f \in Members, NEW p \in Threads, JoinPushes(f, p)
    PROVE  AddrInv'
<1>1. f \in up /\ Disturbs(f)  BY DEF JoinPushes, TypeOK
<1>2. /\ joining[f][p] # NoJoin
      /\ team_tokens'[f] = team_tokens[f] \cup {joining[f][p]}
      /\ joining'[f][p] = NoJoin
      /\ \A q \in Threads \ {p} : joining'[f][q] = joining[f][q]
      /\ \A g \in Members \ {f} : /\ joining'[g] = joining[g]
                                  /\ team_tokens'[g] = team_tokens[g]
      /\ UNCHANGED <<up, TeamMaster, spoilt>>
  BY DEF JoinPushes, TypeOK
<1>3. /\ \A g \in Members \ {f} : hearing'[g] = hearing[g]
      /\ hearing[f] = NoPacket => hearing'[f] = NoPacket
      /\ hearing[f] # NoPacket =>
            /\ hearing'[f] # NoPacket /\ hearing'[f].raced
            /\ hearing'[f].from = hearing[f].from /\ hearing'[f].says = hearing[f].says
  BY <1>1, DisturbsIs
<1>4. \A t, b : Accounted(f, t, b)' <=> Accounted(f, t, b)
  BY <1>2, <1>3 DEF Accounted, Known
<1>5. Raced(f)' \/ \A x \in Addressed(f)' : Accounted(f, x.team, x.at)'
  <2>1. CASE hearing[f] # NoPacket  BY <2>1, <1>3 DEF Raced
  <2>2. CASE hearing[f] = NoPacket
    <3>1. ~Raced(f)  BY <2>2 DEF Raced
    <3>2. Addressed(f)' \subseteq Addressed(f) \cup {joining[f][p]}
      BY <1>2 DEF Addressed
    <3>3. Accounted(f, joining[f][p].team, joining[f][p].at)
      BY <1>1, <1>2 DEF AddrInv, PendingInv
    <3>4. \A x \in Addressed(f) : Accounted(f, x.team, x.at)
      BY <1>1, <3>1 DEF AddrInv, TokenInv
    <3> HIDE DEF Accounted, Addressed
    <3> QED  BY <1>4, <3>2, <3>3, <3>4
  <2> QED  BY <2>1, <2>2
<1>6. ASSUME NEW q \in Threads, joining'[f][q] # NoJoin
      PROVE  Accounted(f, joining[f][q].team, joining[f][q].at)'
  <2>1. joining'[f][q] = joining[f][q]  BY <1>2, <1>6
  <2>2. Accounted(f, joining[f][q].team, joining[f][q].at)
    BY <1>1, <1>6, <2>1 DEF AddrInv, PendingInv
  <2> QED  BY <2>1, <2>2, <1>2, <1>3 DEF Accounted, Known
<1>7. hearing'[f] # NoPacket => \/ TeamMaster'[f][hearing'[f].from] = Nothing
                                \/ TeamMaster'[f][hearing'[f].from].team = hearing'[f].says.team
  BY <1>2, <1>3 DEF AddrInv, HearInv
<1> HIDE DEF Accounted, Addressed
<1> QED  BY <1>1, <1>2, <1>3, <1>5, <1>6, <1>7, AddrOne

LEMMA LeaveAddr ==
    ASSUME TypeOK, AddrInv, NEW f \in Members, NEW t \in Teams, Leave(f, t)
    PROVE  AddrInv'
<1>1. f \in up /\ Disturbs(f)  BY DEF Leave
<1>2. /\ team_tokens'[f] \subseteq team_tokens[f]
      /\ \A g \in Members \ {f} : team_tokens'[g] = team_tokens[g]
      /\ UNCHANGED <<up, TeamMaster, joining, spoilt>>
  BY DEF Leave, TypeOK
<1>3. /\ \A g \in Members \ {f} : hearing'[g] = hearing[g]
      /\ hearing[f] = NoPacket => hearing'[f] = NoPacket
      /\ hearing[f] # NoPacket =>
            /\ hearing'[f] # NoPacket /\ hearing'[f].raced
            /\ hearing'[f].from = hearing[f].from /\ hearing'[f].says = hearing[f].says
  BY <1>1, DisturbsIs
<1>4. \A s, b : Accounted(f, s, b)' <=> Accounted(f, s, b)
  BY <1>2, <1>3 DEF Accounted, Known
<1>5. Raced(f)' \/ \A x \in Addressed(f)' : Accounted(f, x.team, x.at)'
  <2>1. CASE hearing[f] # NoPacket  BY <2>1, <1>3 DEF Raced
  <2>2. CASE hearing[f] = NoPacket
    <3>1. ~Raced(f)  BY <2>2 DEF Raced
    <3>2. Addressed(f)' \subseteq Addressed(f)  BY <1>2 DEF Addressed
    <3>3. \A x \in Addressed(f) : Accounted(f, x.team, x.at)
      BY <1>1, <3>1 DEF AddrInv, TokenInv
    <3> HIDE DEF Accounted, Addressed
    <3> QED  BY <1>4, <3>2, <3>3
  <2> QED  BY <2>1, <2>2
<1>6. ASSUME NEW q \in Threads, joining'[f][q] # NoJoin
      PROVE  Accounted(f, joining[f][q].team, joining[f][q].at)'
  <2>1. Accounted(f, joining[f][q].team, joining[f][q].at)
    BY <1>1, <1>2, <1>6 DEF AddrInv, PendingInv
  <2> QED  BY <2>1, <1>2, <1>3 DEF Accounted, Known
<1>7. hearing'[f] # NoPacket => \/ TeamMaster'[f][hearing'[f].from] = Nothing
                                \/ TeamMaster'[f][hearing'[f].from].team = hearing'[f].says.team
  BY <1>2, <1>3 DEF AddrInv, HearInv
<1> HIDE DEF Accounted, Addressed
<1> QED  BY <1>1, <1>2, <1>3, <1>5, <1>6, <1>7, AddrOne

LEMMA StopMemberAddr ==
    ASSUME TypeOK, AddrInv, NEW f \in Members, StopMember(f)
    PROVE  AddrInv'
<1>1. /\ f \notin up' /\ hearing'[f] = NoPacket
      /\ \A g \in Members \ {f} :
            /\ hearing'[g] = hearing[g] /\ joining'[g] = joining[g]
            /\ g \in up' => g \in up
      /\ UNCHANGED <<TeamMaster, team_tokens, spoilt>>
  BY DEF StopMember, TypeOK
<1> QED  BY <1>1, AddrOne

\* A framework that starts has tokens of its configuration, all without an address
LEMMA StartMemberAddr ==
    ASSUME TypeOK, AddrInv, NEW f \in Members, StartMember(f)
    PROVE  AddrInv'
<1>1. /\ \A g \in Members \ {f} :
            /\ team_tokens'[g] = team_tokens[g] /\ TeamMaster'[g] = TeamMaster[g]
            /\ spoilt'[g] = spoilt[g] /\ (g \in up' => g \in up)
      /\ team_tokens'[f] = LoadTokens(f) /\ UNCHANGED <<hearing, joining>>
  BY DEF StartMember, TypeOK
<1>2. hearing[f] = NoPacket /\ \A p \in Threads : joining[f][p] = NoJoin
  BY DEF StartMember, TypeOK
<1>3. Addressed(f)' = {}  BY <1>1, LoadType DEF Addressed
<1> QED  BY <1>1, <1>2, <1>3, AddrOne

LEMMA AddrStep == TypeOK /\ AddrInv /\ [Next]_vars => AddrInv'
<1> SUFFICES ASSUME TypeOK, AddrInv, [Next]_vars  PROVE AddrInv'
  OBVIOUS
<1>1. ASSUME NEW f \in Members, LoopStep(f)  PROVE AddrInv'
  <2>1. CASE BeginRound(f) \/ GiveUp(f) \/ EndRound(f) \/ \E x \in round[f].todo : SendTo(f, x)
    BY <2>1, AddrUnchanged DEF BeginRound, GiveUp, EndRound, SendTo
  <2> QED  BY <1>1, <2>1, HearEndsAddr, StartMemberAddr DEF LoopStep
<1>2. ASSUME NEW f \in Members, HttpStep(f)  PROVE AddrInv'
  BY <1>2, JoinPushesAddr, JoinLooksAddr, LeaveAddr DEF HttpStep
<1>3. ASSUME NEW f \in Members, NEW m \in Masters, Listens(f, m)  PROVE AddrInv'
  BY <1>3, HearAddr DEF Listens
<1>4. ASSUME NEW m \in Masters, MasterStep(m) \/ StopMaster(m)  PROVE AddrInv'
  <2>1. UNCHANGED member /\ \A f \in Members : f \in up' => f \in up
    BY <1>4, TeamAssumption
       DEF MasterStep, SeeExpired, Erase, StartMaster, Broadcast, StopMaster
  <2> QED  BY <2>1, AddrUnchanged DEF member
<1>5. CASE Tick  BY <1>5, AddrUnchanged DEF Tick, member
<1>6. CASE UNCHANGED vars  BY <1>6, AddrUnchanged DEF vars
<1> QED  BY <1>1, <1>2, <1>3, <1>4, <1>5, <1>6, StopMemberAddr DEF Next

\* The address in a token is that of an entry of its team, unless one of the causes
\* that parse_ipv4_broadcast, join_team and leave leave open has kept it from following
THEOREM TokensAreEntries == Spec => []TokenIsEntry
<1>1. Init => AddrInv
  <2> SUFFICES ASSUME Init  PROVE AddrInv
    OBVIOUS
  <2>1. \A f \in Members : hearing[f] = NoPacket /\ \A p \in Threads : joining[f][p] = NoJoin
    BY DEF Init
  <2>2. \A f \in Members : Addressed(f) = {}  BY LoadType DEF Init, Addressed
  <2> QED  BY <2>1, <2>2 DEF AddrInv, HearInv, TokenInv, PendingInv
<1>2. AddrInv => TokenIsEntry
  BY DEF AddrInv, TokenInv, Raced, Accounted, TokenIsEntry
<1> QED  BY <1>1, <1>2, TypeCorrect, AddrStep, PTL DEF Spec

-----------------------------------------------------------------------------
(* TeamDirectory: live members are listed *)

\* The heartbeat of this period to m has been sent
Sent(f, m) == f \notin due /\ TokenFor(m) \notin round[f].todo

RoundInv == \A f \in Members : round[f].at = "idle" => round[f].todo = {}
\* How far a good way has come: in its second period no row that the cleanup timer
\* could take is left from before, in its third one the row is there
WayInv == \A f \in Members, m \in Masters : since[f][m] > 0 =>
    /\ Good(f, m)
    /\ Sent(f, m) => TeamMember[m][f] \in {0, Never}
    /\ since[f][m] > 1 => /\ f \notin expired[m]
                          /\ TeamMember[m][f] \in {0, 1, Never}
                          /\ Sent(f, m) => TeamMember[m][f] = 0
    /\ since[f][m] > 2 => TeamMember[m][f] # Never
IInv == TypeOK /\ RoundInv /\ WayInv

\* What a step that takes no time may do while the way stays good
Keeps(f, m) ==
    /\ f \in expired'[m] => f \in expired[m] \/ TeamMember[m][f] \notin {0, 1, Never}
    /\ \/ TeamMember'[m][f] = 0
       \/ /\ Sent(f, m)' => Sent(f, m)
          /\ \/ TeamMember'[m][f] = TeamMember[m][f]
             \/ TeamMember'[m][f] = Never /\ f \in expired[m]

LEMMA WayStep ==
    ASSUME TypeOK, WayInv, History(0),
           \A f \in Members, m \in Masters : Good(f, m) /\ Good(f, m)' => Keeps(f, m)
    PROVE  WayInv'
<1> SUFFICES ASSUME NEW f \in Members, NEW m \in Masters, since'[f][m] > 0
             PROVE  (/\ Good(f, m)
                     /\ Sent(f, m) => TeamMember[m][f] \in {0, Never}
                     /\ since[f][m] > 1 => /\ f \notin expired[m]
                                           /\ TeamMember[m][f] \in {0, 1, Never}
                                           /\ Sent(f, m) => TeamMember[m][f] = 0
                     /\ since[f][m] > 2 => TeamMember[m][f] # Never)'
  BY DEF WayInv
<1>1. /\ Good(f, m)' /\ since'[f][m] <= since[f][m]
      /\ since[f][m] \in Nat /\ since'[f][m] \in Nat
  BY SinceIs
<1>2. since[f][m] > 0  BY <1>1
<1> HIDE DEF Good, Sent
<1>3. /\ Good(f, m)
      /\ Sent(f, m) => TeamMember[m][f] \in {0, Never}
      /\ since[f][m] > 1 => /\ f \notin expired[m]
                            /\ TeamMember[m][f] \in {0, 1, Never}
                            /\ Sent(f, m) => TeamMember[m][f] = 0
      /\ since[f][m] > 2 => TeamMember[m][f] # Never
  BY <1>2 DEF WayInv
<1>4. Keeps(f, m)  BY <1>1, <1>3
<1>5. Never' = Never /\ 0 # Never  BY TeamAssumption DEF Never
<1> QED  BY <1>1, <1>3, <1>4, <1>5 DEF Keeps

\* Steps that touch neither TeamMember nor what is left to send
LEMMA WaySame ==
    ASSUME NEW f \in Members, NEW m \in Masters,
           TeamMember'[m][f] = TeamMember[m][f], expired'[m] = expired[m],
           host'[m] = host[m], round'[f].todo = round[f].todo, f \in due' <=> f \in due
    PROVE  Keeps(f, m)
BY DEF Keeps, Sent, TokenFor

\* The token of a good way has an address, and only its master answers there
LEMMA TokenForIs ==
    ASSUME TypeOK, NEW m \in Masters
    PROVE  /\ TokenFor(m) \in Tokens /\ TokenFor(m).at # Unknown
           /\ TokenFor(m).team = host[m].team /\ TokenFor(m).at = Address(host[m])
           /\ \A n \in At(TokenFor(m).at) : n = m
<1>1. /\ host[m] \in Announcements /\ host[m] \in Hosts[m]
      /\ \A n \in Masters : host[n] \in Hosts[n]
  BY DEF TypeOK
<1>2. Address(host[m]) \in Addrs /\ Address(host[m]) # Unknown
  BY <1>1, TeamAssumption DEF Announcements, Address, Addrs, Unknown
<1>3. \A n \in Masters : Address(host[n]) = Address(host[m]) => host[n].ip = host[m].ip
  BY DEF Address
<1>4. \A n \in Masters : host[n].ip = host[m].ip => n = m
  BY <1>1, TeamAssumption
<1>5. \A n \in At(Address(host[m])) : n = m  BY <1>3, <1>4 DEF At
<1> HIDE DEF Address
<1> QED  BY <1>1, <1>2, <1>5 DEF TokenFor, Tokens, Announcements

LEMMA BeginRoundWay ==
    ASSUME TypeOK, WayInv, NEW f \in Members, BeginRound(f), History(0)
    PROVE  WayInv'
<1>1. /\ UNCHANGED <<host, TeamMember, expired>>
      /\ \A g \in Members \ {f} : round'[g] = round[g]
      /\ round'[f].todo = Addressed(f) /\ due' = due \ {f}
  BY DEF BeginRound, master, TypeOK
<1>2. ASSUME NEW g \in Members, NEW m \in Masters, Good(g, m)  PROVE Keeps(g, m)
  <2>1. CASE g # f
    BY <1>1, <2>1, WaySame
  <2>2. CASE g = f
    <3>1. TokenFor(m) \in Addressed(f)  BY <1>2, <2>2, TokenForIs DEF Good, Addressed
    <3>2. TokenFor(m)' = TokenFor(m)  BY <1>1 DEF TokenFor
    <3>3. ~Sent(f, m)'  BY <1>1, <3>1, <3>2 DEF Sent
    <3> HIDE DEF Sent
    <3> QED  BY <1>1, <2>2, <3>3 DEF Keeps
  <2> QED  BY <2>1, <2>2
<1> HIDE DEF Good, Keeps
<1> QED  BY <1>2, WayStep

\* Of what an HTTP thread makes the walk miss, the heartbeat does not come through
LEMMA DisturbsWay ==
    ASSUME TypeOK, WayInv, NEW f \in Members, f \in up, Disturbs(f),
           UNCHANGED <<host, TeamMember, expired, due>>, History(0)
    PROVE  WayInv'
<1>1. ASSUME NEW g \in Members, NEW m \in Masters, Good(g, m)'  PROVE Keeps(g, m)
  <2>1. CASE g # f
    <3>1. round'[g] = round[g]  BY <2>1, DisturbsIs
    <3> QED  BY <3>1, WaySame
  <2>2. CASE g = f
    <3>1. \A x \in round[f].todo : x \in round'[f].todo \/ x.team \in round'[f].lost
      BY DisturbsIs
    <3>2. TokenFor(m)' = TokenFor(m) /\ host'[m].team \notin round'[f].lost
      BY <1>1, <2>2 DEF TokenFor, Good
    <3>3. TokenFor(m).team = host[m].team  BY TokenForIs
    <3> HIDE DEF TokenFor
    <3>4. Sent(f, m)' => Sent(f, m)  BY <3>1, <3>2, <3>3 DEF Sent
    <3> HIDE DEF Sent
    <3> QED  BY <2>2, <3>4 DEF Keeps
  <2> QED  BY <2>1, <2>2
<1> HIDE DEF Good, Keeps
<1> QED  BY <1>1, WayStep

LEMMA SendToWay ==
    ASSUME TypeOK, WayInv, NEW f \in Members, NEW x \in round[f].todo, SendTo(f, x), History(0)
    PROVE  WayInv'
<1>1. /\ UNCHANGED <<host, expired, due>>
      /\ \A g \in Members \ {f} : round'[g] = round[g]
      /\ round'[f].todo = round[f].todo \ {x}
  BY SendToIs DEF SendTo
<1>2. ASSUME NEW g \in Members, NEW m \in Masters, Good(g, m), Good(g, m)'  PROVE Keeps(g, m)
  <2>1. TeamMember'[m][g] \in {0, TeamMember[m][g]}
    BY SendToIs
  <2>2. CASE g # f
    BY <1>1, <2>1, <2>2, WaySame DEF Keeps
  <2>3. CASE g = f /\ x # TokenFor(m)
    <3>1. TokenFor(m)' = TokenFor(m)  BY <1>1 DEF TokenFor
    <3> HIDE DEF TokenFor
    <3>2. Sent(f, m)' => Sent(f, m)  BY <1>1, <2>3, <3>1 DEF Sent
    <3> HIDE DEF Sent
    <3> QED  BY <1>1, <2>1, <2>3, <3>2 DEF Keeps
  <2>4. CASE g = f /\ x = TokenFor(m)
    <3>1. x.team = host[m].team /\ x.at = Address(host[m]) /\ \A n \in At(x.at) : n = m
      BY <2>4, TokenForIs
    <3>2. round'[f].at # "waiting" /\ x.team \notin round'[f].lost
      BY <1>1, <1>2, <2>4, <3>1 DEF Good
    <3>3. TeamMember'[m][f] = 0
      BY <3>1, <3>2, SendToIs
    <3> QED  BY <1>1, <2>4, <3>3 DEF Keeps
  <2> QED  BY <2>2, <2>3, <2>4
<1> HIDE DEF Good, Keeps
<1> QED  BY <1>2, WayStep

LEMMA SeeExpiredWay ==
    ASSUME TypeOK, WayInv, Expiry >= 2, NEW m \in Masters, SeeExpired(m), History(0)
    PROVE  WayInv'
<1>1. /\ UNCHANGED <<host, TeamMember, due, round>>
      /\ \A n \in Masters \ {m} : expired'[n] = expired[n]
      /\ expired'[m] \subseteq Old(m) \cup Aging(m)
  BY DEF SeeExpired, member, TypeOK
<1>2. \A f \in Old(m) \cup Aging(m) : TeamMember[m][f] \notin {0, 1, Never}
  BY TeamAssumption DEF Old, Aging, Never, TypeOK
<1>3. ASSUME NEW f \in Members, NEW n \in Masters  PROVE Keeps(f, n)
  BY <1>1, <1>2 DEF Keeps, Sent, TokenFor
<1> HIDE DEF Good, Keeps
<1> QED  BY <1>3, WayStep

LEMMA EraseWay ==
    ASSUME TypeOK, WayInv, NEW m \in Masters, Erase(m), History(0)
    PROVE  WayInv'
<1>1. /\ UNCHANGED <<host, due, round>>
      /\ \A n \in Masters \ {m} : expired'[n] = expired[n]
      /\ expired'[m] = {}
  BY DEF Erase, member, TypeOK
<1>2. ASSUME NEW f \in Members, NEW n \in Masters  PROVE Keeps(f, n)
  <2>1. TeamMember'[n][f] = IF n = m /\ f \in expired[m] THEN Never ELSE TeamMember[n][f]
    BY EraseIs
  <2> QED  BY <1>1, <2>1 DEF Keeps, Sent, TokenFor
<1> HIDE DEF Good, Keeps
<1> QED  BY <1>2, WayStep

\* The starts and stops of others, and all that changes nothing of these variables
LEMMA OtherWay ==
    ASSUME TypeOK, WayInv, History(0),
           \A f \in Members, m \in Masters : Good(f, m) /\ Good(f, m)' =>
              /\ TeamMember'[m][f] = TeamMember[m][f] /\ expired'[m] = expired[m]
              /\ host'[m] = host[m] /\ round'[f].todo = round[f].todo
              /\ f \in due' <=> f \in due
    PROVE  WayInv'
<1>1. \A f \in Members, m \in Masters : Good(f, m) /\ Good(f, m)' => Keeps(f, m)
  <2> HIDE DEF Good, Keeps
  <2> QED  BY WaySame
<1> HIDE DEF Good, Keeps
<1> QED  BY <1>1, WayStep

LEMMA StopMemberWay ==
    ASSUME TypeOK, WayInv, History(0), NEW f \in Members, StopMember(f)
    PROVE  WayInv'
<1>1. /\ f \notin up' /\ due' = due \ {f} /\ UNCHANGED <<TeamMember, expired, host>>
      /\ \A g \in Members \ {f} : round'[g] = round[g]
  BY DEF StopMember, master, TypeOK
<1>2. \A g \in Members, n \in Masters : Good(g, n) /\ Good(g, n)' =>
         {g, n} \subseteq up /\ {g, n} \subseteq up'
  BY DEF Good
<1> HIDE DEF Good
<1> QED  BY <1>1, <1>2, OtherWay

LEMMA StartMemberWay ==
    ASSUME TypeOK, WayInv, History(0), NEW f \in Members, StartMember(f)
    PROVE  WayInv'
<1>1. /\ f \notin up /\ due' = due \cup {f}
      /\ UNCHANGED <<TeamMember, expired, host, round>>
  BY DEF StartMember, master
<1>2. \A g \in Members, n \in Masters : Good(g, n) /\ Good(g, n)' =>
         {g, n} \subseteq up /\ {g, n} \subseteq up'
  BY DEF Good
<1> HIDE DEF Good
<1> QED  BY <1>1, <1>2, OtherWay

LEMMA StopMasterWay ==
    ASSUME TypeOK, WayInv, History(0), NEW m \in Masters, StopMaster(m)
    PROVE  WayInv'
<1>1. /\ m \notin up' /\ due' = due \ {m} /\ UNCHANGED <<host, round>>
      /\ \A n \in Masters \ {m} : TeamMember'[n] = TeamMember[n] /\ expired'[n] = expired[n]
  BY DEF StopMaster, member, TypeOK
<1>2. \A g \in Members, n \in Masters : Good(g, n) /\ Good(g, n)' =>
         {g, n} \subseteq up /\ {g, n} \subseteq up'
  BY DEF Good
<1> HIDE DEF Good
<1> QED  BY <1>1, <1>2, TeamAssumption, OtherWay

LEMMA StartMasterWay ==
    ASSUME TypeOK, WayInv, History(0), NEW m \in Masters, StartMaster(m)
    PROVE  WayInv'
<1>1. /\ m \notin up /\ due' = due \cup {m} /\ UNCHANGED <<TeamMember, expired, round>>
      /\ \A n \in Masters \ {m} : host'[n] = host[n]
  BY DEF StartMaster, member, TypeOK
<1>2. \A g \in Members, n \in Masters : Good(g, n) /\ Good(g, n)' =>
         {g, n} \subseteq up /\ {g, n} \subseteq up'
  BY DEF Good
<1> HIDE DEF Good
<1> QED  BY <1>1, <1>2, TeamAssumption, OtherWay

\* A period ends. Whoever has sent in it has a row of this period, or had one erased
LEMMA TickWay ==
    ASSUME TypeOK, RoundInv, WayInv, Tick, History(1)
    PROVE  WayInv'
<1> SUFFICES ASSUME NEW f \in Members, NEW m \in Masters, since'[f][m] > 0
             PROVE  (/\ Good(f, m)
                     /\ Sent(f, m) => TeamMember[m][f] \in {0, Never}
                     /\ since[f][m] > 1 => /\ f \notin expired[m]
                                           /\ TeamMember[m][f] \in {0, 1, Never}
                                           /\ Sent(f, m) => TeamMember[m][f] = 0
                     /\ since[f][m] > 2 => TeamMember[m][f] # Never)'
  BY DEF WayInv
<1>1. /\ Good(f, m)' /\ since'[f][m] <= since[f][m] + 1
      /\ since[f][m] \in Nat /\ since'[f][m] \in Nat
  BY SinceIs
<1>2. /\ TeamMember[m][f] = Never => TeamMember'[m][f] = Never
      /\ TeamMember[m][f] = 0 => TeamMember'[m][f] = 1
  BY TickIs
<1>3. ~Sent(f, m)'  BY <1>1 DEF Good, Sent, Tick
<1>4. since[f][m] > 0 => Sent(f, m)
  <2>1. ASSUME since[f][m] > 0  PROVE round[f].at # "waiting" /\ f \in Frameworks
    BY <2>1 DEF WayInv, Good, Frameworks
  <2>2. round[f].at \in {"idle", "sending", "waiting"} /\ round[f].at # "sending"
    BY DEF Tick, TypeOK, Rounds
  <2> QED  BY <2>1, <2>2 DEF RoundInv, Sent, Tick
<1>5. m \in up /\ expired'[m] = {}
  <2>1. m \in up  BY <1>1 DEF Good, Tick
  <2> QED  BY <2>1 DEF Tick
<1>6. since'[f][m] > 1 => TeamMember'[m][f] \in {1, Never}
  BY <1>1, <1>4, <1>2 DEF WayInv
<1>7. since'[f][m] > 2 => TeamMember'[m][f] = 1
  BY <1>1, <1>4, <1>2 DEF WayInv
<1>8. Never' = Never /\ 1 # Never  BY TeamAssumption DEF Never
<1> HIDE DEF Sent, Good
<1> QED  BY <1>1, <1>3, <1>5, <1>6, <1>7, <1>8

\* The sending timer of a framework that is not in a round has nothing left
LEMMA RoundStep == TypeOK /\ RoundInv /\ [Next]_vars => RoundInv'
<1> SUFFICES ASSUME TypeOK, RoundInv, [Next]_vars  PROVE RoundInv'
  OBVIOUS
<1>1. ASSUME NEW f \in Members, LoopStep(f)  PROVE RoundInv'
  <2>1. CASE BeginRound(f) \/ GiveUp(f) \/ EndRound(f)
    <3>1. round[f] \in Rounds /\ \A g \in Members \ {f} : round'[g] = round[g]
      BY <2>1 DEF BeginRound, GiveUp, EndRound, TypeOK
    <3>2. round'[f].at = "sending" \/ round'[f].todo = {}
      BY <2>1, <3>1 DEF BeginRound, GiveUp, EndRound, NoRound, Rounds, TypeOK
    <3> QED  BY <3>1, <3>2 DEF RoundInv
  <2>2. ASSUME NEW x \in round[f].todo, SendTo(f, x)  PROVE RoundInv'
    <3>1. \A g \in Members \ {f} : round'[g] = round[g]  BY <2>2, SendToIs
    <3>2. round'[f].at \in {"sending", "waiting"}  BY <2>2, SendToIs
    <3> QED  BY <3>1, <3>2 DEF RoundInv
  <2>3. CASE HearEnds(f) \/ StartMember(f)
    BY <2>3 DEF HearEnds, StartMember, RoundInv
  <2> QED  BY <1>1, <2>1, <2>2, <2>3 DEF LoopStep
<1>2. ASSUME NEW f \in Members, HttpStep(f)  PROVE RoundInv'
  <2>1. CASE f \in up /\ Disturbs(f)
    <3>1. /\ \A g \in Members \ {f} : round'[g] = round[g]
          /\ round'[f].at = round[f].at /\ round'[f].todo \subseteq round[f].todo
      BY <2>1, DisturbsIs
    <3> QED  BY <3>1 DEF RoundInv
  <2>2. ASSUME NEW p \in Threads, NEW m \in Masters, JoinLooks(f, p, m)  PROVE RoundInv'
    BY <2>2 DEF JoinLooks, RoundInv
  <2>3. ASSUME NEW p \in Threads, JoinPushes(f, p)  PROVE f \in up /\ Disturbs(f)
    BY <2>3 DEF JoinPushes, TypeOK
  <2>4. ASSUME NEW t \in Teams, Leave(f, t)  PROVE f \in up /\ Disturbs(f)
    BY <2>4 DEF Leave
  <2> QED  BY <1>2, <2>1, <2>2, <2>3, <2>4 DEF HttpStep
<1>3. ASSUME NEW f \in Members, StopMember(f)  PROVE RoundInv'
  BY <1>3 DEF StopMember, NoRound, RoundInv, TypeOK
<1>4. CASE UNCHANGED round  BY <1>4 DEF RoundInv
<1>5. ASSUME NEW f \in Members, NEW m \in Masters, Listens(f, m)  PROVE UNCHANGED round
  BY <1>5 DEF Listens, Hear
<1>6. ASSUME NEW m \in Masters, MasterStep(m) \/ StopMaster(m)  PROVE UNCHANGED round
  BY <1>6 DEF MasterStep, SeeExpired, Erase, StartMaster, Broadcast, StopMaster, member
<1>7. CASE Tick \/ UNCHANGED vars  BY <1>7, <1>4 DEF Tick, member, vars
<1> QED  BY <1>1, <1>2, <1>3, <1>4, <1>5, <1>6, <1>7 DEF Next

LEMMA WayHolds ==
    ASSUME TypeOK, RoundInv, WayInv, Expiry >= 2, [Next]_vars
    PROVE  WayInv'
<1>1. ASSUME History(0), NEW f \in Members, LoopStep(f)  PROVE WayInv'
  <2>1. CASE GiveUp(f) \/ EndRound(f) \/ HearEnds(f)
    <3>1. UNCHANGED <<host, TeamMember, expired, due>>
      BY <2>1 DEF GiveUp, EndRound, HearEnds, master
    <3>2. round[f] \in Rounds  BY DEF TypeOK
    <3>3. \A g \in Members : round'[g].todo = round[g].todo
      <4>1. CASE GiveUp(f)
        <5>1. /\ round'[f] = [round[f] EXCEPT !.at = "sending"]
              /\ \A g \in Members \ {f} : round'[g] = round[g]
          BY <4>1 DEF GiveUp, TypeOK
        <5> QED  BY <3>2, <5>1 DEF Rounds
      <4>2. CASE EndRound(f)
        <5>1. /\ round'[f] = NoRound /\ round[f].todo = {}
              /\ \A g \in Members \ {f} : round'[g] = round[g]
          BY <4>2 DEF EndRound, TypeOK
        <5> QED  BY <5>1 DEF NoRound
      <4> QED  BY <2>1, <4>1, <4>2 DEF HearEnds
    <3> HIDE DEF Good
    <3> QED  BY <1>1, <3>1, <3>3, OtherWay
  <2> QED  BY <1>1, <2>1, BeginRoundWay, SendToWay, StartMemberWay DEF LoopStep
<1>2. ASSUME History(0), NEW f \in Members, HttpStep(f)  PROVE WayInv'
  <2>1. ASSUME NEW p \in Threads, JoinPushes(f, p)  PROVE WayInv'
    <3>1. f \in up /\ Disturbs(f) /\ UNCHANGED <<host, TeamMember, expired, due>>
      BY <2>1 DEF JoinPushes, TypeOK, master
    <3> QED  BY <1>2, <3>1, DisturbsWay
  <2>2. ASSUME NEW t \in Teams, Leave(f, t)  PROVE WayInv'
    <3>1. f \in up /\ Disturbs(f) /\ UNCHANGED <<host, TeamMember, expired, due>>
      BY <2>2 DEF Leave, master
    <3> QED  BY <1>2, <3>1, DisturbsWay
  <2>3. ASSUME NEW p \in Threads, NEW m \in Masters, JoinLooks(f, p, m)  PROVE WayInv'
    <3>1. UNCHANGED <<host, TeamMember, expired, due, round>>
      BY <2>3 DEF JoinLooks, master
    <3> HIDE DEF Good
    <3> QED  BY <1>2, <3>1, OtherWay
  <2> QED  BY <1>2, <2>1, <2>2, <2>3 DEF HttpStep
<1>3. ASSUME History(0), NEW f \in Members, NEW m \in Masters, Listens(f, m)  PROVE WayInv'
  <2>1. UNCHANGED <<host, TeamMember, expired, due, round>>
    BY <1>3 DEF Listens, Hear, master
  <2> HIDE DEF Good
  <2> QED  BY <1>3, <2>1, OtherWay
<1>4. ASSUME History(0), NEW m \in Masters, MasterStep(m)  PROVE WayInv'
  <2>1. ASSUME NEW S \in SUBSET Members, Broadcast(m, S)  PROVE WayInv'
    <3>1. due' = due \ {m} /\ UNCHANGED <<host, TeamMember, expired, round>>
      BY <2>1 DEF Broadcast, member, master
    <3> HIDE DEF Good
    <3> QED  BY <1>4, <3>1, TeamAssumption, OtherWay
  <2> QED  BY <1>4, <2>1, SeeExpiredWay, EraseWay, StartMasterWay DEF MasterStep
<1>5. CASE UNCHANGED vars
  BY <1>5 DEF vars, WayInv, Good, Sent, TokenFor, At, Addressed, Never
<1> QED
  BY <1>1, <1>2, <1>3, <1>4, <1>5, StopMemberWay, StopMasterWay, TickWay DEF Next

\* The expiry is two periods or more: a row of the last period is not taken
ExpiryAssumption == Expiry >= 2

THEOREM Invariant ==
    ASSUME ExpiryAssumption  PROVE Spec => []IInv
<1>1. Init => IInv
  <2> SUFFICES ASSUME Init  PROVE IInv
    OBVIOUS
  <2>1. \A f \in Members : round[f].todo = {} /\ \A m \in Masters : since[f][m] = 0
    BY DEF Init, NoRound
  <2> QED  BY <2>1, TypeInit DEF IInv, RoundInv, WayInv
<1>2. IInv /\ [Next]_vars => IInv'
  BY TypeStep, RoundStep, WayHolds DEF IInv, ExpiryAssumption
<1> QED  BY <1>1, <1>2, PTL DEF Spec

\* start_cleanup_inactive_member never leaves out a member that has had the address of
\* its master for three periods
THEOREM LiveMembersAreListed ==
    ASSUME ExpiryAssumption  PROVE Spec => []LiveMemberListed
<1>1. IInv => LiveMemberListed
  BY DEF IInv, WayInv, LiveMemberListed, Enough
<1> QED  BY <1>1, Invariant, PTL

-----------------------------------------------------------------------------
(* BullyElection *)

\* The order of the keys is the order of the ids
Aligned == \A a, b \in Nodes : Less(a, b) <=> a < b

\* No framework is its own peer
OthersOnly ==
    \A n \in Nodes : /\ n \notin peers[n] /\ n \notin work[n].todo
                     /\ \A q \in inbox[n] : q.from # n

BullyInv == BullyTypeOK /\ OthersOnly

LEMMA NoOneIsNoNode == NoOne \notin Nodes
BY BullyAssumption DEF NoOne

\* Sends keep the inboxes well-formed
LEMMA SendKeeps ==
    ASSUME BullyInv, NEW n \in Nodes, NEW p \in Nodes, p # n, NEW t \in MsgTypes, Send(n, p, t)
    PROVE  /\ inbox' \in [Nodes -> SUBSET Messages]
           /\ \A m \in Nodes : \A q \in inbox'[m] : q.from # m
<1> DEFINE q0 == [from |-> n, type |-> t]
<1>1. q0 \in Messages /\ q0.from = n
  BY DEF Messages
<1>2. inbox' = [inbox EXCEPT ![p] = @ \cup {q0}] \/ inbox' = inbox
  BY DEF Send, Reach
<1> HIDE DEF q0
<1> QED
  BY <1>1, <1>2 DEF BullyInv, BullyTypeOK, OthersOnly

\* A leader that is down is replaced by the framework itself or by a peer
LEMMA NextLeaderIs ==
    ASSUME NEW n \in Nodes, NEW S \in SUBSET Nodes
    PROVE  \/ NextLeader(n, S) = n
           \/ /\ NextLeader(n, S) \in S
              /\ \E p \in S : ~Less(p, n) /\ p <= NextLeader(n, S)
<1>1. CASE is_biggest_in_peers(n, S)
  BY <1>1 DEF NextLeader
<1>2. CASE ~is_biggest_in_peers(n, S)
  <2>1. PICK p \in S : ~Less(p, n)
    BY <1>2 DEF is_biggest_in_peers
  <2>2. max_id_in_peers(S) \in S /\ \A o \in S : o <= max_id_in_peers(S)
    BY <2>1, LargestIdAssumption DEF max_id_in_peers
  <2> QED
    BY <1>2, <2>1, <2>2 DEF NextLeader
<1> QED
  BY <1>1, <1>2

LEMMA InitBullyInv == BullyInit => BullyInv
BY BullyAssumption DEF BullyInit, BullyInv, BullyTypeOK, OthersOnly, Works, Sleep, Messages

LEMMA SleepIs == Sleep \in Works /\ Sleep.to = NoOne /\ Sleep.todo = {} /\ Sleep.at = "sleep"
BY DEF Sleep, Works

LEMMA HandleStep ==
    ASSUME BullyInv, NEW n \in Nodes, NEW q \in inbox[n], Handle(n, q)
    PROVE  BullyInv'
<1>1. q \in Messages /\ q.from \in Nodes /\ q.from # n
  BY DEF BullyInv, BullyTypeOK, OthersOnly, Messages
<1>2. PICK w \in Nodes \cup {NoOne} : work' = [work EXCEPT ![q.from].to = w]
                                      /\ (w # NoOne => w = work[q.from].to)
  BY <1>1 DEF Handle, BullyInv, BullyTypeOK, Works
<1>3. work' \in [Nodes -> Works] /\ \A m \in Nodes : work'[m].to # NoOne => work'[m].at # "sleep"
  BY <1>1, <1>2 DEF BullyInv, BullyTypeOK, Works
<1>4. \A m \in Nodes : work'[m].todo = work[m].todo
  BY <1>1, <1>2 DEF BullyInv, BullyTypeOK, Works
<1>5. peers' \in [Nodes -> SUBSET Nodes] /\ \A m \in Nodes : m \notin peers'[m]
  BY <1>1 DEF Handle, BullyInv, BullyTypeOK, OthersOnly
<1>6. inbox' \in [Nodes -> SUBSET Messages] /\ \A m \in Nodes : inbox'[m] \subseteq inbox[m]
  BY DEF Handle, BullyInv, BullyTypeOK
<1>7. leader' \in [Nodes -> Nodes \cup {NoOne}]
  BY <1>1 DEF Handle, BullyInv, BullyTypeOK, AfterVictory, AfterPing
<1> QED
  BY <1>3, <1>4, <1>5, <1>6, <1>7 DEF Handle, BullyInv, BullyTypeOK, OthersOnly

LEMMA BeginsStep ==
    ASSUME BullyInv, NEW n \in Nodes, Begins(n)
    PROVE  BullyInv'
<1>1. CASE LeadRound(n)
  BY <1>1 DEF LeadRound, BullyInv, BullyTypeOK, OthersOnly
<1>2. CASE VictoryRound(n)
  <2> DEFINE w == [Sleep EXCEPT !.at = "victory", !.todo = peers[n]]
  <2>1. w \in Works /\ w.to = NoOne /\ w.todo = peers[n]
    BY DEF Sleep, Works, BullyInv, BullyTypeOK
  <2>2. work' = [work EXCEPT ![n] = w] /\ UNCHANGED <<alive, leader, peers, inbox, stops>>
    BY <1>2 DEF VictoryRound
  <2> HIDE DEF w
  <2> QED
    BY <2>1, <2>2 DEF BullyInv, BullyTypeOK, OthersOnly
<1>3. CASE PingRound(n)
  <2> DEFINE w == [Sleep EXCEPT !.at = "ping", !.to = leader[n]]
  <2>1. leader[n] \in Nodes /\ leader[n] # n
    BY <1>3 DEF PingRound, BullyInv, BullyTypeOK
  <2>2. w \in Works /\ w.at = "ping" /\ w.todo = {}
    BY <2>1 DEF Sleep, Works
  <2>3. work' = [work EXCEPT ![n] = w] /\ UNCHANGED <<alive, leader, peers, stops>>
    BY <1>3 DEF PingRound
  <2>4. /\ inbox' \in [Nodes -> SUBSET Messages]
        /\ \A m \in Nodes : \A q \in inbox'[m] : q.from # m
    BY <1>3, <2>1, SendKeeps DEF PingRound, MsgTypes
  <2> HIDE DEF w
  <2> QED
    BY <2>2, <2>3, <2>4 DEF BullyInv, BullyTypeOK, OthersOnly
<1> QED
  BY <1>1, <1>2, <1>3 DEF Begins

LEMMA GoesOnStep ==
    ASSUME BullyInv, NEW n \in Nodes, GoesOn(n)
    PROVE  BullyInv'
<1>1. CASE SendVictory(n)
  <2>1. PICK p \in work[n].todo : /\ work' = [work EXCEPT ![n].to = p, ![n].todo = @ \ {p}]
                                  /\ Send(n, p, "victory")
    BY <1>1 DEF SendVictory
  <2>2. p \in Nodes /\ p # n
    BY <2>1 DEF BullyInv, BullyTypeOK, OthersOnly, Works
  <2>3. /\ inbox' \in [Nodes -> SUBSET Messages]
        /\ \A m \in Nodes : \A q \in inbox'[m] : q.from # m
    BY <2>1, <2>2, SendKeeps DEF MsgTypes
  <2>4. work' \in [Nodes -> Works] /\ \A m \in Nodes : work'[m].at = work[m].at
    BY <2>1, <2>2 DEF BullyInv, BullyTypeOK, Works
  <2>5. \A m \in Nodes : /\ work'[m].todo \subseteq work[m].todo
                         /\ m # n => work'[m].to = work[m].to
    BY <2>1, <2>2 DEF BullyInv, BullyTypeOK, Works
  <2> QED
    BY <1>1, <2>3, <2>4, <2>5 DEF SendVictory, BullyInv, BullyTypeOK, OthersOnly
<1>2. CASE VictoriesSent(n)
  BY <1>2, SleepIs
     DEF VictoriesSent, PeersAfterVictories, RoundOver, BullyInv, BullyTypeOK, OthersOnly
<1>3. CASE PingAnswered(n)
  BY <1>3, SleepIs DEF PingAnswered, RoundOver, BullyInv, BullyTypeOK, OthersOnly
<1>4. CASE VictoryFails(n)
  <2>1. work[n].to \in Nodes
    BY <1>4 DEF VictoryFails, BullyInv, BullyTypeOK, Works
  <2>2. work' \in [Nodes -> Works]
    BY <1>4, <2>1 DEF VictoryFails, BullyInv, BullyTypeOK, Works
  <2>3. \A m \in Nodes : /\ work'[m].todo = work[m].todo /\ work'[m].at = work[m].at
                         /\ work'[m].to \in {work[m].to, NoOne}
    BY <1>4 DEF VictoryFails, BullyInv, BullyTypeOK, Works
  <2> QED
    BY <1>4, <2>2, <2>3 DEF VictoryFails, BullyInv, BullyTypeOK, OthersOnly
<1>5. CASE PingFails(n)
  <2> DEFINE rest == peers[n] \ {leader[n]}
  <2>1. rest \in SUBSET Nodes
    BY DEF BullyInv, BullyTypeOK
  <2>2. NextLeader(n, rest) \in Nodes
    BY <2>1, NextLeaderIs
  <2> QED
    BY <1>5, <2>1, <2>2, SleepIs DEF PingFails, RoundOver, BullyInv, BullyTypeOK, OthersOnly
<1> QED
  BY <1>1, <1>2, <1>3, <1>4, <1>5 DEF GoesOn

LEMMA AnnounceStep ==
    ASSUME BullyInv, NEW n \in Nodes, NEW p \in Nodes, Announce(n, p)
    PROVE  BullyInv'
<1>1. /\ inbox' \in [Nodes -> SUBSET Messages]
      /\ \A m \in Nodes : \A q \in inbox'[m] : q.from # m
  BY SendKeeps DEF Announce, Send, MsgTypes
<1> QED
  BY <1>1 DEF Announce, BullyInv, BullyTypeOK, OthersOnly

LEMMA StopStep == ASSUME BullyInv, NEW n \in Nodes, Stop(n) PROVE BullyInv'
BY SleepIs, BullyAssumption DEF Stop, BullyInv, BullyTypeOK, OthersOnly

LEMMA StartStep == ASSUME BullyInv, NEW n \in Nodes, Start(n) PROVE BullyInv'
BY DEF Start, BullyInv, BullyTypeOK, OthersOnly

LEMMA NextBullyInv == BullyInv /\ [BullyNext]_bullyVars => BullyInv'
<1> SUFFICES ASSUME BullyInv, [BullyNext]_bullyVars PROVE BullyInv'
  OBVIOUS
<1>1. ASSUME NEW n \in Nodes, NEW q \in inbox[n], Handle(n, q) PROVE BullyInv'
  BY <1>1, HandleStep
<1>2. ASSUME NEW n \in Nodes, Begins(n) PROVE BullyInv'
  BY <1>2, BeginsStep
<1>3. ASSUME NEW n \in Nodes, GoesOn(n) PROVE BullyInv'
  BY <1>3, GoesOnStep
<1>4. ASSUME NEW n \in Nodes, NEW p \in Nodes, Announce(n, p) PROVE BullyInv'
  BY <1>4, AnnounceStep
<1>5. ASSUME NEW n \in Nodes, Stop(n) PROVE BullyInv'
  BY <1>5, StopStep
<1>6. ASSUME NEW n \in Nodes, Start(n) PROVE BullyInv'
  BY <1>6, StartStep
<1>7. CASE UNCHANGED bullyVars
  BY <1>7 DEF bullyVars, BullyInv, BullyTypeOK, OthersOnly
<1> QED
  BY <1>1, <1>2, <1>3, <1>4, <1>5, <1>6, <1>7 DEF BullyNext, Handles

\* The type invariant, for any weights
THEOREM BullyTypeCorrect == BullySpec => []BullyTypeOK
<1>1. BullyInv => BullyTypeOK
  BY DEF BullyInv
<1> QED
  BY <1>1, InitBullyInv, NextBullyInv, PTL DEF BullySpec

-----------------------------------------------------------------------------

LEMMA FollowsStep ==
    ASSUME Aligned, BullyInv, FollowsBigger, [BullyNext]_bullyVars
    PROVE  FollowsBigger'
<1> SUFFICES ASSUME NEW m \in Nodes, leader'[m] # NoOne PROVE ~Less(leader'[m], m)
  BY DEF FollowsBigger, Less
<1>1. CASE UNCHANGED leader
  BY <1>1 DEF FollowsBigger
<1>2. ASSUME NEW n \in Nodes, NEW q \in inbox[n], Handle(n, q)
      PROVE  ~Less(leader'[m], m)
  BY <1>2 DEF Handle, AfterVictory, AfterPing, BullyInv, BullyTypeOK, FollowsBigger
<1>3. ASSUME NEW n \in Nodes, LeadRound(n)
      PROVE  ~Less(leader'[m], m)
  <2>1. ~Less(n, n)
    BY BullyAssumption DEF Aligned
  <2> QED
    BY <1>3, <2>1 DEF LeadRound, BullyInv, BullyTypeOK, FollowsBigger
<1>4. ASSUME NEW n \in Nodes, PingFails(n)
      PROVE  ~Less(leader'[m], m)
  <2> DEFINE rest == peers[n] \ {leader[n]}
             l == NextLeader(n, rest)
  <2>1. rest \in SUBSET Nodes /\ n \notin rest /\ n \in Nat
    BY BullyAssumption DEF BullyInv, BullyTypeOK, OthersOnly
  <2>2. ~Less(l, n)
    <3>1. CASE l = n
      BY <2>1, <3>1 DEF Aligned
    <3>2. CASE l # n
      <4>1. PICK p \in rest : l \in rest /\ ~Less(p, n) /\ p <= l
        BY <2>1, <3>2, NextLeaderIs
      <4>2. p \in Nat /\ l \in Nat /\ p \in Nodes /\ l \in Nodes
        BY <2>1, <4>1, BullyAssumption
      <4>3. ~(l < n)
        BY <2>1, <4>1, <4>2 DEF Aligned
      <4> QED
        BY <4>2, <4>3 DEF Aligned
    <3> QED
      BY <3>1, <3>2
  <2>3. leader' = [leader EXCEPT ![n] = l]
    BY <1>4 DEF PingFails
  <2> HIDE DEF l, rest
  <2> QED
    BY <2>2, <2>3 DEF BullyInv, BullyTypeOK, FollowsBigger
<1>5. ASSUME NEW n \in Nodes, Stop(n)
      PROVE  ~Less(leader'[m], m)
  BY <1>5 DEF Stop, BullyInv, BullyTypeOK, FollowsBigger
<1> QED
  BY <1>1, <1>2, <1>3, <1>4, <1>5
     DEF BullyNext, bullyVars, Handles, Begins, GoesOn, VictoryRound, PingRound, SendVictory,
         VictoriesSent, PingAnswered, VictoryFails, Announce, Start

\* on_msg_victory, on_msg_ping and the choice of the next leader: a framework never
\* follows one with a smaller key, when the weights do not contradict the ids
THEOREM NobodyFollowsASmaller == ASSUME Aligned PROVE BullySpec => []FollowsBigger
<1>1. BullyInit => FollowsBigger
  BY DEF BullyInit, FollowsBigger
<1>2. BullyInv /\ FollowsBigger /\ [BullyNext]_bullyVars => BullyInv' /\ FollowsBigger'
  BY NextBullyInv, FollowsStep
<1> QED
  BY <1>1, <1>2, InitBullyInv, PTL DEF BullySpec
=============================================================================
