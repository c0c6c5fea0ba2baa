---------------------------- MODULE QueryRouting ----------------------------
(***************************************************************************)
(* The path of one private DNS query: the dnsdist rules and the CoreDNS    *)
(* contexts a serving member renders from its snapshot                     *)
(* (internal/internaldns/serving/render.go), and how CoreDNS answers from  *)
(* them (internal/internaldns/coredns: config.go, plugin.go, identity.go). *)
(* A node without authority forwards to the regional tier, where dnsdist   *)
(* and CoreDNS classify the query once more.                               *)
(*                                                                         *)
(* The four daemons on the path load a changed snapshot at different       *)
(* times, in any order.  A name is the sequence of its labels; contexts    *)
(* are told apart by the destination address, here the context itself.     *)
(* Only the snapshot of the context Varied changes; every other context    *)
(* has the first apex attached and ready, as an independent zone.          *)
(***************************************************************************)
EXTENDS Naturals, Sequences, FiniteSets, SequencesExt

CONSTANTS
    Contexts,     \* resolver contexts
    Varied,       \* the context whose attachments change
    Apexes,       \* apexes a zone may be attached at, as label sequences
    QNames,       \* names asked for
    None,         \* no context, no zone
    MaxSwaps      \* bound: snapshot changes

VARIABLES
    qrRole,      \* "authoritative" or "forwarding" node
    qrKeyed,     \* the daemons share an identity key
    qrDesired,   \* the newest snapshot of Varied
    qrLoaded,    \* the snapshot each daemon on the path runs
    qrMinimum,   \* history: apexes attached in every snapshot of this query
    qrQuery,     \* the query under way
    qrAt,        \* the daemon that has it, or "client"
    qrAnswer,    \* the outcome the client saw
    qrSwaps

qrVars == <<qrRole, qrKeyed, qrDesired, qrLoaded, qrMinimum, qrQuery, qrAt,
            qrAnswer, qrSwaps>>

Daemons == {"nodeDist", "nodeCore", "regionDist", "regionCore"}

(* A zone attachment: absent; pending; behind its required publication (or
   its publication absent or a tombstone); current here but not yet proven
   by a regional member; ready. *)
ZoneStates == {"absent", "pending", "behind", "unproven", "ready"}
Snapshots ==
    {s \in [pending : BOOLEAN, zones : [Apexes -> ZoneStates]] :
        s.pending => \A a \in Apexes : s.zones[a] = "absent"}
FirstApex == CHOOSE a \in Apexes : \A b \in Apexes : Len(a) <= Len(b)
Fixed == [pending |-> FALSE,
          zones |-> [a \in Apexes |-> IF a = FirstApex THEN "ready" ELSE "absent"]]
SnapshotOf(c, s) == IF c = Varied THEN s ELSE Fixed
Attached(s) == {a \in Apexes : s.zones[a] # "absent"}

Idle == [dest |-> None, name |-> <<>>, kind |-> "none", identity |-> "none"]

RoutingInit ==
    /\ qrRole \in {"authoritative", "forwarding"}
    /\ qrKeyed \in BOOLEAN
    /\ qrDesired \in Snapshots
    /\ qrLoaded = [d \in Daemons |-> qrDesired]
    /\ qrMinimum = {} /\ qrQuery = Idle
    /\ qrAt = "client" /\ qrAnswer = <<"none">> /\ qrSwaps = 0

----------------------------------------------------------------------------
(* Names *)

(* A name is at or below an apex. *)
Under(name, apex) == IsSuffix(apex, name)

(* Fault operator for MatchZone: any covering apex, the shortest first. *)
MatchShortest(apexes, name) ==
    LET hits == {a \in apexes : Under(name, a)}
    IN IF hits = {} THEN None
       ELSE CHOOSE a \in hits : \A b \in hits : Len(a) <= Len(b)

(* matchZone: walk the labels of the name toward the root. *)
MatchZone(apexes, name) ==
    LET tails == [i \in 1 .. Len(name) |-> SubSeq(name, i, Len(name))]
        hits == {i \in DOMAIN tails : tails[i] \in apexes}
    IN IF hits = {} THEN None
       ELSE tails[CHOOSE i \in hits : \A j \in hits : i <= j]

----------------------------------------------------------------------------
(* dnsdist: an ordered list of <<condition, action>>; the first whose
   condition holds decides. *)

FirstMatch(rules) ==
    rules[CHOOSE i \in DOMAIN rules :
             rules[i][1] /\ \A j \in 1 .. i - 1 : ~rules[j][1]][2]

(* eligibleRegionalMembers, for one zone. *)
HasReadyMember(state) == state = "ready"

(* The attachments, longest apex first. *)
SortedZones(s) == SetToSortSeq(Attached(s), LAMBDA a, b : Len(a) > Len(b))

(* The zone rules of renderDNSDist.  Only a regional dnsdist sends a ready
   zone to a pool of its own; on a node it has no rule. *)
ZoneRules(regional, s, tagged, name) ==
    LET zones == SortedZones(s)
        Rule(a) == <<tagged /\ Under(name, a),
                     IF HasReadyMember(s.zones[a]) THEN "pool" ELSE "SERVFAIL">>
    IN SelectSeq([i \in DOMAIN zones |-> Rule(zones[i])],
                 LAMBDA r : regional \/ r[2] # "pool")

(* The readiness canary of renderDNSDistReadinessCanary. *)
CanaryRules(q) == << <<q.kind = "canary", "pool">> >>

(* renderDNSDist: tag by destination, refuse what has no context, fail what
   is not ready, then the zones, then the shared pool (taken available). *)
DNSDistRules(regional, loaded, q) ==
    LET known == q.dest \in Contexts
        s == SnapshotOf(q.dest, loaded)
    IN CanaryRules(q)
       \o << <<~known, "REFUSED">>, <<known /\ s.pending, "SERVFAIL">> >>
       \o (IF known THEN ZoneRules(regional, s, TRUE, q.name) ELSE <<>>)
       \o << <<TRUE, "pool">> >>

(* SetEDNSOptionAction: a classified query, and the canary, carry the
   daemons' own identity; a copy the client sent is replaced. *)
Identified(q) == IF qrKeyed THEN [q EXCEPT !.identity = "keyed"] ELSE q

----------------------------------------------------------------------------
(* CoreDNS *)

(* renderNodeCoreDNS and renderClusterCoreDNS: whether a zone is rendered
   as pending. *)
RenderPending(daemon, state) ==
    IF daemon = "nodeCore" /\ qrRole = "forwarding" THEN state = "pending"
    ELSE state \in {"pending", "behind"}

(* A forwarding node sends every name of a context to the regional tier. *)
HasNext(daemon) == daemon = "nodeCore" /\ qrRole = "forwarding"

(* identityDestination and destination: with a key, exactly one valid copy
   of the option names the context; without it, the PROXY header does. *)
DestinationKnown(q) == qrKeyed => q.identity = "keyed"

(* ContextPlugin.serve. *)
Serve(daemon, loaded, q) ==
    LET s == SnapshotOf(q.dest, loaded)
        apex == MatchZone(Attached(s), q.name)
    IN CASE q.kind = "canary" ->
              IF DestinationKnown(q) THEN <<"canary">> ELSE <<"SERVFAIL">>
         [] q.kind # "canary" /\ (~DestinationKnown(q) \/ q.dest \notin Contexts) ->
              <<"REFUSED">>
         [] OTHER ->
              IF s.pending THEN <<"SERVFAIL">>
              ELSE IF q.kind = "transfer" THEN <<"REFUSED">>
              ELSE IF apex # None /\ RenderPending(daemon, s.zones[apex])
                   THEN <<"SERVFAIL">>
              ELSE IF HasNext(daemon) THEN <<"next">>
              ELSE IF apex # None THEN <<"zone", q.dest, apex>>
              ELSE <<"public">>

----------------------------------------------------------------------------
(* Steps *)

(* A client asks; the query may already carry a copy of the option. *)
Ask ==
    /\ qrAt = "client" /\ qrQuery = Idle
    /\ \E d \in Contexts \cup {None}, n \in QNames, k \in {"query", "transfer"},
          i \in IF qrKeyed THEN {"none", "client"} ELSE {"none"} :
          qrQuery' = [dest |-> d, name |-> n, kind |-> k, identity |-> i]
    /\ qrAt' = "nodeDist" /\ qrAnswer' = <<"none">>
    /\ qrMinimum' = {a \in Apexes : \A d \in Daemons : a \in Attached(qrLoaded[d])}
    /\ UNCHANGED <<qrRole, qrKeyed, qrDesired, qrLoaded, qrSwaps>>

(* The readiness probe of the member asks its own dnsdist. *)
Probe ==
    /\ qrAt = "client" /\ qrQuery = Idle
    /\ qrQuery' = [dest |-> None, name |-> <<"ready">>, kind |-> "canary",
                   identity |-> "none"]
    /\ qrAt' = "nodeDist" /\ qrAnswer' = <<"none">> /\ qrMinimum' = {}
    /\ UNCHANGED <<qrRole, qrKeyed, qrDesired, qrLoaded, qrSwaps>>

Reply(answer) == qrAt' = "client" /\ qrAnswer' = answer

AtDNSDist(dist, core) ==
    /\ qrAt = dist
    /\ LET act == FirstMatch(DNSDistRules(dist = "regionDist", qrLoaded[dist], qrQuery))
       IN IF act = "pool"
          THEN /\ qrAt' = core /\ qrQuery' = Identified(qrQuery)
               /\ UNCHANGED qrAnswer
          ELSE Reply(<<act>>) /\ UNCHANGED qrQuery
    /\ UNCHANGED <<qrRole, qrKeyed, qrDesired, qrLoaded, qrMinimum, qrSwaps>>

(* ServeDNS.  A forwarded query reaches the regional tier without the
   option, which every copy of is stripped, at the context's own regional
   address. *)
AtCoreDNS(core) ==
    /\ qrAt = core
    /\ LET answer == Serve(core, qrLoaded[core], qrQuery)
       IN IF answer = <<"next">>
          THEN /\ qrAt' = "regionDist"
               /\ qrQuery' = [qrQuery EXCEPT !.identity = "none"]
               /\ UNCHANGED qrAnswer
          ELSE Reply(answer) /\ UNCHANGED qrQuery
    /\ UNCHANGED <<qrRole, qrKeyed, qrDesired, qrLoaded, qrMinimum, qrSwaps>>

(* A CNAME that leaves its zone: the follow-up keeps the destination that
   the query selected and has no identity option of its own. *)
FollowCNAME ==
    /\ qrAnswer[1] = "zone" /\ qrQuery.kind = "query"
    /\ \E n \in QNames, core \in {"nodeCore", "regionCore"} :
          /\ core = (IF qrRole = "forwarding" THEN "regionCore" ELSE "nodeCore")
          /\ LET q == [qrQuery EXCEPT !.name = n, !.kind = "follow",
                                      !.identity = IF qrKeyed THEN "keyed" ELSE "none"]
             IN qrQuery' = q /\ qrAnswer' = Serve(core, qrLoaded[core], q)
    /\ UNCHANGED <<qrRole, qrKeyed, qrDesired, qrLoaded, qrMinimum, qrAt, qrSwaps>>

(* A new snapshot arrives: one zone or the context changes. *)
Swap ==
    /\ qrSwaps < MaxSwaps /\ qrSwaps' = qrSwaps + 1
    /\ \/ \E a \in Apexes, z \in ZoneStates :
             /\ ~qrDesired.pending /\ z # qrDesired.zones[a]
             /\ qrDesired' = [qrDesired EXCEPT !.zones[a] = z]
       \/ qrDesired' = [pending |-> ~qrDesired.pending,
                        zones |-> [a \in Apexes |-> "absent"]]
    /\ UNCHANGED <<qrRole, qrKeyed, qrLoaded, qrMinimum, qrQuery, qrAt, qrAnswer>>

(* Replace, or a reload of the rules: one daemon loads the newest. *)
Replace(d) ==
    /\ qrLoaded[d] # qrDesired
    /\ qrLoaded' = [qrLoaded EXCEPT ![d] = qrDesired]
    /\ qrMinimum' = qrMinimum \cap Attached(qrDesired)
    /\ UNCHANGED <<qrRole, qrKeyed, qrDesired, qrQuery, qrAt, qrAnswer, qrSwaps>>

RoutingNext ==
    \/ Ask \/ Probe \/ FollowCNAME \/ Swap
    \/ AtDNSDist("nodeDist", "nodeCore") \/ AtDNSDist("regionDist", "regionCore")
    \/ AtCoreDNS("nodeCore") \/ AtCoreDNS("regionCore")
    \/ \E d \in Daemons : Replace(d)

----------------------------------------------------------------------------
(* Properties *)

(* A name under an apex that stays attached on every daemon while the query
   is under way is never answered by public recursion, whatever the state of
   the zone and however the daemons' reloads interleave; and an answer from
   a zone comes from the client's own context and from the most specific
   apex that context has attached ("Its names cannot fall through to public
   recursion", docs/private-dns/deployment.md; matchZone, serve). *)
PrivateStaysPrivate ==
    /\ qrAnswer = <<"public">> =>
         \A a \in qrMinimum : ~(qrQuery.dest = Varied /\ Under(qrQuery.name, a))
    /\ qrAnswer[1] = "zone" =>
         /\ qrAnswer[2] = qrQuery.dest
         /\ Under(qrQuery.name, qrAnswer[3])
         /\ (qrQuery.dest = Varied) =>
              \A a \in qrMinimum : Under(qrQuery.name, a) => Len(a) <= Len(qrAnswer[3])
=============================================================================
