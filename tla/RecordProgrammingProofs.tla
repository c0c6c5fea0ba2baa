----------------------- MODULE RecordProgrammingProofs -----------------------
(***************************************************************************)
(* Nothing a record set wrote outlives it, and nothing of a zone outlives  *)
(* the zone, for any record sets, specs, changes, failures and restarts.   *)
(* Where record sets list different RRsets, as admission asks of them, no  *)
(* pass deletes what another wrote, and Programmed=True is true.           *)
(*                                                                         *)
(* The argument: a finalizer comes before the first write and goes after   *)
(* the last.  What decides is the operator's cache, which lags; so the     *)
(* invariant says what the cache may still show (Held, ZoneHeld): a copy   *)
(* with the finalizer is of an object that has it, and a copy that is      *)
(* being deleted is of no object that has it and lives.                    *)
(*                                                                         *)
(* Where record sets list different RRsets, a pass works on a copy that is *)
(* the object as it is or as it was (Behind); while the object reports its *)
(* present generation neither the cache nor a writing pass is of an older  *)
(* one (Current, Working), so no late pass undoes what was reported.       *)
(***************************************************************************)
EXTENDS RecordProgramming, TLAPS

Writing == {"read", "patch", "prune", "status"}
Removing == {"targets", "delete", "release"}

OwnedBy(r) == {k \in Keys : rr[k] # None /\ rr[k].owner = r}

Settled(o) == o.state = "live" /\ o.finalizer

\* The DNSZone's finalizer covers the zone in PowerDNS.
ZoneHeld ==
    /\ zone.state = "deleting" => zone.finalizer
    /\ zone.state = "absent" => ~zone.finalizer
    /\ pzone => zone.finalizer
    /\ \A k \in Keys : rr[k] # None => pzone
    /\ zcache.state = "live" /\ zcache.finalizer => zone.finalizer
    /\ zcache.state = "deleting" => zone.state # "live"
    /\ zat \in {"drop", "release"} => zone.state # "live" /\ zcache.state # "live"
    /\ zat = "release" => ~pzone

\* A record set's finalizer covers its passes and what they wrote.
HeldAs(o, c, p, owned) ==
    /\ o.state = "deleting" => o.finalizer
    /\ o.state = "absent" => ~o.finalizer
    /\ p.at \in Writing => o.finalizer
    /\ owned # {} => o.finalizer
    /\ Settled(c) => o.finalizer
    /\ c.state = "deleting" \/ p.at \in Removing => ~Settled(o)
    /\ p.at \in Removing => ~Settled(c)
    /\ p.at = "delete" => owned \subseteq p.todo
    /\ p.at = "release" => owned = {}
Held(r) == HeldAs(obj[r], cache[r], pass[r], OwnedBy(r))

\* TypeOK without the bounds.
Typed ==
    /\ obj \in [RecordSets -> Object]
    /\ cache \in [RecordSets -> Object]
    /\ queue \subseteq RecordSets
    /\ pass \in [RecordSets -> Pass]
    /\ zone \in Zone /\ zcache \in Zone
    /\ zqueued \in BOOLEAN
    /\ zat \in {"idle", "programmed", "drop", "release"}
    /\ pzone \in BOOLEAN
    /\ rr \in [Keys -> Stamp \cup {None}]

Covered == Typed /\ ZoneHeld /\ \A r \in RecordSets : Held(r)

IInv == TypeOK /\ Covered

-----------------------------------------------------------------------------
(* Records *)

\* What Kubernetes leaves of an object whose finalizer is removed, or that a
\* user deletes, is an object.
LEMMA ObjectFacts ==
    ASSUME NEW o \in Object
    PROVE  /\ NoObject \in Object /\ NoPass \in Pass /\ NoPass.at = "idle"
           /\ o.finalizer \in BOOLEAN /\ o.state \in {"absent", "live", "deleting"}
           /\ Released(o) \in Object /\ Deleted(o) \in Object
           /\ ~Released(o).finalizer
           /\ Released(o).state = (IF o.state = "deleting" THEN "absent" ELSE o.state)
           /\ Deleted(o).finalizer => o.finalizer
           /\ o.finalizer => Deleted(o).finalizer
           /\ Deleted(o).state = (IF o.state # "live" THEN o.state
                                  ELSE IF o.finalizer THEN "deleting" ELSE "absent")
<1>1. NoStatus \in Status
  BY Zenon DEF NoStatus, Status
<1>2. NoObject \in Object
  BY <1>1, Zenon DEF NoObject, Object
<1>3. NoPass \in Pass /\ NoPass.at = "idle"
  BY <1>2, Zenon DEF NoPass, Pass, Steps
<1>4. [NoObject EXCEPT !.uid = o.uid] \in Object
  BY <1>2, Zenon DEF Object
<1>5. /\ [NoObject EXCEPT !.uid = o.uid].state = "absent"
      /\ [NoObject EXCEPT !.uid = o.uid].finalizer = FALSE
  BY Zenon DEF NoObject
<1>6. [o EXCEPT !.finalizer = FALSE] \in Object /\ [o EXCEPT !.state = "deleting"] \in Object
  BY Zenon DEF Object
<1>7. /\ [o EXCEPT !.finalizer = FALSE].state = o.state
      /\ [o EXCEPT !.finalizer = FALSE].finalizer = FALSE
      /\ [o EXCEPT !.state = "deleting"].state = "deleting"
      /\ [o EXCEPT !.state = "deleting"].finalizer = o.finalizer
      /\ o.finalizer \in BOOLEAN /\ o.state \in {"absent", "live", "deleting"}
  BY Zenon DEF Object
<1> HIDE DEF NoObject, NoPass
<1>8. /\ Released(o) \in Object /\ ~Released(o).finalizer
      /\ Released(o).state = (IF o.state = "deleting" THEN "absent" ELSE o.state)
  BY <1>4, <1>5, <1>6, <1>7, Zenon DEF Released
<1>9. /\ Deleted(o) \in Object
      /\ Deleted(o).finalizer => o.finalizer
      /\ o.finalizer => Deleted(o).finalizer
      /\ Deleted(o).state = (IF o.state # "live" THEN o.state
                             ELSE IF o.finalizer THEN "deleting" ELSE "absent")
  <2>1. CASE o.state # "live"
    BY <2>1, Zenon DEF Deleted
  <2>2. CASE o.state = "live" /\ o.finalizer
    <3>1. Deleted(o) = [o EXCEPT !.state = "deleting"]
      BY <2>2, <1>7, Zenon DEF Deleted
    <3> HIDE DEF Deleted
    <3> QED BY <2>2, <3>1, <1>6, <1>7, Zenon
  <2>3. CASE o.state = "live" /\ ~o.finalizer
    <3>1. Deleted(o) = [NoObject EXCEPT !.uid = o.uid]
      BY <2>3, <1>7, Zenon DEF Deleted
    <3> QED BY <2>3, <3>1, <1>4, <1>5, Zenon
  <2> QED BY <2>1, <2>2, <2>3, Zenon
<1> QED BY <1>2, <1>3, <1>7, <1>8, <1>9, Zenon

-----------------------------------------------------------------------------
(* Steps *)

\* A step of one record set changes nothing of the others: it deletes, or
\* writes what it owns into a zone that PowerDNS has.
LEMMA RecordStep ==
    ASSUME Covered, NEW r \in RecordSets, Typed', Held(r)', UNCHANGED <<zoneVars, pzone>>,
           \A q \in RecordSets \ {r} :
             obj'[q] = obj[q] /\ cache'[q] = cache[q] /\ pass'[q] = pass[q],
           \A k \in Keys :
             rr'[k] = rr[k] \/ rr'[k] = None \/ (pzone /\ rr'[k].owner = r)
    PROVE  Covered'
<1>1. ZoneHeld'
  BY Zenon DEF Covered, ZoneHeld, zoneVars
<1>2. ASSUME NEW q \in RecordSets \ {r} PROVE Held(q)'
  <2>1. OwnedBy(q)' \subseteq OwnedBy(q)
    BY Zenon DEF OwnedBy
  <2>2. /\ Held(q) /\ obj'[q] = obj[q] /\ cache'[q] = cache[q] /\ pass'[q] = pass[q]
    BY Zenon DEF Covered
  <2> QED BY <2>1, <2>2, Zenon DEF Held, HeldAs, Settled
<1> QED BY <1>1, <1>2, Zenon DEF Covered

\* A step of the zone leaves the record sets and their passes alone, and
\* nobody owns more than before.
LEMMA ZoneStep ==
    ASSUME Covered, Typed', ZoneHeld', UNCHANGED <<obj, cache, pass>>,
           \A k \in Keys : rr'[k] \in {rr[k], None, Unowned}
    PROVE  Covered'
<1>1. ASSUME NEW q \in RecordSets PROVE Held(q)'
  <2>1. OwnedBy(q)' \subseteq OwnedBy(q)
    BY ConstantsAssumption DEF OwnedBy, Unowned
  <2> QED BY <2>1, Zenon DEF Covered, Held, HeldAs, Settled
<1> QED BY <1>1, Zenon DEF Covered

\* What a record set's step may rely on.
LEMMA Facts ==
    ASSUME Covered, NEW r \in RecordSets
    PROVE  /\ Typed /\ ZoneHeld /\ Held(r)
           /\ obj[r] \in Object /\ cache[r] \in Object /\ pass[r] \in Pass
BY Zenon DEF Covered, Typed

\* Users create, edit and delete, and Kubernetes collects garbage: an object
\* leaves at once only when it has no finalizer.
LEMMA UserStep ==
    ASSUME Covered, NEW r \in RecordSets,
           Create(r) \/ Edit(r) \/ Remove(r) \/ CollectGarbage(r)
    PROVE  Covered'
<1>f. /\ Typed /\ ZoneHeld /\ Held(r)
      /\ obj[r] \in Object /\ cache[r] \in Object /\ pass[r] \in Pass
  BY Facts, Zenon
<1>1. UNCHANGED <<cache, queue, pass, zoneVars, provider>>
  BY Zenon DEF Create, Edit, Remove, CollectGarbage, bounds
<1>2. \E o \in Object :
        /\ obj' = [obj EXCEPT ![r] = o]
        /\ \/ /\ obj[r].state = "absent" /\ o.state = "live" /\ ~o.finalizer
           \/ /\ obj[r].state = "live" /\ o.state = "live" /\ o.finalizer = obj[r].finalizer
           \/ /\ obj[r].state = "live" /\ o = Deleted(obj[r])
  <2>1. CASE Create(r)
    <3>1. PICK s \in SpecsOf[r] :
            obj' = [obj EXCEPT ![r] = [NoObject EXCEPT !.state = "live",
                                          !.uid = obj[r].uid + 1, !.gen = 1, !.spec = s]]
      BY <2>1, Zenon DEF Create
    <3> DEFINE o == [NoObject EXCEPT !.state = "live", !.uid = obj[r].uid + 1,
                                     !.gen = 1, !.spec = s]
    <3>2. s \in SUBSET Keys /\ obj[r].uid + 1 \in Nat /\ NoObject \in Object
      BY <1>f, ObjectFacts, ConstantsAssumption DEF Object
    <3>3. o \in Object
      BY <3>2, Zenon DEF Object
    <3>4. o.state = "live" /\ ~o.finalizer
      BY Zenon DEF NoObject
    <3> QED BY <2>1, <3>1, <3>3, <3>4, Zenon DEF Create
  <2>2. CASE Edit(r)
    <3>1. PICK s \in SpecsOf[r] : obj' = [obj EXCEPT ![r].spec = s, ![r].gen = @ + 1]
      BY <2>2, Zenon DEF Edit
    <3> DEFINE o == [obj[r] EXCEPT !.spec = s, !.gen = obj[r].gen + 1]
    <3>2. s \in SUBSET Keys /\ obj[r].gen + 1 \in Nat
      BY <1>f, ConstantsAssumption DEF Object
    <3>3. o \in Object /\ o.state = obj[r].state /\ o.finalizer = obj[r].finalizer
      BY <1>f, <3>2, Zenon DEF Object
    <3>4. obj' = [obj EXCEPT ![r] = o]
      BY <1>f, <3>1, Zenon DEF Typed, Object
    <3> HIDE DEF o
    <3> QED BY <2>2, <3>3, <3>4, Zenon DEF Edit
  <2>3. CASE Remove(r) \/ CollectGarbage(r)
    BY <1>f, <2>3, ObjectFacts, Zenon DEF Remove, CollectGarbage
  <2> QED BY <2>1, <2>2, <2>3, Zenon
<1>3. PICK o \in Object :
        /\ obj' = [obj EXCEPT ![r] = o]
        /\ \/ /\ obj[r].state = "absent" /\ o.state = "live" /\ ~o.finalizer
           \/ /\ obj[r].state = "live" /\ o.state = "live" /\ o.finalizer = obj[r].finalizer
           \/ /\ obj[r].state = "live" /\ o = Deleted(obj[r])
  BY <1>2, Zenon
<1>4. Typed'
  BY <1>f, <1>1, <1>3, Zenon DEF Typed, zoneVars, provider
<1>5. /\ obj'[r] = o /\ cache'[r] = cache[r] /\ pass'[r] = pass[r]
      /\ OwnedBy(r)' = OwnedBy(r)
  BY <1>f, <1>1, <1>3, Zenon DEF Typed, OwnedBy, provider
<1>6. /\ obj[r].finalizer => o.finalizer
      /\ o.finalizer => obj[r].finalizer
      /\ Settled(o) => Settled(obj[r])
      /\ o.state = "deleting" => o.finalizer
      /\ o.state = "absent" => ~o.finalizer
  BY <1>f, <1>3, ObjectFacts, Zenon DEF Held, HeldAs, Settled
<1>7. Held(r)'
  BY <1>f, <1>5, <1>6, Zenon DEF Held, HeldAs, Settled
<1> QED BY <1>1, <1>3, <1>4, <1>7, RecordStep, Zenon DEF Typed, provider

\* The watch of a record set.
LEMMA ObserveStep == ASSUME Covered, NEW r \in RecordSets, Observe(r) PROVE Covered'
<1>f. /\ Typed /\ ZoneHeld /\ Held(r)
      /\ obj[r] \in Object /\ cache[r] \in Object /\ pass[r] \in Pass
  BY Facts, Zenon
<1>1. /\ UNCHANGED <<obj, pass, zoneVars, provider>>
      /\ cache' = [cache EXCEPT ![r] = obj[r]]
      /\ queue' \subseteq RecordSets
  BY <1>f, Zenon DEF Observe, WaitingOn, Typed
<1>2. Typed'
  BY <1>f, <1>1, Zenon DEF Typed, zoneVars, provider
<1>3. Held(r)'
  <2>1. cache'[r] = obj[r] /\ OwnedBy(r)' = OwnedBy(r)
    BY <1>f, <1>1, Zenon DEF Typed, OwnedBy, provider
  <2> QED BY <1>f, <1>1, <2>1, Zenon DEF Held, HeldAs, Settled
<1> QED BY <1>1, <1>2, <1>3, RecordStep, Zenon DEF Typed, provider

\* A step of a record set's pass: it leaves the caches alone.
LEMMA PassStep ==
    ASSUME Covered, NEW r \in RecordSets, NEW o \in Object, NEW p \in Pass,
           obj' = [obj EXCEPT ![r] = o], pass' = [pass EXCEPT ![r] = p],
           queue' \subseteq RecordSets, UNCHANGED <<cache, zoneVars, pzone>>,
           rr' \in [Keys -> Stamp \cup {None}],
           \A k \in Keys :
             rr'[k] = rr[k] \/ rr'[k] = None \/ (pzone /\ rr'[k].owner = r),
           HeldAs(o, cache[r], p, OwnedBy(r)')
    PROVE  Covered'
<1>1. Typed'
  BY Zenon DEF Covered, Typed, zoneVars
<1>2. /\ obj'[r] = o /\ pass'[r] = p /\ cache'[r] = cache[r]
      /\ \A q \in RecordSets \ {r} : obj'[q] = obj[q] /\ pass'[q] = pass[q]
  BY Zenon DEF Covered, Typed
<1>3. Held(r)'
  BY <1>2, Zenon DEF Held
<1> QED BY <1>1, <1>2, <1>3, RecordStep, Zenon

\* A pass that ends.
LEMMA FinishFacts ==
    ASSUME Covered, NEW r \in RecordSets, NEW again, Finish(r, again)
    PROVE  /\ pass' = [pass EXCEPT ![r] = NoPass] /\ queue' \subseteq RecordSets
           /\ NoPass \in Pass /\ NoPass.at = "idle"
<1>1. cache[r] \in Object /\ Typed
  BY Facts, Zenon
<1> QED BY <1>1, ObjectFacts, Zenon DEF Finish, Typed

\* The passes that end before they call PowerDNS.
LEMMA IdleStep ==
    ASSUME Covered, NEW r \in RecordSets, Nothing(r) \/ Orphan(r) \/ Prepare(r)
    PROVE  Covered'
<1>f. /\ Typed /\ ZoneHeld /\ Held(r)
      /\ obj[r] \in Object /\ cache[r] \in Object /\ pass[r] \in Pass
  BY Facts, Zenon
<1>1. /\ UNCHANGED <<cache, zoneVars, pzone, rr>> /\ \E again : Finish(r, again)
  BY Zenon DEF Nothing, Orphan, Prepare, Elsewhere, provider
<1>2. /\ pass' = [pass EXCEPT ![r] = NoPass] /\ queue' \subseteq RecordSets
      /\ NoPass \in Pass /\ NoPass.at = "idle"
  BY <1>1, FinishFacts, Zenon
<1>3. OwnedBy(r)' = OwnedBy(r) /\ obj = [obj EXCEPT ![r] = obj[r]]
  BY <1>f, <1>1, Zenon DEF OwnedBy, Typed
<1>o. ASSUME NEW x \in Nat, NEW b \in BOOLEAN
      PROVE  /\ [obj EXCEPT ![r].accepted = x] = [obj EXCEPT ![r] = [obj[r] EXCEPT !.accepted = x]]
             /\ [obj[r] EXCEPT !.accepted = x] \in Object
             /\ [obj[r] EXCEPT !.accepted = x].state = obj[r].state
             /\ [obj[r] EXCEPT !.accepted = x].finalizer = obj[r].finalizer
             /\ [obj EXCEPT ![r].owned = b] = [obj EXCEPT ![r] = [obj[r] EXCEPT !.owned = b]]
             /\ [obj[r] EXCEPT !.owned = b] \in Object
             /\ [obj[r] EXCEPT !.owned = b].state = obj[r].state
             /\ [obj[r] EXCEPT !.owned = b].finalizer = obj[r].finalizer
             /\ [obj EXCEPT ![r].finalizer = b] = [obj EXCEPT ![r] = [obj[r] EXCEPT !.finalizer = b]]
             /\ [obj[r] EXCEPT !.finalizer = b] \in Object
             /\ [obj[r] EXCEPT !.finalizer = b].state = obj[r].state
             /\ [obj[r] EXCEPT !.finalizer = b].finalizer = b
  BY <1>f, Zenon DEF Typed, Object
<1>4. \E o \in Object : obj' = [obj EXCEPT ![r] = o] /\ HeldAs(o, cache[r], NoPass, OwnedBy(r))
  <2> USE DEF Writing, Removing
  <2>1. CASE UNCHANGED obj
    BY <1>f, <1>2, <1>3, <2>1, Zenon DEF Held, HeldAs
  <2>2. CASE /\ cache[r].state = "deleting" /\ zone.state = "absent"
             /\ obj' = [obj EXCEPT ![r] = Released(@)]
    <3>1. OwnedBy(r) = {}
      BY <1>f, <2>2, Zenon DEF ZoneHeld, OwnedBy
    <3>2. ~Settled(obj[r]) /\ ~Settled(cache[r])
      BY <1>f, <2>2, Zenon DEF Held, HeldAs, Settled
    <3>3. /\ Released(obj[r]) \in Object /\ ~Released(obj[r]).finalizer
          /\ Released(obj[r]).state # "deleting"
          /\ ~Settled(Released(obj[r]))
      BY <1>f, ObjectFacts, Zenon DEF Settled
    <3>4. HeldAs(Released(obj[r]), cache[r], NoPass, OwnedBy(r))
      BY <1>2, <3>1, <3>2, <3>3, Zenon DEF HeldAs
    <3> QED BY <2>2, <3>3, <3>4, Zenon
  <2>3. CASE obj' = [obj EXCEPT ![r].accepted = 0]
    BY <1>f, <1>2, <1>o, <2>3, Zenon DEF Held, HeldAs, Settled
  <2>4. CASE obj' = [obj EXCEPT ![r].accepted = cache[r].gen]
    <3>1. cache[r].gen \in Nat
      BY <1>f, Zenon DEF Object
    <3> QED BY <1>f, <1>2, <1>o, <2>4, <3>1, Zenon DEF Held, HeldAs, Settled
  <2>5. CASE obj' = [obj EXCEPT ![r].owned = TRUE]
    BY <1>f, <1>2, <1>o, <2>5, Zenon DEF Held, HeldAs, Settled
  <2>6. CASE /\ obj' = [obj EXCEPT ![r].finalizer = TRUE]
             /\ cache[r].state = "live" /\ obj[r].state # "absent"
    BY <1>f, <1>2, <1>o, <2>6, Zenon DEF Held, HeldAs, Settled
  <2> QED BY <2>1, <2>2, <2>3, <2>4, <2>5, <2>6, Zenon DEF Nothing, Orphan, Prepare
<1> QED BY <1>f, <1>1, <1>2, <1>3, <1>4, PassStep, ZenonT(40) DEF Typed

\* EnsureRecordSet and DeleteRecordSet start from the cache's copy.
LEMMA CallStep == ASSUME Covered, NEW r \in RecordSets, Call(r) PROVE Covered'
<1>f. /\ Typed /\ ZoneHeld /\ Held(r)
      /\ obj[r] \in Object /\ cache[r] \in Object /\ pass[r] \in Pass
  BY Facts, Zenon
<1>1. /\ UNCHANGED <<cache, zoneVars, pzone, rr, obj>> /\ queue' \subseteq RecordSets
      /\ obj = [obj EXCEPT ![r] = obj[r]] /\ OwnedBy(r)' = OwnedBy(r)
  BY <1>f, Zenon DEF Call, Elsewhere, provider, Typed, OwnedBy
<1>2. ASSUME NEW n \in {"targets", "read"}
      PROVE  LET p == [NoPass EXCEPT !.at = n, !.copy = cache[r]] IN p \in Pass /\ p.at = n
  BY <1>f, ObjectFacts, Zenon DEF Pass, Steps, NoPass
<1>3. \E p \in Pass : pass' = [pass EXCEPT ![r] = p] /\ HeldAs(obj[r], cache[r], p, OwnedBy(r))
  <2>1. CASE /\ cache[r].state = "deleting"
             /\ pass' = [pass EXCEPT ![r] = [NoPass EXCEPT !.at = "targets", !.copy = cache[r]]]
    BY <1>f, <1>2, <2>1, Zenon DEF Held, HeldAs, Settled, Writing, Removing
  <2>2. CASE /\ cache[r].state = "live" /\ cache[r].finalizer
             /\ pass' = [pass EXCEPT ![r] = [NoPass EXCEPT !.at = "read", !.copy = cache[r]]]
    BY <1>f, <1>2, <2>2, Zenon DEF Held, HeldAs, Settled, Writing, Removing
  <2> QED BY <2>1, <2>2, Zenon DEF Call
<1> QED BY <1>f, <1>1, <1>3, PassStep, Zenon DEF Typed

\* Where EnsureRecordSet goes on.
LEMMA AdvanceFacts ==
    ASSUME NEW r, NEW p \in Pass, Advance(r, p)
    PROVE  \E x \in Pass :
             /\ pass' = [pass EXCEPT ![r] = x]
             /\ x.at = Following(p) /\ x.at \in {"patch", "prune", "status"}
             /\ x.copy = p.copy /\ x.todo = p.todo /\ x.surplus = p.surplus
             /\ x.refused = p.refused /\ x.again = p.again /\ x.answered = p.answered
<1> DEFINE x == [p EXCEPT !.at = Following(p)]
<1>1. Following(p) \in {"patch", "prune", "status"}
  BY Zenon DEF Following
<1>2. /\ x \in Pass /\ x.at = Following(p)
      /\ x.copy = p.copy /\ x.todo = p.todo /\ x.surplus = p.surplus
      /\ x.refused = p.refused /\ x.again = p.again /\ x.answered = p.answered
  BY <1>1, Zenon DEF Pass, Steps
<1> QED BY <1>1, <1>2, Zenon DEF Advance

\* EnsureRecordSet writes only while the object has its finalizer.
LEMMA EnsureStep ==
    ASSUME Covered, NEW r \in RecordSets, ReadZone(r) \/ Patch(r) \/ Prune(r)
    PROVE  Covered'
<1>f. /\ Typed /\ ZoneHeld /\ Held(r)
      /\ obj[r] \in Object /\ cache[r] \in Object /\ pass[r] \in Pass
  BY Facts, Zenon
<1>1. /\ UNCHANGED <<cache, zoneVars, pzone, obj, queue>>
      /\ obj = [obj EXCEPT ![r] = obj[r]]
      /\ pass[r].at \in {"read", "patch", "prune"}
  BY <1>f, Zenon DEF ReadZone, Patch, Prune, Elsewhere, provider, Typed
<1>t. /\ pass[r].copy \in Object /\ StampOf(r, pass[r].copy) \in Stamp
      /\ StampOf(r, pass[r].copy).owner = r
      /\ pass[r].todo \subseteq Keys /\ pass[r].surplus \subseteq Keys
      /\ pass[r].refused \subseteq Keys /\ pass[r].copy.spec \subseteq Keys
  BY <1>f, Zenon DEF Pass, Object, StampOf, Stamp
<1>2. /\ rr' \in [Keys -> Stamp \cup {None}]
      /\ \A k \in Keys :
           rr'[k] = rr[k] \/ rr'[k] = None \/ (pzone /\ rr'[k].owner = r)
  <2>1. CASE ReadZone(r)
    BY <1>f, <2>1, Zenon DEF ReadZone, Elsewhere, provider, Typed
  <2>2. CASE Patch(r)
    <3>1. rr' = rr \/ (pzone /\ rr' = Replaced(r, pass[r]))
      BY <2>2, Zenon DEF Patch
    <3> QED BY <1>f, <1>t, <3>1, Zenon DEF Replaced, Typed
  <2>3. CASE Prune(r)
    <3>1. rr' = rr \/ rr' = [k \in Keys |-> IF k \in pass[r].surplus THEN None ELSE rr[k]]
      BY <2>3, Zenon DEF Prune
    <3> QED BY <1>f, <1>t, <3>1, Zenon DEF Typed
  <2> QED BY <2>1, <2>2, <2>3, Zenon
<1>3. \E x \in Pass : pass' = [pass EXCEPT ![r] = x] /\ x.at \in {"patch", "prune", "status"}
  <2>1. CASE ReadZone(r)
    <3> DEFINE p == [pass[r] EXCEPT !.todo = {k \in pass[r].copy.spec : ~Matches(r, k)},
                                    !.surplus = OwnedSurplus(r, pass[r].copy.spec),
                                    !.answered = TRUE]
               x == [pass[r] EXCEPT !.at = "status", !.again = TRUE]
    <3>1. /\ {k \in pass[r].copy.spec : ~Matches(r, k)} \subseteq Keys
          /\ OwnedSurplus(r, pass[r].copy.spec) \subseteq Keys
      BY <1>t, Zenon DEF OwnedSurplus
    <3>2. p \in Pass
      BY <1>f, <3>1, Zenon DEF Pass
    <3>3. x \in Pass /\ x.at = "status"
      BY <1>f, Zenon DEF Pass, Steps
    <3>4. [pass EXCEPT ![r].at = "status", ![r].again = TRUE] = [pass EXCEPT ![r] = x]
      BY <1>f, Zenon DEF Typed, Pass
    <3>5. Advance(r, p) \/ pass' = [pass EXCEPT ![r] = x]
      BY <2>1, <3>4, Zenon DEF ReadZone
    <3> HIDE DEF p, x
    <3> QED BY <3>2, <3>3, <3>5, AdvanceFacts, Zenon
  <2>2. CASE Patch(r)
    <3> DEFINE p == pass[r]
               done == [p EXCEPT !.todo = {}, !.surplus = p.surplus \ Paired(p)]
               failed == [done EXCEPT !.refused = p.refused \cup p.todo]
               without(k) == [p EXCEPT !.todo = p.todo \ {k}, !.refused = p.refused \cup {k},
                                       !.surplus = p.surplus \ Paired([p EXCEPT !.todo = {k}])]
    <3>1. done \in Pass
      BY <1>f, <1>t, Zenon DEF Pass
    <3>2. failed \in Pass
      BY <1>f, <1>t, <3>1, Zenon DEF Pass
    <3>3. [failed EXCEPT !.again = TRUE] \in Pass
      BY <3>2, Zenon DEF Pass
    <3>4. ASSUME NEW k \in Refused(p) PROVE without(k) \in Pass
      <4>1. k \in Keys
        BY <1>t, Zenon DEF Refused
      <4> QED BY <1>f, <1>t, <4>1, Zenon DEF Pass
    <3>5. \/ Advance(r, done) \/ Advance(r, failed) \/ Advance(r, [failed EXCEPT !.again = TRUE])
          \/ \E k \in Refused(p) : Advance(r, without(k))
      BY <2>2, Zenon DEF Patch
    <3> HIDE DEF done, failed, without
    <3> QED BY <3>1, <3>2, <3>3, <3>4, <3>5, AdvanceFacts, Zenon
  <2>3. CASE Prune(r)
    <3> DEFINE x == [pass[r] EXCEPT !.at = "status", !.surplus = {}]
    <3>1. x \in Pass /\ x.at = "status"
      BY <1>f, Zenon DEF Pass, Steps
    <3>2. pass' = [pass EXCEPT ![r] = x]
      BY <1>f, <2>3, Zenon DEF Prune, Typed, Pass
    <3> HIDE DEF x
    <3> QED BY <3>1, <3>2, Zenon
  <2> QED BY <2>1, <2>2, <2>3, Zenon
<1>4. PICK x \in Pass : pass' = [pass EXCEPT ![r] = x] /\ x.at \in {"patch", "prune", "status"}
  BY <1>3, Zenon
<1>5. HeldAs(obj[r], cache[r], x, OwnedBy(r)')
  BY <1>f, <1>1, <1>4, Zenon DEF Held, HeldAs, Settled, Writing, Removing
<1> QED BY <1>f, <1>1, <1>2, <1>4, <1>5, PassStep, Zenon DEF Typed

\* updateStatus writes the status alone.
LEMMA StatusStep == ASSUME Covered, NEW r \in RecordSets, UpdateStatus(r) PROVE Covered'
<1>f. /\ Typed /\ ZoneHeld /\ Held(r)
      /\ obj[r] \in Object /\ cache[r] \in Object /\ pass[r] \in Pass
  BY Facts, Zenon
<1>1. /\ UNCHANGED <<cache, zoneVars, pzone, rr>> /\ \E again : Finish(r, again)
      /\ obj' = obj \/ obj' = [obj EXCEPT ![r].status = StatusOf(pass[r])]
  BY Zenon DEF UpdateStatus, Elsewhere, provider
<1>2. /\ pass' = [pass EXCEPT ![r] = NoPass] /\ queue' \subseteq RecordSets
      /\ NoPass \in Pass /\ NoPass.at = "idle"
  BY <1>1, FinishFacts, Zenon
<1>3. OwnedBy(r)' = OwnedBy(r) /\ obj = [obj EXCEPT ![r] = obj[r]]
  BY <1>f, <1>1, Zenon DEF OwnedBy, Typed
<1>4. StatusOf(pass[r]) \in Status
  <2>1. /\ pass[r].copy.gen \in Nat /\ pass[r].again \in BOOLEAN
        /\ NamesOf(pass[r].copy.spec) \subseteq NamesOf(Keys)
        /\ NamesOf(pass[r].refused) \subseteq NamesOf(Keys)
    BY <1>f, Zenon DEF Pass, Object, NamesOf
  <2> QED BY <2>1, Zenon DEF StatusOf, Status
<1>5. \E o \in Object : /\ obj' = [obj EXCEPT ![r] = o]
                        /\ o.state = obj[r].state /\ o.finalizer = obj[r].finalizer
  <2> DEFINE o == [obj[r] EXCEPT !.status = StatusOf(pass[r])]
  <2>1. o \in Object /\ o.state = obj[r].state /\ o.finalizer = obj[r].finalizer
    BY <1>f, <1>4, Zenon DEF Object
  <2>2. [obj EXCEPT ![r].status = StatusOf(pass[r])] = [obj EXCEPT ![r] = o]
    BY <1>f, Zenon DEF Typed, Object
  <2> HIDE DEF o
  <2> QED BY <1>f, <1>1, <1>3, <2>1, <2>2, Zenon
<1>6. PICK o \in Object : /\ obj' = [obj EXCEPT ![r] = o]
                          /\ o.state = obj[r].state /\ o.finalizer = obj[r].finalizer
  BY <1>5, Zenon
<1>7. HeldAs(o, cache[r], NoPass, OwnedBy(r)')
  BY <1>f, <1>2, <1>3, <1>6, Zenon DEF Held, HeldAs, Settled, Writing, Removing
<1> QED BY <1>f, <1>1, <1>2, <1>6, <1>7, PassStep, Zenon DEF Typed

\* DeleteRecordSet looks for everything the record set wrote, deletes it, and
\* only then does the finalizer go.
LEMMA DeleteStep ==
    ASSUME Covered, NEW r \in RecordSets, ReadTargets(r) \/ DeleteTargets(r) \/ Release(r)
    PROVE  Covered'
<1>f. /\ Typed /\ ZoneHeld /\ Held(r)
      /\ obj[r] \in Object /\ cache[r] \in Object /\ pass[r] \in Pass
  BY Facts, Zenon
<1>1. /\ UNCHANGED <<cache, zoneVars, pzone>>
      /\ obj = [obj EXCEPT ![r] = obj[r]]
      /\ pass[r].at \in Removing
  BY <1>f, Zenon DEF ReadTargets, DeleteTargets, Release, Elsewhere, provider, Typed, Removing
<1>t. pass[r].copy.spec \subseteq Keys
  BY <1>f, Zenon DEF Pass, Object
<1>2. /\ rr' \in [Keys -> Stamp \cup {None}]
      /\ \A k \in Keys : rr'[k] = rr[k] \/ rr'[k] = None
      /\ OwnedBy(r)' \subseteq OwnedBy(r)
  <2>1. rr' = rr \/ rr' = [k \in Keys |-> IF k \in pass[r].todo THEN None ELSE rr[k]]
    BY Zenon DEF ReadTargets, DeleteTargets, Release, Elsewhere, provider
  <2> QED BY <1>f, <2>1, Zenon DEF Typed, OwnedBy
<1>3. ASSUME NEW again, Finish(r, again), UNCHANGED obj PROVE Covered'
  <2>1. /\ pass' = [pass EXCEPT ![r] = NoPass] /\ queue' \subseteq RecordSets
        /\ NoPass \in Pass /\ NoPass.at = "idle"
    BY <1>3, FinishFacts, Zenon
  <2>2. HeldAs(obj[r], cache[r], NoPass, OwnedBy(r)')
    BY <1>f, <1>2, <2>1, Zenon DEF Held, HeldAs, Settled, Writing, Removing
  <2> QED BY <1>f, <1>1, <1>2, <1>3, <2>1, <2>2, PassStep, Zenon
<1>4. ASSUME NEW t \in SUBSET Keys, NEW n \in {"delete", "release"},
             pass' = [pass EXCEPT ![r].todo = t, ![r].at = n], UNCHANGED <<obj, queue>>,
             OwnedBy(r)' \subseteq t, n = "release" => t = {}
      PROVE  Covered'
  <2> DEFINE x == [pass[r] EXCEPT !.todo = t, !.at = n]
  <2>1. x \in Pass /\ x.at = n /\ x.todo = t
    BY <1>f, Zenon DEF Pass, Steps
  <2>2. pass' = [pass EXCEPT ![r] = x]
    BY <1>f, <1>4, Zenon DEF Typed, Pass
  <2> HIDE DEF x
  <2>3. HeldAs(obj[r], cache[r], x, OwnedBy(r)')
    BY <1>f, <1>1, <1>2, <1>4, <2>1, Zenon DEF Held, HeldAs, Settled, Writing, Removing
  <2>4. queue' \subseteq RecordSets /\ obj' = [obj EXCEPT ![r] = obj[r]]
    BY <1>f, <1>1, <1>4, Zenon DEF Typed
  <2> QED BY <1>f, <1>1, <1>2, <2>1, <2>2, <2>3, <2>4, PassStep, Zenon
<1>5. CASE ReadTargets(r)
  <2>1. CASE pass' = [pass EXCEPT ![r].todo = IF pzone THEN Targets(r, pass[r]) ELSE {},
                        ![r].at = IF (IF pzone THEN Targets(r, pass[r]) ELSE {}) = {}
                                    THEN "release" ELSE "delete"]
             /\ queue' = queue
    <3> DEFINE t == IF pzone THEN Targets(r, pass[r]) ELSE {}
               n == IF t = {} THEN "release" ELSE "delete"
    <3>1. t \in SUBSET Keys
      BY <1>t, Zenon DEF Targets, OwnedSurplus
    <3>2. OwnedBy(r)' \subseteq t
      <4>1. OwnedBy(r)' = OwnedBy(r)
        BY <1>5, Zenon DEF ReadTargets, Elsewhere, provider, OwnedBy
      <4> QED BY <1>f, <4>1, Zenon DEF OwnedBy, ZoneHeld, Targets, OwnedSurplus
    <3>3. n \in {"delete", "release"} /\ (n = "release" => t = {})
      BY Zenon
    <3>4. pass' = [pass EXCEPT ![r].todo = t, ![r].at = n] /\ UNCHANGED <<obj, queue>>
      BY <1>5, <2>1, Zenon DEF ReadTargets
    <3> HIDE DEF t, n
    <3> QED BY <1>4, <3>1, <3>2, <3>3, <3>4, Zenon
  <2>2. CASE Finish(r, TRUE)
    BY <1>3, <1>5, <2>2, Zenon DEF ReadTargets
  <2> QED BY <1>5, <2>1, <2>2, Zenon DEF ReadTargets
<1>6. CASE DeleteTargets(r)
  <2>1. CASE /\ rr' = [k \in Keys |-> IF k \in pass[r].todo THEN None ELSE rr[k]]
             /\ pass' = [pass EXCEPT ![r].todo = {}, ![r].at = "release"]
             /\ queue' = queue
    <3>1. OwnedBy(r)' \subseteq {}
      <4>1. OwnedBy(r) \subseteq pass[r].todo
        BY <1>f, <1>6, Zenon DEF Held, HeldAs, DeleteTargets
      <4> QED BY <2>1, <4>1, Zenon DEF OwnedBy
    <3> QED BY <1>4, <1>6, <2>1, <3>1, Zenon DEF DeleteTargets
  <2>2. CASE Finish(r, TRUE)
    BY <1>3, <1>6, <2>2, Zenon DEF DeleteTargets
  <2> QED BY <1>6, <2>1, <2>2, Zenon DEF DeleteTargets
<1>7. CASE Release(r)
  <2>1. CASE UNCHANGED obj
    BY <1>3, <1>7, <2>1, Zenon DEF Release
  <2>2. CASE obj' = [obj EXCEPT ![r] = Released(@)] /\ \E again : Finish(r, again)
    <3>1. /\ pass' = [pass EXCEPT ![r] = NoPass] /\ queue' \subseteq RecordSets
          /\ NoPass \in Pass /\ NoPass.at = "idle"
      BY <2>2, FinishFacts, Zenon
    <3>2. /\ Released(obj[r]) \in Object /\ ~Released(obj[r]).finalizer
          /\ Released(obj[r]).state # "deleting" /\ ~Settled(Released(obj[r]))
      BY <1>f, ObjectFacts, Zenon DEF Settled
    <3>3. OwnedBy(r)' = {} /\ ~Settled(cache[r])
      BY <1>f, <1>1, <1>2, <1>7, Zenon DEF Held, HeldAs, Release
    <3>4. HeldAs(Released(obj[r]), cache[r], NoPass, OwnedBy(r)')
      BY <3>1, <3>2, <3>3, Zenon DEF HeldAs, Writing, Removing
    <3>5. obj' = [obj EXCEPT ![r] = Released(obj[r])]
      BY <2>2, Zenon
    <3> QED BY <1>1, <1>2, <3>1, <3>2, <3>4, <3>5, PassStep, Zenon
  <2> QED BY <1>7, <2>1, <2>2, Zenon DEF Release
<1> QED BY <1>5, <1>6, <1>7, Zenon

\* The zone's watch and the steps of its reconciler that touch the DNSZone:
\* its finalizer is removed when PowerDNS has the zone no more.
LEMMA ZoneObjectStep ==
    ASSUME Covered, RemoveZone \/ ObserveZone \/ ZoneNothing \/ ZoneAdopt
                      \/ ZoneProgrammed \/ ReleaseZone
    PROVE  Covered'
<1>f. Typed /\ ZoneHeld /\ zone \in Zone /\ zcache \in Zone
  BY Zenon DEF Covered, Typed
<1>1. UNCHANGED <<obj, cache, pass, pzone, rr>> /\ queue' \subseteq RecordSets
  BY <1>f, Zenon DEF RemoveZone, ObserveZone, ZoneNothing, ZoneAdopt, ZoneProgrammed, ReleaseZone,
     ElsewhereZ, provider, Typed
<1>z. /\ NoZone \in Zone /\ NoZone.state = "absent" /\ ~NoZone.finalizer
      /\ LET d == [zone EXCEPT !.state = "deleting"]
         IN  d \in Zone /\ d.state = "deleting" /\ d.finalizer = zone.finalizer
      /\ LET a == [zone EXCEPT !.finalizer = TRUE]
         IN  a \in Zone /\ a.state = zone.state /\ a.finalizer
      /\ LET g == [zone EXCEPT !.programmed = TRUE]
         IN  g \in Zone /\ g.state = zone.state /\ g.finalizer = zone.finalizer
  BY <1>f, Zenon DEF NoZone, Zone
<1>2. Typed' /\ ZoneHeld'
  <2>1. CASE RemoveZone
    BY <1>f, <1>1, <1>z, <2>1, Zenon DEF RemoveZone, Typed, ZoneHeld
  <2>2. CASE ObserveZone
    BY <1>f, <1>1, <2>2, Zenon DEF ObserveZone, Typed, ZoneHeld
  <2>3. CASE ZoneNothing
    BY <1>f, <1>1, <2>3, Zenon DEF ZoneNothing, ZoneDue, ZoneFinish, ElsewhereZ, Typed, ZoneHeld
  <2>4. CASE ZoneAdopt
    BY <1>f, <1>1, <1>z, <2>4, Zenon DEF ZoneAdopt, ZoneDue, ZoneFinish, ElsewhereZ, Typed, ZoneHeld
  <2>5. CASE ZoneProgrammed
    BY <1>f, <1>1, <1>z, <2>5, Zenon DEF ZoneProgrammed, ZoneFinish, ElsewhereZ, Typed, ZoneHeld
  <2>6. CASE ReleaseZone
    BY <1>f, <1>1, <1>z, <2>6, Zenon DEF ReleaseZone, ZoneFinish, ElsewhereZ, Typed, ZoneHeld
  <2> QED BY <2>1, <2>2, <2>3, <2>4, <2>5, <2>6, Zenon
<1> QED BY <1>1, <1>2, ZoneStep, Zenon

\* EnsureZone, clearZoneComments and DeleteZone: PowerDNS gets the zone while
\* the DNSZone has its finalizer, and loses it with all that is in it.
LEMMA ZoneProviderStep ==
    ASSUME Covered, EnsureZone \/ ClearComments \/ DropZone
    PROVE  Covered'
<1>f. Typed /\ ZoneHeld /\ zone \in Zone /\ zcache \in Zone
  BY Zenon DEF Covered, Typed
<1>1. UNCHANGED <<obj, cache, pass, zone, zcache, queue>>
  BY Zenon DEF EnsureZone, ClearComments, DropZone, ElsewhereZ
<1>u. Unowned \in Stamp
  BY Zenon DEF Unowned, Stamp
<1>2. /\ rr' \in [Keys -> Stamp \cup {None}]
      /\ \A k \in Keys : rr'[k] \in {rr[k], None, Unowned}
      /\ \A k \in Keys : rr[k] = None => rr'[k] = None
  <2>1. \/ rr' = rr
        \/ rr' = [k \in Keys |-> IF rr[k] = None THEN None ELSE Unowned]
        \/ rr' = [k \in Keys |-> None]
    BY Zenon DEF EnsureZone, ClearComments, DropZone
  <2> QED BY <1>f, <1>u, <2>1, Zenon DEF Typed
<1>3. Typed' /\ ZoneHeld'
  <2>1. CASE EnsureZone
    <3>1. /\ pzone' \in BOOLEAN /\ (pzone => pzone') /\ zone.finalizer
          /\ zat' \in {"idle", "programmed"} /\ zqueued' \in BOOLEAN
      <4>1. pzone' = TRUE \/ pzone' = pzone
        BY <2>1, Zenon DEF EnsureZone
      <4>2. pzone' \in BOOLEAN /\ (pzone => pzone')
        BY <1>f, <4>1, Zenon DEF Typed
      <4>3. zone.finalizer
        BY <1>f, <2>1, Zenon DEF EnsureZone, ZoneHeld
      <4>4. zat' \in {"idle", "programmed"} /\ zqueued' \in BOOLEAN
        BY <2>1, Zenon DEF EnsureZone, ZoneGoto, ZoneFinish
      <4> QED BY <4>2, <4>3, <4>4, Zenon
    <3> QED BY <1>f, <1>1, <1>2, <2>1, <3>1, Zenon DEF EnsureZone, Typed, ZoneHeld
  <2>2. CASE ClearComments
    <3>1. /\ UNCHANGED pzone /\ zcache.state = "deleting" /\ zone.state # "live"
          /\ zat' \in {"idle", "drop"} /\ zqueued' \in BOOLEAN
      BY <1>f, <2>2, Zenon DEF ClearComments, ZoneGoto, ZoneFinish, ZoneHeld, Typed
    <3> QED BY <1>f, <1>1, <1>2, <3>1, Zenon DEF Typed, ZoneHeld
  <2>3. CASE DropZone
    <3>1. /\ pzone' \in BOOLEAN /\ (pzone' => pzone)
          /\ zat' \in {"idle", "release"} /\ zqueued' \in BOOLEAN
          /\ zat' = "release" => ~pzone'
          /\ zone.state # "live" /\ zcache.state # "live"
      <4>2. pzone' = FALSE \/ (pzone' = pzone /\ zat' = "idle")
        <5>1. CASE pzone' = FALSE
          BY <5>1, Zenon
        <5>2. CASE pzone' \in {pzone, FALSE} /\ ZoneFinish(TRUE)
          BY <5>2, Zenon DEF ZoneFinish
        <5> QED BY <2>3, <5>1, <5>2, Zenon DEF DropZone
      <4>3. pzone' \in BOOLEAN /\ (pzone' => pzone) /\ (zat' = "release" => ~pzone')
        <5>0. pzone \in BOOLEAN
          BY <1>f, Zenon DEF Typed
        <5>1. pzone' \in BOOLEAN /\ (pzone' => pzone)
          <6>1. CASE pzone' = FALSE
            BY <6>1, Zenon
          <6>2. CASE pzone' = pzone
            BY <5>0, <6>2, Zenon
          <6> QED BY <4>2, <6>1, <6>2, Zenon
        <5>2. zat' = "release" => zat' # "idle"
          BY Zenon
        <5> QED BY <4>2, <5>1, <5>2, Zenon
      <4>4. zat' \in {"idle", "release"} /\ zqueued' \in BOOLEAN
        BY <2>3, Zenon DEF DropZone, ZoneGoto, ZoneFinish
      <4>5. zone.state # "live" /\ zcache.state # "live"
        BY <1>f, <2>3, Zenon DEF DropZone, ZoneHeld
      <4> QED BY <4>3, <4>4, <4>5, Zenon
    <3>2. ~pzone' => \A k \in Keys : rr'[k] = None
      BY <2>3, Zenon DEF DropZone
    <3> QED BY <1>f, <1>1, <1>2, <3>1, <3>2, Zenon DEF Typed, ZoneHeld
  <2> QED BY <2>1, <2>2, <2>3, Zenon
<1> QED BY <1>1, <1>2, <1>3, ZoneStep, Zenon

\* The cascade deletes the objects a zone that is being deleted can see.
LEMMA CascadeStep == ASSUME Covered, Cascade PROVE Covered'
<1>f. Typed /\ ZoneHeld
  BY Zenon DEF Covered
<1>1. /\ UNCHANGED <<cache, pass, queue, zone, zcache, pzone, rr>>
      /\ zat' = "idle" /\ zqueued' \in BOOLEAN
  BY Zenon DEF Cascade, ZoneFinish, ElsewhereZ, provider
<1>2. ASSUME NEW r \in RecordSets
      PROVE  obj'[r] \in Object /\ (obj'[r] = obj[r] \/ obj'[r] = Deleted(obj[r]))
  BY <1>f, ObjectFacts, Zenon DEF Cascade, Typed
<1>3. Typed'
  <2>1. obj' \in [RecordSets -> Object]
    BY <1>2, Zenon DEF Cascade
  <2> QED BY <1>f, <1>1, <2>1, Zenon DEF Typed
<1>4. ZoneHeld'
  BY <1>f, <1>1, Zenon DEF ZoneHeld
<1>5. ASSUME NEW r \in RecordSets PROVE Held(r)'
  <2>1. /\ Held(r) /\ obj[r] \in Object /\ OwnedBy(r)' = OwnedBy(r)
        /\ cache'[r] = cache[r] /\ pass'[r] = pass[r]
    BY <1>f, <1>1, Zenon DEF Covered, OwnedBy, Typed
  <2>2. /\ obj[r].finalizer => obj'[r].finalizer
        /\ obj'[r].finalizer => obj[r].finalizer
        /\ Settled(obj'[r]) => Settled(obj[r])
        /\ obj'[r].state = "deleting" => obj'[r].finalizer
        /\ obj'[r].state = "absent" => ~obj'[r].finalizer
    BY <1>2, <2>1, ObjectFacts DEF Held, HeldAs, Settled
  <2> QED BY <2>1, <2>2, Zenon DEF Held, HeldAs, Settled
<1> QED BY <1>3, <1>4, <1>5, Zenon DEF Covered

\* After a restart the copies are new or missing, and no pass is under way.
LEMMA CrashStep == ASSUME Covered, Crash PROVE Covered'
<1>f. Typed /\ ZoneHeld
  BY Zenon DEF Covered
<1>1. /\ UNCHANGED <<obj, zone, pzone, rr>> /\ zat' = "idle" /\ zqueued' = TRUE
      /\ queue' = RecordSets /\ zcache' \in {zone, NoZone}
      /\ pass' = [r \in RecordSets |-> NoPass]
  BY Zenon DEF Crash, objects, provider
<1>2. NoZone \in Zone /\ NoZone.state = "absent"
  BY Zenon DEF NoZone, Zone
<1>3. /\ cache' \in [RecordSets -> Object] /\ pass' \in [RecordSets -> Pass]
      /\ \A r \in RecordSets : /\ cache'[r] \in {NoObject, obj[r]}
                               /\ pass'[r].at = "idle"
      /\ NoObject.state = "absent"
  <2>1. PICK missed \in SUBSET RecordSets :
          cache' = [r \in RecordSets |-> IF r \in missed THEN NoObject ELSE obj[r]]
    BY Zenon DEF Crash
  <2>2. ASSUME NEW r \in RecordSets
        PROVE  NoObject \in Object /\ obj[r] \in Object /\ NoPass \in Pass /\ NoPass.at = "idle"
    BY <1>f, ObjectFacts, Zenon DEF Typed
  <2>3. NoObject.state = "absent"
    BY Zenon DEF NoObject
  <2> QED BY <1>1, <2>1, <2>2, <2>3, Zenon
<1>4. Typed' /\ ZoneHeld'
  BY <1>f, <1>1, <1>2, <1>3, Zenon DEF Typed, ZoneHeld
<1>5. ASSUME NEW r \in RecordSets PROVE Held(r)'
  <2>1. Held(r) /\ OwnedBy(r)' = OwnedBy(r)
    BY <1>1, Zenon DEF Covered, OwnedBy
  <2> QED BY <1>1, <1>3, <2>1, Zenon DEF Held, HeldAs, Settled, Writing, Removing
<1> QED BY <1>4, <1>5, Zenon DEF Covered

-----------------------------------------------------------------------------
(* The invariant *)

\* What users, failures and restarts take from the bounds.
LEMMA BoundStep == ASSUME TypeOK, [Next]_vars, Typed' PROVE TypeOK'
<1>1. /\ changes \in 0 .. MaxChanges /\ failures \in 0 .. MaxFailures
      /\ crashes \in 0 .. MaxCrashes
  BY Zenon DEF TypeOK
<1>2. /\ changes' = changes \/ Change
      /\ failures' = failures \/ Failing
      /\ crashes' = crashes \/ (crashes < MaxCrashes /\ crashes' = crashes + 1)
  <2>1. CASE UNCHANGED vars
    BY <2>1, Zenon DEF vars, bounds
  <2>2. ASSUME NEW r \in RecordSets,
               Create(r) \/ Edit(r) \/ Remove(r) \/ CollectGarbage(r) \/ Observe(r)
        PROVE  <1>2!:
    BY <2>2, Zenon DEF Create, Edit, Remove, CollectGarbage, Observe, bounds
  <2>3. ASSUME NEW r \in RecordSets, Reconcile(r) PROVE <1>2!:
    BY <2>3, Zenon DEF Reconcile, Nothing, Orphan, Prepare, Call, ReadZone, Patch, Prune,
       UpdateStatus, ReadTargets, DeleteTargets, Release, Elsewhere
  <2>4. CASE ReconcileZone
    BY <2>4, Zenon DEF ReconcileZone, ZoneNothing, ZoneAdopt, EnsureZone, ZoneProgrammed, Cascade,
       ClearComments, DropZone, ReleaseZone, ElsewhereZ
  <2>5. CASE RemoveZone \/ ObserveZone \/ Crash
    BY <2>5, Zenon DEF RemoveZone, ObserveZone, Crash, bounds
  <2> QED BY <2>1, <2>2, <2>3, <2>4, <2>5, Zenon DEF Next
<1>3. /\ changes' \in 0 .. MaxChanges /\ failures' \in 0 .. MaxFailures
      /\ crashes' \in 0 .. MaxCrashes
  BY <1>1, <1>2, ConstantsAssumption DEF Change, Failing
<1> QED BY <1>3, Zenon DEF TypeOK, Typed

\* Every step of the operator, of users and of Kubernetes keeps the finalizers
\* over what they guard.
LEMMA CoveredStep == ASSUME IInv, [Next]_vars PROVE IInv'
<1>1. Covered'
  <2> USE DEF IInv
  <2>1. CASE UNCHANGED vars
    <3>1. Typed'
      BY <2>1, Zenon DEF Covered, Typed, vars, zoneVars, provider
    <3> QED BY <2>1, <3>1, ZoneStep, Zenon DEF Covered, ZoneHeld, vars, zoneVars, provider
  <2>2. ASSUME NEW r \in RecordSets,
               Create(r) \/ Edit(r) \/ Remove(r) \/ CollectGarbage(r) \/ Observe(r)
        PROVE  Covered'
    BY <2>2, UserStep, ObserveStep, Zenon
  <2>3. ASSUME NEW r \in RecordSets, Reconcile(r) PROVE Covered'
    BY <2>3, IdleStep, CallStep, EnsureStep, StatusStep, DeleteStep, Zenon DEF Reconcile
  <2>4. CASE ReconcileZone
    BY <2>4, ZoneObjectStep, ZoneProviderStep, CascadeStep, Zenon DEF ReconcileZone
  <2>5. CASE RemoveZone \/ ObserveZone \/ Crash
    BY <2>5, ZoneObjectStep, CrashStep, Zenon
  <2> QED BY <2>1, <2>2, <2>3, <2>4, <2>5, Zenon DEF Next
<1> QED BY <1>1, BoundStep, Zenon DEF IInv, Covered

\* The finalizers cover what they guard, in every state of the reconcilers.
THEOREM RecordInvariance == Spec => []IInv
<1>1. Init => IInv
  <2> SUFFICES ASSUME Init PROVE IInv
    BY Zenon
  <2> USE DEF Init
  <2>0. NoObject \in Object /\ NoPass \in Pass
    <3>1. NoStatus \in Status
      BY Zenon DEF NoStatus, Status
    <3>2. NoObject \in Object
      BY <3>1, Zenon DEF NoObject, Object
    <3> QED BY <3>2, Zenon DEF NoPass, Pass, Steps
  <2>1. NoZone \in Zone /\ [NoZone EXCEPT !.state = "live"] \in Zone
    BY Zenon DEF NoZone, Zone
  <2>2. Typed
    <3> HIDE DEF NoObject, NoPass, NoZone
    <3> QED BY <2>0, <2>1, Zenon DEF Typed
  <2>3. TypeOK
    BY <2>2, ConstantsAssumption DEF Typed, TypeOK
  <2>4. ZoneHeld
    BY Zenon DEF ZoneHeld, NoZone
  <2>5. ASSUME NEW r \in RecordSets PROVE Held(r)
    <3>1. OwnedBy(r) = {}
      BY Zenon DEF OwnedBy
    <3> QED BY <3>1, Zenon DEF Held, HeldAs, Settled, Writing, Removing, NoObject, NoPass
  <2> QED BY <2>2, <2>3, <2>4, <2>5, Zenon DEF IInv, Covered
<1>2. IInv /\ [Next]_vars => IInv'
  BY CoveredStep, Zenon
<1> QED BY <1>1, <1>2, PTL DEF Spec

\* A record set whose finalizer is gone left no RRset behind, whatever it listed
\* and whichever of its calls failed, also where record sets contend; and a
\* DNSZone that is gone left no zone.
THEOREM NothingIsLeftBehind == Spec => []NothingLeftBehind
<1>1. IInv => NothingLeftBehind
  <2> SUFFICES ASSUME IInv PROVE NothingLeftBehind
    BY Zenon
  <2>1. ZoneHeld /\ \A r \in RecordSets : Held(r)
    BY Zenon DEF IInv, Covered
  <2>2. ASSUME NEW r \in RecordSets, obj[r].state = "absent", NEW k \in Keys
        PROVE  rr[k] = None \/ rr[k].owner # r
    BY <2>1, <2>2, Zenon DEF Held, HeldAs, OwnedBy
  <2>3. zone.state = "absent" => ~pzone /\ \A k \in Keys : rr[k] = None
    BY <2>1, Zenon DEF ZoneHeld
  <2> QED BY <2>2, <2>3, Zenon DEF NothingLeftBehind
<1> QED BY <1>1, RecordInvariance, PTL

-----------------------------------------------------------------------------
(* Record sets that list different RRsets *)

Domain(r) == UNION SpecsOf[r]

\* What RecordAdmission asks for: no RRset is listed by two record sets.
Disjoint == \A r, q \in RecordSets : r # q => Domain(r) \cap Domain(q) = {}

\* A record set's passes stay within what it lists.
Within(r) ==
    /\ obj[r].spec \subseteq Domain(r)
    /\ cache[r].spec \subseteq Domain(r)
    /\ pass[r].copy.spec \subseteq Domain(r)
    /\ pass[r].todo \subseteq Domain(r)
    /\ pass[r].surplus \subseteq Domain(r)
    /\ OwnedBy(r) \subseteq Domain(r)

\* A copy is of the object as it is, or as it was.
Behind(c, o) ==
    /\ c.uid <= o.uid
    /\ c.uid = o.uid /\ c.state # "absent" /\ o.state # "absent"
         => c.gen <= o.gen /\ (c.gen = o.gen => c.spec = o.spec)

Programmed(o) == o.state = "live" /\ ProgrammedAtGeneration(o)

\* The cache is behind the object, and not when that is reported programmed.
Current(r) ==
    /\ Behind(cache[r], obj[r])
    /\ obj[r].status.gen <= obj[r].gen
    /\ Programmed(obj[r]) => obj[r].finalizer
    /\ Settled(cache[r]) => cache[r].uid = obj[r].uid
    /\ (Programmed(obj[r]) /\ cache[r].uid = obj[r].uid /\ cache[r].state # "absent")
         => cache[r].gen = obj[r].gen

\* A pass that writes is of the object that lives, no newer than the cache,
\* and what it neither has to write nor was refused is served as it wants it.
Working(r) ==
    pass[r].at \in Writing =>
        /\ pass[r].copy.state = "live"
        /\ pass[r].copy.uid = obj[r].uid
        /\ Behind(pass[r].copy, obj[r])
        /\ cache[r].state # "absent"
             => cache[r].uid = obj[r].uid /\ pass[r].copy.gen <= cache[r].gen
        /\ Programmed(obj[r]) => pass[r].copy.gen = obj[r].gen
        /\ pass[r].todo \subseteq pass[r].copy.spec
        /\ pass[r].surplus \cap pass[r].copy.spec = {}
        /\ pass[r].at # "patch" => pass[r].todo = {}
        /\ (zone.state = "live" /\ pass[r].at # "read" /\ ~pass[r].again) =>
             \A k \in pass[r].copy.spec \ (pass[r].todo \cup pass[r].refused) :
               rr[k] = StampOf(r, pass[r].copy)

Served(r) ==
    (Programmed(obj[r]) /\ zone.state = "live")
      => \A k \in obj[r].spec : rr[k] = StampOf(r, obj[r])

Apt(r) == Within(r) /\ Current(r) /\ Working(r) /\ Served(r)
JInv == IInv /\ \A r \in RecordSets : Apt(r)

\* The record set's own keys are the only ones its passes touch.
LEMMA Touches ==
    ASSUME JInv, NEW r \in RecordSets, Patch(r) \/ Prune(r) \/ DeleteTargets(r), NEW k \in Keys
    PROVE  \/ rr'[k] = rr[k]
           \/ k \in Domain(r) /\ (rr'[k] = None \/ rr'[k].owner = r)
<1>1. Within(r)
  BY Zenon DEF JInv, Apt
<1>2. CASE Patch(r)
  <2>1. rr' = rr \/ rr' = Replaced(r, pass[r])
    BY <1>2, Zenon DEF Patch
  <2> QED BY <1>1, <2>1 DEF Replaced, Paired, Within, StampOf
<1>3. CASE Prune(r)
  <2>1. rr' = rr \/ rr' = [m \in Keys |-> IF m \in pass[r].surplus THEN None ELSE rr[m]]
    BY <1>3, Zenon DEF Prune
  <2> QED BY <1>1, <2>1, Zenon DEF Within
<1>4. CASE DeleteTargets(r)
  <2>1. rr' = rr \/ rr' = [m \in Keys |-> IF m \in pass[r].todo THEN None ELSE rr[m]]
    BY <1>4, Zenon DEF DeleteTargets
  <2> QED BY <1>1, <2>1, Zenon DEF Within
<1> QED BY <1>2, <1>3, <1>4, Zenon

\* A step of one record set leaves the others as apt as they were.
LEMMA AptStep ==
    ASSUME Disjoint, JInv, NEW r \in RecordSets, Apt(r)', UNCHANGED zone,
           \A q \in RecordSets \ {r} :
             obj'[q] = obj[q] /\ cache'[q] = cache[q] /\ pass'[q] = pass[q],
           \A k \in Keys : \/ rr'[k] = rr[k]
                           \/ k \in Domain(r) /\ (rr'[k] = None \/ rr'[k].owner = r)
    PROVE  \A q \in RecordSets : Apt(q)'
<1>1. SUFFICES ASSUME NEW q \in RecordSets \ {r} PROVE Apt(q)'
  BY Zenon
<1>2. /\ Apt(q) /\ Domain(q) \cap Domain(r) = {}
      /\ obj'[q] = obj[q] /\ cache'[q] = cache[q] /\ pass'[q] = pass[q]
  BY Zenon DEF JInv, Disjoint
<1>3. Within(q)'
  <2>1. OwnedBy(q)' \subseteq OwnedBy(q)
    BY Zenon DEF OwnedBy
  <2> QED BY <1>2, <2>1, Zenon DEF Apt, Within
<1>t. obj[q].spec \subseteq Keys /\ pass[q].copy.spec \subseteq Keys
  BY Zenon DEF JInv, IInv, Covered, Typed, Object, Pass
<1>4. /\ \A k \in obj[q].spec : rr'[k] = rr[k]
      /\ \A k \in pass[q].copy.spec : rr'[k] = rr[k]
  BY <1>2, <1>t, Zenon DEF Apt, Within
<1>5. Current(q)'
  BY <1>2, Zenon DEF Apt, Current, Settled
<1>6. Working(q)'
  BY <1>2, <1>4, Zenon DEF Apt, Working
<1>7. Served(q)'
  BY <1>2, <1>4, Zenon DEF Apt, Served
<1> QED BY <1>3, <1>5, <1>6, <1>7, Zenon DEF Apt

\* What an apt record set's step may rely on.
LEMMA AptFacts ==
    ASSUME JInv, NEW r \in RecordSets
    PROVE  /\ Covered /\ Typed /\ ZoneHeld /\ Held(r)
           /\ obj[r] \in Object /\ cache[r] \in Object /\ pass[r] \in Pass
           /\ Within(r) /\ Current(r) /\ Working(r) /\ Served(r)
           /\ obj[r].uid \in Nat /\ obj[r].gen \in Nat /\ obj[r].status.gen \in Nat
           /\ cache[r].uid \in Nat /\ cache[r].gen \in Nat
           /\ pass[r].copy.uid \in Nat /\ pass[r].copy.gen \in Nat
<1>1. /\ Covered /\ Typed /\ ZoneHeld /\ Held(r)
      /\ obj[r] \in Object /\ cache[r] \in Object /\ pass[r] \in Pass
  BY Facts, Zenon DEF JInv, IInv
<1> QED BY <1>1, Zenon DEF JInv, Apt, Object, Status, Pass

\* The empty object and the pass that is not under way.
LEMMA EmptyFacts ==
    /\ NoObject.spec = {} /\ NoObject.state = "absent" /\ NoObject.uid = 0
    /\ NoObject.gen = 0 /\ NoObject.status.gen = 0 /\ ~NoObject.status.ok
    /\ ~NoObject.finalizer
    /\ NoPass.copy.spec = {} /\ NoPass.todo = {} /\ NoPass.surplus = {} /\ NoPass.refused = {}
    /\ NoPass.at = "idle" /\ NoPass.at \notin Writing
BY Zenon DEF NoObject, NoStatus, NoPass, Writing

\* A deleted or released object is the object it was, or nothing of it.
LEMMA GoneFacts ==
    ASSUME NEW o \in Object, NEW x, x = Released(o) \/ x = Deleted(o)
    PROVE  /\ x.uid = o.uid
           /\ \/ x.gen = o.gen /\ x.spec = o.spec /\ x.status = o.status
              \/ x.gen = 0 /\ x.spec = {} /\ x.status.gen = 0 /\ ~x.status.ok /\ x.state = "absent"
<1> DEFINE n == [NoObject EXCEPT !.uid = o.uid]
           f == [o EXCEPT !.finalizer = FALSE]
           d == [o EXCEPT !.state = "deleting"]
<1>1. /\ n.uid = o.uid /\ n.gen = 0 /\ n.spec = {} /\ n.status.gen = 0 /\ ~n.status.ok
      /\ n.state = "absent"
  BY Zenon DEF NoObject, NoStatus
<1>2. /\ f.uid = o.uid /\ f.gen = o.gen /\ f.spec = o.spec /\ f.status = o.status
      /\ d.uid = o.uid /\ d.gen = o.gen /\ d.spec = o.spec /\ d.status = o.status
  BY Zenon DEF Object
<1>3. x \in {n, f, d, o}
  BY Zenon DEF Released, Deleted
<1> HIDE DEF n, f, d
<1> QED BY <1>1, <1>2, <1>3, Zenon

\* An object changes: the copies stay behind it, and it is reported programmed
\* only if it was, and is what it was.
LEMMA AptObject ==
    ASSUME Disjoint, JInv, NEW r \in RecordSets, NEW o \in Object,
           obj' = [obj EXCEPT ![r] = o], UNCHANGED <<cache, zone, rr>>,
           \/ UNCHANGED pass
           \/ pass' = [pass EXCEPT ![r] = NoPass],
           o.spec \subseteq Domain(r), o.status.gen <= o.gen,
           Behind(cache[r], o), pass[r].at \in Writing => Behind(pass[r].copy, o),
           o.uid = obj[r].uid \/ ~obj[r].finalizer,
           Programmed(o) => /\ Programmed(obj[r]) /\ o.finalizer
                            /\ o.uid = obj[r].uid /\ o.gen = obj[r].gen /\ o.spec = obj[r].spec
    PROVE  \A q \in RecordSets : Apt(q)'
<1>f. /\ Covered /\ Typed /\ ZoneHeld /\ Held(r)
      /\ obj[r] \in Object /\ cache[r] \in Object /\ pass[r] \in Pass
      /\ Within(r) /\ Current(r) /\ Working(r) /\ Served(r)
  BY AptFacts, Zenon
<1>1. /\ obj'[r] = o /\ cache'[r] = cache[r]
      /\ pass'[r] = pass[r] \/ pass'[r] = NoPass
      /\ \A q \in RecordSets \ {r} : obj'[q] = obj[q] /\ cache'[q] = cache[q] /\ pass'[q] = pass[q]
      /\ OwnedBy(r)' = OwnedBy(r)
  BY <1>f, Zenon DEF Typed, OwnedBy
<1>2. Within(r)'
  BY <1>f, <1>1, EmptyFacts, Zenon DEF Within
<1>3. Settled(cache[r]) => o.uid = obj[r].uid
  BY <1>f, Zenon DEF Held, HeldAs
<1>4. pass[r].at \in Writing => o.uid = obj[r].uid
  BY <1>f, Zenon DEF Held, HeldAs
<1>5. Current(r)'
  BY <1>f, <1>1, <1>3, Zenon DEF Current, Settled
<1>6. Working(r)'
  BY <1>f, <1>1, <1>4, EmptyFacts DEF Working
<1>7. Served(r)'
  BY <1>f, <1>1 DEF Served, StampOf
<1>8. Apt(r)'
  BY <1>2, <1>5, <1>6, <1>7, Zenon DEF Apt
<1> QED BY <1>1, <1>8, AptStep, Zenon

\* Users and Kubernetes.
LEMMA AptUser ==
    ASSUME Disjoint, JInv, NEW r \in RecordSets,
           Create(r) \/ Edit(r) \/ Remove(r) \/ CollectGarbage(r)
    PROVE  \A q \in RecordSets : Apt(q)'
<1>f. /\ Covered /\ Typed /\ ZoneHeld /\ Held(r)
      /\ obj[r] \in Object /\ cache[r] \in Object /\ pass[r] \in Pass
      /\ Within(r) /\ Current(r) /\ Working(r) /\ Served(r)
      /\ obj[r].uid \in Nat /\ obj[r].gen \in Nat /\ obj[r].status.gen \in Nat
      /\ cache[r].uid \in Nat /\ cache[r].gen \in Nat
      /\ pass[r].copy.uid \in Nat /\ pass[r].copy.gen \in Nat
  BY AptFacts, Zenon
<1>1. UNCHANGED <<cache, pass, zone, rr>>
  BY Zenon DEF Create, Edit, Remove, CollectGarbage, zoneVars, provider
<1>2. CASE Create(r)
  <2>1. PICK s \in SpecsOf[r] :
          obj' = [obj EXCEPT ![r] = [NoObject EXCEPT !.state = "live",
                                        !.uid = obj[r].uid + 1, !.gen = 1, !.spec = s]]
    BY <1>2, Zenon DEF Create
  <2> DEFINE o == [NoObject EXCEPT !.state = "live", !.uid = obj[r].uid + 1,
                                   !.gen = 1, !.spec = s]
  <2>2. s \in SUBSET Keys /\ s \subseteq Domain(r) /\ NoObject \in Object
    BY <1>f, ObjectFacts, ConstantsAssumption, Zenon DEF Domain
  <2>3. o \in Object
    <3>1. obj[r].uid + 1 \in Nat
      BY <1>f
    <3> QED BY <2>2, <3>1, Zenon DEF Object
  <2>4. o.uid = obj[r].uid + 1 /\ o.gen = 1 /\ o.spec = s /\ o.status = NoStatus
    BY Zenon DEF NoObject
  <2>5. NoStatus.gen = 0 /\ ~NoStatus.ok
    BY Zenon DEF NoStatus
  <2>6. ~obj[r].finalizer
    BY <1>f, <1>2, Zenon DEF Held, HeldAs, Create
  <2>7. pass[r].at \notin Writing
    BY <1>f, <2>6, Zenon DEF Held, HeldAs
  <2>8. obj' = [obj EXCEPT ![r] = o]
    BY <2>1, Zenon
  <2> HIDE DEF o
  <2>9. Behind(cache[r], o) /\ o.status.gen <= o.gen /\ ~Programmed(o)
    BY <1>f, <2>4, <2>5 DEF Current, Behind, Programmed, ProgrammedAtGeneration
  <2> QED BY <1>1, <2>2, <2>3, <2>4, <2>6, <2>7, <2>8, <2>9, AptObject, Zenon
<1>3. CASE Edit(r)
  <2>1. PICK s \in SpecsOf[r] : obj' = [obj EXCEPT ![r].spec = s, ![r].gen = @ + 1]
    BY <1>3, Zenon DEF Edit
  <2> DEFINE o == [obj[r] EXCEPT !.spec = s, !.gen = obj[r].gen + 1]
  <2>2. s \in SUBSET Keys /\ s \subseteq Domain(r)
    BY ConstantsAssumption, Zenon DEF Domain
  <2>3. /\ o \in Object /\ o.uid = obj[r].uid /\ o.gen = obj[r].gen + 1 /\ o.spec = s
        /\ o.status = obj[r].status
    <3>1. obj[r].gen + 1 \in Nat /\ obj[r] \in Object
      BY <1>f
    <3> QED BY <2>2, <3>1, Zenon DEF Object
  <2>4. obj' = [obj EXCEPT ![r] = o]
    BY <1>f, <2>1, Zenon DEF Typed, Object
  <2>5. obj[r].state = "live"
    BY <1>3, Zenon DEF Edit
  <2> HIDE DEF o
  <2>6. Behind(cache[r], o) /\ o.status.gen <= o.gen /\ ~Programmed(o)
    BY <1>f, <2>3, <2>5 DEF Current, Behind, Programmed, ProgrammedAtGeneration
  <2>7. pass[r].at \in Writing => Behind(pass[r].copy, o)
    BY <1>f, <2>3, <2>5 DEF Working, Behind
  <2> QED BY <1>1, <2>2, <2>3, <2>4, <2>6, <2>7, AptObject, Zenon
<1>4. CASE Remove(r) \/ CollectGarbage(r)
  <2> DEFINE o == Deleted(obj[r])
  <2>1. obj' = [obj EXCEPT ![r] = o] /\ obj[r].state = "live"
    BY <1>4, Zenon DEF Remove, CollectGarbage
  <2>2. o \in Object /\ o.state # "live"
    BY <1>f, <2>1, ObjectFacts, Zenon
  <2>3. /\ o.uid = obj[r].uid
        /\ \/ o.gen = obj[r].gen /\ o.spec = obj[r].spec /\ o.status = obj[r].status
           \/ o.gen = 0 /\ o.spec = {} /\ o.status.gen = 0 /\ ~o.status.ok /\ o.state = "absent"
    BY <1>f, GoneFacts, Zenon
  <2> HIDE DEF o
  <2>4. /\ Behind(cache[r], o) /\ o.status.gen <= o.gen /\ ~Programmed(o)
        /\ o.spec \subseteq Domain(r)
    BY <1>f, <2>1, <2>2, <2>3 DEF Current, Behind, Programmed, Within
  <2>5. pass[r].at \in Writing => Behind(pass[r].copy, o)
    BY <1>f, <2>1, <2>3, Zenon DEF Working, Behind
  <2> QED BY <1>1, <2>1, <2>2, <2>3, <2>4, <2>5, AptObject, Zenon
<1> QED BY <1>2, <1>3, <1>4, Zenon

\* The watch brings the cache up to date.
LEMMA AptObserve ==
    ASSUME Disjoint, JInv, NEW r \in RecordSets, Observe(r)
    PROVE  \A q \in RecordSets : Apt(q)'
<1>f. /\ Covered /\ Typed /\ ZoneHeld /\ Held(r)
      /\ obj[r] \in Object /\ cache[r] \in Object /\ pass[r] \in Pass
      /\ Within(r) /\ Current(r) /\ Working(r) /\ Served(r)
      /\ obj[r].uid \in Nat /\ obj[r].gen \in Nat /\ obj[r].status.gen \in Nat
      /\ cache[r].uid \in Nat /\ cache[r].gen \in Nat
      /\ pass[r].copy.uid \in Nat /\ pass[r].copy.gen \in Nat
  BY AptFacts, Zenon
<1>1. /\ UNCHANGED <<obj, pass, zone, rr>> /\ cache' = [cache EXCEPT ![r] = obj[r]]
  BY Zenon DEF Observe, zoneVars, provider
<1>2. /\ cache'[r] = obj[r] /\ OwnedBy(r)' = OwnedBy(r)
      /\ \A q \in RecordSets \ {r} : cache'[q] = cache[q]
  BY <1>f, <1>1, Zenon DEF Typed, OwnedBy
<1>3. Within(r)' /\ Served(r)'
  BY <1>f, <1>1, <1>2, Zenon DEF Within, Served
<1>4. Current(r)'
  BY <1>f, <1>1, <1>2 DEF Current, Behind
<1>5. Working(r)'
  <2>1. pass[r].at \in Writing => obj[r].state # "absent"
    BY <1>f, Zenon DEF Held, HeldAs
  <2> QED BY <1>f, <1>1, <1>2, <2>1, Zenon DEF Working, Behind
<1>6. Apt(r)'
  BY <1>3, <1>4, <1>5, Zenon DEF Apt
<1> QED BY <1>1, <1>2, <1>6, AptStep, Zenon

\* The finalizer is removed: nothing the record set reports is left.
LEMMA AptReleased ==
    ASSUME Disjoint, JInv, NEW r \in RecordSets, obj' = [obj EXCEPT ![r] = Released(obj[r])],
           UNCHANGED <<cache, zone, rr>>, pass' = [pass EXCEPT ![r] = NoPass],
           ~Settled(obj[r]), pass[r].at \notin Writing
    PROVE  \A q \in RecordSets : Apt(q)'
<1>f. /\ Covered /\ Typed /\ ZoneHeld /\ Held(r)
      /\ obj[r] \in Object /\ cache[r] \in Object /\ pass[r] \in Pass
      /\ Within(r) /\ Current(r) /\ Working(r) /\ Served(r)
      /\ obj[r].uid \in Nat /\ obj[r].gen \in Nat /\ obj[r].status.gen \in Nat
      /\ cache[r].uid \in Nat /\ cache[r].gen \in Nat
      /\ pass[r].copy.uid \in Nat /\ pass[r].copy.gen \in Nat
  BY AptFacts, Zenon
<1> DEFINE o == Released(obj[r])
<1>1. /\ o \in Object
      /\ o.state = (IF obj[r].state = "deleting" THEN "absent" ELSE obj[r].state)
  BY <1>f, ObjectFacts, Zenon
<1>2. /\ o.uid = obj[r].uid
      /\ \/ o.gen = obj[r].gen /\ o.spec = obj[r].spec /\ o.status = obj[r].status
         \/ o.gen = 0 /\ o.spec = {} /\ o.status.gen = 0 /\ ~o.status.ok /\ o.state = "absent"
  BY <1>f, GoneFacts, Zenon
<1>3. obj' = [obj EXCEPT ![r] = o]
  BY Zenon
<1> HIDE DEF o
<1>4. ~Programmed(o)
  BY <1>f, <1>1, <1>2, Zenon DEF Current, Programmed, ProgrammedAtGeneration, Settled
<1>5. Behind(cache[r], o) /\ o.status.gen <= o.gen /\ o.spec \subseteq Domain(r)
  BY <1>f, <1>1, <1>2 DEF Current, Behind, Within
<1> QED BY <1>1, <1>2, <1>3, <1>4, <1>5, AptObject, Zenon

\* The passes that end before they call PowerDNS.
LEMMA AptIdle ==
    ASSUME Disjoint, JInv, NEW r \in RecordSets, Nothing(r) \/ Orphan(r) \/ Prepare(r)
    PROVE  \A q \in RecordSets : Apt(q)'
<1>f. /\ Covered /\ Typed /\ ZoneHeld /\ Held(r)
      /\ obj[r] \in Object /\ cache[r] \in Object /\ pass[r] \in Pass
      /\ Within(r) /\ Current(r) /\ Working(r) /\ Served(r)
      /\ obj[r].uid \in Nat /\ obj[r].gen \in Nat /\ obj[r].status.gen \in Nat
      /\ cache[r].uid \in Nat /\ cache[r].gen \in Nat
      /\ pass[r].copy.uid \in Nat /\ pass[r].copy.gen \in Nat
  BY AptFacts, Zenon
<1>1. /\ UNCHANGED <<cache, zone, rr>> /\ pass' = [pass EXCEPT ![r] = NoPass]
      /\ pass[r].at \notin Writing
  BY Zenon DEF Nothing, Orphan, Prepare, Elsewhere, zoneVars, provider, Finish, Due, Writing
<1>2. ASSUME NEW o \in Object, obj' = [obj EXCEPT ![r] = o], o.state = obj[r].state,
             o.uid = obj[r].uid, o.gen = obj[r].gen, o.spec = obj[r].spec,
             o.status = obj[r].status, obj[r].finalizer => o.finalizer
      PROVE  \A q \in RecordSets : Apt(q)'
  <2>1. Programmed(o) => Programmed(obj[r]) /\ o.finalizer
    BY <1>f, <1>2, Zenon DEF Current, Programmed, ProgrammedAtGeneration
  <2>2. Behind(cache[r], o) /\ o.status.gen <= o.gen /\ o.spec \subseteq Domain(r)
    BY <1>f, <1>2, Zenon DEF Current, Behind, Within
  <2> QED BY <1>1, <1>2, <2>1, <2>2, AptObject, Zenon
<1>3. CASE UNCHANGED obj
  <2>1. obj' = [obj EXCEPT ![r] = obj[r]]
    BY <1>f, <1>3, Zenon DEF Typed
  <2> QED BY <1>f, <1>2, <2>1, Zenon
<1>4. CASE cache[r].state = "deleting" /\ obj' = [obj EXCEPT ![r] = Released(@)]
  BY <1>f, <1>1, <1>4, AptReleased, Zenon DEF Held, HeldAs
<1>5. CASE \E x \in Nat : obj' = [obj EXCEPT ![r].accepted = x]
  <2>1. PICK x \in Nat : obj' = [obj EXCEPT ![r].accepted = x]
    BY <1>5, Zenon
  <2> DEFINE o == [obj[r] EXCEPT !.accepted = x]
  <2>2. obj' = [obj EXCEPT ![r] = o] /\ o \in Object
    BY <1>f, <2>1, Zenon DEF Typed, Object
  <2>3. /\ o.state = obj[r].state /\ o.uid = obj[r].uid /\ o.gen = obj[r].gen
        /\ o.spec = obj[r].spec /\ o.status = obj[r].status /\ o.finalizer = obj[r].finalizer
    BY <1>f, Zenon DEF Object
  <2> HIDE DEF o
  <2> QED BY <1>2, <2>2, <2>3, Zenon
<1>6. CASE obj' = [obj EXCEPT ![r].owned = TRUE]
  <2> DEFINE o == [obj[r] EXCEPT !.owned = TRUE]
  <2>2. obj' = [obj EXCEPT ![r] = o] /\ o \in Object
    BY <1>f, <1>6, Zenon DEF Typed, Object
  <2>3. /\ o.state = obj[r].state /\ o.uid = obj[r].uid /\ o.gen = obj[r].gen
        /\ o.spec = obj[r].spec /\ o.status = obj[r].status /\ o.finalizer = obj[r].finalizer
    BY <1>f, Zenon DEF Object
  <2> HIDE DEF o
  <2> QED BY <1>2, <2>2, <2>3, Zenon
<1>7. CASE obj' = [obj EXCEPT ![r].finalizer = TRUE]
  <2> DEFINE o == [obj[r] EXCEPT !.finalizer = TRUE]
  <2>2. obj' = [obj EXCEPT ![r] = o] /\ o \in Object
    BY <1>f, <1>7, Zenon DEF Typed, Object
  <2>3. /\ o.state = obj[r].state /\ o.uid = obj[r].uid /\ o.gen = obj[r].gen
        /\ o.spec = obj[r].spec /\ o.status = obj[r].status /\ o.finalizer
    BY <1>f, Zenon DEF Object
  <2> HIDE DEF o
  <2> QED BY <1>2, <2>2, <2>3, Zenon
<1> QED BY <1>f, <1>3, <1>4, <1>5, <1>6, <1>7, Zenon DEF Nothing, Orphan, Prepare

\* A pass moves on, and the object and the cache stay as they are.
LEMMA AptPass ==
    ASSUME Disjoint, JInv, NEW r \in RecordSets, NEW p \in Pass,
           UNCHANGED <<obj, cache, zone>>, pass' = [pass EXCEPT ![r] = p],
           \A k \in Keys : \/ rr'[k] = rr[k]
                           \/ k \in Domain(r) /\ (rr'[k] = None \/ rr'[k].owner = r),
           p.copy.spec \subseteq Domain(r), p.todo \subseteq Domain(r),
           p.surplus \subseteq Domain(r), Served(r)', Working(r)'
    PROVE  \A q \in RecordSets : Apt(q)'
<1>f. /\ Covered /\ Typed /\ ZoneHeld /\ Held(r)
      /\ obj[r] \in Object /\ cache[r] \in Object /\ pass[r] \in Pass
      /\ Within(r) /\ Current(r) /\ Working(r) /\ Served(r)
      /\ obj[r].uid \in Nat /\ obj[r].gen \in Nat /\ obj[r].status.gen \in Nat
      /\ cache[r].uid \in Nat /\ cache[r].gen \in Nat
      /\ pass[r].copy.uid \in Nat /\ pass[r].copy.gen \in Nat
  BY AptFacts, Zenon
<1>1. /\ obj'[r] = obj[r] /\ cache'[r] = cache[r] /\ pass'[r] = p
      /\ \A q \in RecordSets \ {r} : obj'[q] = obj[q] /\ cache'[q] = cache[q] /\ pass'[q] = pass[q]
  BY <1>f, Zenon DEF Typed
<1>2. OwnedBy(r)' \subseteq Domain(r)
  BY <1>f, Zenon DEF OwnedBy, Within
<1>3. Within(r)'
  BY <1>f, <1>1, <1>2, Zenon DEF Within
<1>4. Current(r)'
  BY <1>f, <1>1, Zenon DEF Current
<1>5. Apt(r)'
  BY <1>3, <1>4, Zenon DEF Apt
<1> QED BY <1>1, <1>5, AptStep, Zenon

\* The call takes the copy from the cache.
LEMMA AptCall ==
    ASSUME Disjoint, JInv, NEW r \in RecordSets, Call(r)
    PROVE  \A q \in RecordSets : Apt(q)'
<1>f. /\ Covered /\ Typed /\ ZoneHeld /\ Held(r)
      /\ obj[r] \in Object /\ cache[r] \in Object /\ pass[r] \in Pass
      /\ Within(r) /\ Current(r) /\ Working(r) /\ Served(r)
      /\ obj[r].uid \in Nat /\ obj[r].gen \in Nat /\ obj[r].status.gen \in Nat
      /\ cache[r].uid \in Nat /\ cache[r].gen \in Nat
      /\ pass[r].copy.uid \in Nat /\ pass[r].copy.gen \in Nat
  BY AptFacts, Zenon
<1>1. UNCHANGED <<cache, zone, rr, obj>>
  BY Zenon DEF Call, Elsewhere, zoneVars, provider
<1>2. PICK n \in {"targets", "read"} :
        /\ pass' = [pass EXCEPT ![r] = [NoPass EXCEPT !.at = n, !.copy = cache[r]]]
        /\ n = "read" => Settled(cache[r])
  BY Zenon DEF Call, Settled
<1> DEFINE p == [NoPass EXCEPT !.at = n, !.copy = cache[r]]
<1>3. p \in Pass
  BY <1>f, ObjectFacts, Zenon DEF Pass, Steps
<1>4. p.at = n /\ p.copy = cache[r] /\ p.todo = {} /\ p.surplus = {}
  BY Zenon DEF NoPass
<1>5. pass' = [pass EXCEPT ![r] = p] /\ pass'[r] = p
  BY <1>f, <1>2, Zenon DEF Typed
<1> HIDE DEF p
<1>6. Served(r)'
  BY <1>f, <1>1, Zenon DEF Served
<1>7. Working(r)'
  <2>1. SUFFICES ASSUME n = "read" PROVE Working(r)'
    BY <1>4, <1>5, Zenon DEF Working, Writing
  <2>2. Settled(cache[r]) /\ cache[r].state = "live" /\ cache[r].uid = obj[r].uid
    BY <1>f, <1>2, <2>1, Zenon DEF Current, Settled
  <2> QED BY <1>f, <1>1, <1>4, <1>5, <2>1, <2>2 DEF Working, Current
<1> QED BY <1>f, <1>1, <1>3, <1>4, <1>5, <1>6, <1>7, AptPass, Zenon DEF Within

\* EnsureRecordSet reads the zone: what matches is served as the pass wants it.
LEMMA AptRead ==
    ASSUME Disjoint, JInv, NEW r \in RecordSets, ReadZone(r)
    PROVE  \A q \in RecordSets : Apt(q)'
<1>f. /\ Covered /\ Typed /\ ZoneHeld /\ Held(r)
      /\ obj[r] \in Object /\ cache[r] \in Object /\ pass[r] \in Pass
      /\ Within(r) /\ Current(r) /\ Working(r) /\ Served(r)
      /\ obj[r].uid \in Nat /\ obj[r].gen \in Nat /\ obj[r].status.gen \in Nat
      /\ cache[r].uid \in Nat /\ cache[r].gen \in Nat
      /\ pass[r].copy.uid \in Nat /\ pass[r].copy.gen \in Nat
  BY AptFacts, Zenon
<1>1. /\ UNCHANGED <<cache, zone, rr, obj>> /\ pass[r].at = "read" /\ pass[r].at \in Writing
  BY Zenon DEF ReadZone, Elsewhere, zoneVars, provider, Writing
<1>s. Served(r)'
  BY <1>f, <1>1, Zenon DEF Served
<1>t. /\ pass[r].copy.spec \subseteq Keys /\ pass[r].copy.spec \subseteq Domain(r)
      /\ pass[r].todo = {} /\ OwnedBy(r) \subseteq Domain(r)
  BY <1>f, <1>1, Zenon DEF Pass, Object, Within, Working
<1> DEFINE todo == {k \in pass[r].copy.spec : ~Matches(r, k)}
           surplus == OwnedSurplus(r, pass[r].copy.spec)
           p == [pass[r] EXCEPT !.todo = todo, !.surplus = surplus, !.answered = TRUE]
           x == [pass[r] EXCEPT !.at = "status", !.again = TRUE]
<1>2. CASE Advance(r, p)
  <2>1. /\ todo \subseteq pass[r].copy.spec /\ surplus \subseteq OwnedBy(r)
        /\ surplus \cap pass[r].copy.spec = {}
        /\ \A k \in pass[r].copy.spec \ todo : rr[k] = StampOf(r, pass[r].copy)
    BY Zenon DEF OwnedSurplus, OwnedBy, Matches
  <2>2. todo \subseteq Keys /\ surplus \subseteq Keys
    BY <1>t, <2>1, Zenon DEF OwnedBy
  <2> HIDE DEF todo, surplus
  <2>3. /\ p \in Pass /\ p.copy = pass[r].copy /\ p.todo = todo /\ p.surplus = surplus
    BY <1>f, <2>2, Zenon DEF Pass
  <2> HIDE DEF p
  <2>4. PICK y \in Pass :
          /\ pass' = [pass EXCEPT ![r] = y]
          /\ y.at = Following(p) /\ y.at \in {"patch", "prune", "status"}
          /\ y.copy = p.copy /\ y.todo = p.todo /\ y.surplus = p.surplus
          /\ y.refused = p.refused /\ y.again = p.again /\ y.answered = p.answered
    BY <1>2, <2>3, AdvanceFacts
  <2>5. pass'[r] = y
    BY <1>f, <2>4, Zenon DEF Typed
  <2>6. y.at # "patch" => y.todo = {}
    BY <2>4, Zenon DEF Following
  <2>7. Working(r)'
    BY <1>f, <1>1, <2>1, <2>3, <2>4, <2>5, <2>6, ZenonT(40) DEF Working
  <2> QED BY <1>1, <1>s, <1>t, <2>1, <2>3, <2>4, <2>7, AptPass, Zenon
<1>3. CASE pass' = [pass EXCEPT ![r].at = "status", ![r].again = TRUE]
  <2>1. /\ x \in Pass /\ x.at = "status" /\ x.again /\ x.copy = pass[r].copy
        /\ x.todo = pass[r].todo /\ x.surplus = pass[r].surplus
    BY <1>f, Zenon DEF Pass, Steps
  <2>2. pass' = [pass EXCEPT ![r] = x] /\ pass'[r] = x
    BY <1>f, <1>3, Zenon DEF Typed, Pass
  <2> HIDE DEF x
  <2>3. Working(r)'
    BY <1>f, <1>1, <1>t, <2>1, <2>2, Zenon DEF Working
  <2> QED BY <1>f, <1>1, <1>s, <2>1, <2>2, <2>3, AptPass, Zenon DEF Within
<1> QED BY <1>2, <1>3, Zenon DEF ReadZone

\* A PATCH writes what the pass wants, deletes none of it, and what is refused
\* is remembered.
LEMMA AptPatch ==
    ASSUME Disjoint, JInv, NEW r \in RecordSets, Patch(r)
    PROVE  \A q \in RecordSets : Apt(q)'
<1>f. /\ Covered /\ Typed /\ ZoneHeld /\ Held(r)
      /\ obj[r] \in Object /\ cache[r] \in Object /\ pass[r] \in Pass
      /\ Within(r) /\ Current(r) /\ Working(r) /\ Served(r)
      /\ obj[r].uid \in Nat /\ obj[r].gen \in Nat /\ obj[r].status.gen \in Nat
      /\ cache[r].uid \in Nat /\ cache[r].gen \in Nat
      /\ pass[r].copy.uid \in Nat /\ pass[r].copy.gen \in Nat
  BY AptFacts, Zenon
<1>1. /\ UNCHANGED <<cache, zone, obj>> /\ pass[r].at = "patch" /\ pass[r].at \in Writing
  BY Zenon DEF Patch, zoneVars, Writing
<1>2. \A k \in Keys : \/ rr'[k] = rr[k]
                      \/ k \in Domain(r) /\ (rr'[k] = None \/ rr'[k].owner = r)
  BY Touches, Zenon
<1>t. /\ pass[r].todo \subseteq Keys /\ pass[r].surplus \subseteq Keys
      /\ pass[r].refused \subseteq Keys /\ pass[r].copy.spec \subseteq Keys
      /\ obj[r].spec \subseteq Keys
  BY <1>f, Zenon DEF Pass, Object
<1>w. /\ pass[r].todo \subseteq pass[r].copy.spec
      /\ pass[r].surplus \cap pass[r].copy.spec = {}
      /\ Programmed(obj[r]) => /\ pass[r].copy.spec = obj[r].spec
                               /\ StampOf(r, pass[r].copy) = StampOf(r, obj[r])
  BY <1>f, <1>1, Zenon DEF Working, Behind, Programmed, StampOf
<1>r. rr' = rr \/ rr' = Replaced(r, pass[r])
  BY Zenon DEF Patch
<1>3. \A k \in pass[r].copy.spec :
        rr'[k] = rr[k] \/ (k \in pass[r].todo /\ rr'[k] = StampOf(r, pass[r].copy))
  BY <1>t, <1>w, <1>r, Zenon DEF Replaced, Paired
<1>s. Served(r)'
  BY <1>f, <1>1, <1>3, <1>w, Zenon DEF Served
<1>4. ASSUME NEW p \in Pass, Advance(r, p), p.copy = pass[r].copy,
             p.todo \subseteq pass[r].todo, p.surplus \subseteq pass[r].surplus,
             ~p.again => ~pass[r].again,
             ~p.again => \A k \in pass[r].copy.spec \ (p.todo \cup p.refused) :
               \/ k \notin pass[r].todo \cup pass[r].refused
               \/ rr'[k] = StampOf(r, pass[r].copy)
      PROVE  \A q \in RecordSets : Apt(q)'
  <2>4. PICK y \in Pass :
          /\ pass' = [pass EXCEPT ![r] = y]
          /\ y.at = Following(p) /\ y.at \in {"patch", "prune", "status"}
          /\ y.copy = p.copy /\ y.todo = p.todo /\ y.surplus = p.surplus
          /\ y.refused = p.refused /\ y.again = p.again /\ y.answered = p.answered
    BY <1>4, AdvanceFacts
  <2>5. pass'[r] = y
    BY <1>f, <2>4, Zenon DEF Typed
  <2>6. y.at # "patch" => y.todo = {}
    BY <2>4, Zenon DEF Following
  <2>7. ASSUME zone.state = "live", ~y.again,
               NEW k \in y.copy.spec \ (y.todo \cup y.refused)
        PROVE  rr'[k] = StampOf(r, y.copy)
    <3>1. ~pass[r].again /\ k \in pass[r].copy.spec \ (p.todo \cup p.refused)
      BY <1>4, <2>4, <2>7, Zenon
    <3>2. CASE rr'[k] = StampOf(r, pass[r].copy)
      BY <1>4, <2>4, <3>2, Zenon
    <3>3. CASE k \notin pass[r].todo \cup pass[r].refused
      <4>1. rr[k] = StampOf(r, pass[r].copy)
        BY <1>f, <1>1, <2>7, <3>1, <3>3, Zenon DEF Working
      <4> QED BY <1>3, <1>4, <2>4, <3>1, <4>1, Zenon
    <3> QED BY <1>4, <2>4, <2>7, <3>1, <3>2, <3>3, Zenon
  <2>8. Working(r)'
    BY <1>f, <1>1, <1>4, <1>w, <2>4, <2>5, <2>6, <2>7, Zenon DEF Working
  <2>9. y.copy.spec \subseteq Domain(r) /\ y.todo \subseteq Domain(r) /\ y.surplus \subseteq Domain(r)
    BY <1>f, <1>4, <2>4, Zenon DEF Within
  <2> QED BY <1>1, <1>2, <1>s, <2>4, <2>8, <2>9, AptPass, Zenon
<1> DEFINE p == pass[r]
           done == [p EXCEPT !.todo = {}, !.surplus = p.surplus \ Paired(p)]
           failed == [done EXCEPT !.refused = p.refused \cup p.todo]
           late == [failed EXCEPT !.again = TRUE]
           without(k) == [p EXCEPT !.todo = p.todo \ {k}, !.refused = p.refused \cup {k},
                                   !.surplus = p.surplus \ Paired([p EXCEPT !.todo = {k}])]
<1>d. /\ done \in Pass /\ done.copy = p.copy /\ done.todo = {} /\ done.refused = p.refused
      /\ done.surplus = p.surplus \ Paired(p) /\ done.again = p.again
  BY <1>f, <1>t, Zenon DEF Pass
<1>e. /\ failed \in Pass /\ failed.copy = p.copy /\ failed.todo = {}
      /\ failed.refused = p.refused \cup p.todo
      /\ failed.surplus = p.surplus \ Paired(p) /\ failed.again = p.again
  <2> HIDE DEF done
  <2> QED BY <1>d, <1>t, Zenon DEF Pass
<1>l. /\ late \in Pass /\ late.copy = p.copy /\ late.todo = {}
      /\ late.surplus = p.surplus \ Paired(p) /\ late.again
  <2> HIDE DEF failed
  <2> QED BY <1>e, <1>t, Zenon DEF Pass
<1>k. ASSUME NEW k \in Refused(p)
      PROVE  /\ without(k) \in Pass /\ without(k).copy = p.copy
             /\ without(k).todo = p.todo \ {k} /\ without(k).refused = p.refused \cup {k}
             /\ without(k).surplus = p.surplus \ Paired([p EXCEPT !.todo = {k}])
             /\ without(k).again = p.again
  <2>1. k \in Keys
    BY <1>t, Zenon DEF Refused
  <2> QED BY <1>f, <1>t, <2>1, Zenon DEF Pass
<1>5. \/ rr' = Replaced(r, p) /\ Advance(r, done)
      \/ Advance(r, failed) \/ Advance(r, late)
      \/ \E k \in Refused(p) : Advance(r, without(k))
  BY Zenon DEF Patch
<1> HIDE DEF done, failed, late, without
<1>6. CASE rr' = Replaced(r, p) /\ Advance(r, done)
  <2>1. \A k \in p.todo : rr'[k] = StampOf(r, p.copy)
    BY <1>6, <1>t, Zenon DEF Replaced
  <2> QED BY <1>4, <1>6, <1>d, <2>1, Zenon
<1>7. CASE Advance(r, failed)
  BY <1>4, <1>7, <1>e, Zenon
<1>8. CASE Advance(r, late)
  BY <1>4, <1>8, <1>l, Zenon
<1>9. CASE \E k \in Refused(p) : Advance(r, without(k))
  <2>1. PICK k \in Refused(p) : Advance(r, without(k))
    BY <1>9, Zenon
  <2> QED BY <1>4, <1>k, <2>1, Zenon
<1> QED BY <1>5, <1>6, <1>7, <1>8, <1>9, Zenon

\* What is pruned is not what the pass wants.
LEMMA AptPrune ==
    ASSUME Disjoint, JInv, NEW r \in RecordSets, Prune(r)
    PROVE  \A q \in RecordSets : Apt(q)'
<1>f. /\ Covered /\ Typed /\ ZoneHeld /\ Held(r)
      /\ obj[r] \in Object /\ cache[r] \in Object /\ pass[r] \in Pass
      /\ Within(r) /\ Current(r) /\ Working(r) /\ Served(r)
      /\ obj[r].uid \in Nat /\ obj[r].gen \in Nat /\ obj[r].status.gen \in Nat
      /\ cache[r].uid \in Nat /\ cache[r].gen \in Nat
      /\ pass[r].copy.uid \in Nat /\ pass[r].copy.gen \in Nat
  BY AptFacts, Zenon
<1>1. /\ UNCHANGED <<cache, zone, obj>> /\ pass[r].at = "prune" /\ pass[r].at \in Writing
  BY Zenon DEF Prune, zoneVars, Writing
<1>2. \A k \in Keys : \/ rr'[k] = rr[k]
                      \/ k \in Domain(r) /\ (rr'[k] = None \/ rr'[k].owner = r)
  BY Touches, Zenon
<1>w. /\ pass[r].surplus \cap pass[r].copy.spec = {} /\ pass[r].todo = {}
      /\ Programmed(obj[r]) => pass[r].copy.spec = obj[r].spec
      /\ pass[r].copy.spec \subseteq Keys
  BY <1>f, <1>1, Zenon DEF Working, Behind, Programmed, Pass, Object
<1>r. rr' = rr \/ rr' = [k \in Keys |-> IF k \in pass[r].surplus THEN None ELSE rr[k]]
  BY Zenon DEF Prune
<1>3. \A k \in pass[r].copy.spec : rr'[k] = rr[k]
  BY <1>w, <1>r, Zenon
<1>s. Served(r)'
  BY <1>f, <1>1, <1>3, <1>w, Zenon DEF Served
<1> DEFINE x == [pass[r] EXCEPT !.at = "status", !.surplus = {}]
<1>4. /\ x \in Pass /\ x.at = "status" /\ x.copy = pass[r].copy /\ x.todo = pass[r].todo
      /\ x.surplus = {} /\ x.refused = pass[r].refused /\ x.again = pass[r].again
  BY <1>f, Zenon DEF Pass, Steps
<1>5. pass' = [pass EXCEPT ![r] = x] /\ pass'[r] = x
  BY <1>f, Zenon DEF Prune, Typed, Pass
<1> HIDE DEF x
<1>6. Working(r)'
  BY <1>f, <1>1, <1>3, <1>4, <1>5, <1>w, ZenonT(40) DEF Working
<1> QED BY <1>f, <1>1, <1>2, <1>4, <1>5, <1>6, <1>s, AptPass, Zenon DEF Within

\* The status says Programmed at the copy's generation, when everything the copy
\* lists is served at it.
LEMMA AptStatus ==
    ASSUME Disjoint, JInv, NEW r \in RecordSets, UpdateStatus(r)
    PROVE  \A q \in RecordSets : Apt(q)'
<1>f. /\ Covered /\ Typed /\ ZoneHeld /\ Held(r)
      /\ obj[r] \in Object /\ cache[r] \in Object /\ pass[r] \in Pass
      /\ Within(r) /\ Current(r) /\ Working(r) /\ Served(r)
      /\ obj[r].uid \in Nat /\ obj[r].gen \in Nat /\ obj[r].status.gen \in Nat
      /\ cache[r].uid \in Nat /\ cache[r].gen \in Nat
      /\ pass[r].copy.uid \in Nat /\ pass[r].copy.gen \in Nat
  BY AptFacts, Zenon
<1>1. /\ UNCHANGED <<cache, zone, rr>> /\ pass[r].at = "status" /\ pass[r].at \in Writing
      /\ pass' = [pass EXCEPT ![r] = NoPass]
  BY Zenon DEF UpdateStatus, Elsewhere, zoneVars, provider, Writing, Finish
<1>h. obj[r].finalizer /\ obj[r].state # "absent"
  BY <1>f, <1>1, Zenon DEF Held, HeldAs
<1>2. CASE UNCHANGED obj
  <2>1. obj' = [obj EXCEPT ![r] = obj[r]]
    BY <1>f, <1>2, Zenon DEF Typed
  <2>2. Behind(pass[r].copy, obj[r]) /\ Behind(cache[r], obj[r]) /\ obj[r].status.gen <= obj[r].gen
        /\ obj[r].spec \subseteq Domain(r) /\ (Programmed(obj[r]) => obj[r].finalizer)
    BY <1>f, <1>1, Zenon DEF Working, Current, Within
  <2> QED BY <1>f, <1>1, <2>1, <2>2, AptObject, Zenon
<1>3. CASE obj' = [obj EXCEPT ![r].status = StatusOf(pass[r])]
  <2> DEFINE status == StatusOf(pass[r])
             o == [obj[r] EXCEPT !.status = status]
  <2>1. /\ o.state = obj[r].state /\ o.uid = obj[r].uid /\ o.gen = obj[r].gen
        /\ o.spec = obj[r].spec /\ o.status = status /\ o.finalizer = obj[r].finalizer
    BY <1>f, Zenon DEF Object
  <2>2. obj' = [obj EXCEPT ![r] = o]
    BY <1>f, <1>3, Zenon DEF Typed, Object
  <2>3. status.gen = pass[r].copy.gen /\ (status.ok => ~pass[r].again /\ pass[r].refused = {})
    BY Zenon DEF StatusOf
  <2>4. /\ obj'[r] = o /\ cache'[r] = cache[r] /\ pass'[r] = NoPass
        /\ \A q \in RecordSets \ {r} : obj'[q] = obj[q] /\ cache'[q] = cache[q] /\ pass'[q] = pass[q]
        /\ OwnedBy(r)' = OwnedBy(r)
    BY <1>f, <1>1, <2>2, Zenon DEF Typed, OwnedBy
  <2> HIDE DEF status, o
  <2>5. /\ pass[r].copy.gen <= obj[r].gen
        /\ pass[r].copy.gen = obj[r].gen => pass[r].copy.spec = obj[r].spec
        /\ pass[r].copy.uid = obj[r].uid /\ pass[r].todo = {}
    BY <1>f, <1>1, <1>h, Zenon DEF Working, Behind
  <2>6. Within(r)'
    BY <1>f, <2>1, <2>4, EmptyFacts, Zenon DEF Within
  <2>7. Current(r)'
    <3>1. Behind(cache[r], o)
      BY <1>f, <2>1, Zenon DEF Current, Behind
    <3>2. (cache[r].uid = o.uid /\ cache[r].state # "absent" /\ pass[r].copy.gen = o.gen)
             => cache[r].gen = o.gen
      BY <1>f, <1>1, <1>h, <2>1 DEF Working, Current, Behind
    <3>3. Programmed(o) => pass[r].copy.gen = o.gen
      BY <2>1, <2>3, Zenon DEF Programmed, ProgrammedAtGeneration
    <3> QED BY <1>f, <1>h, <2>1, <2>3, <2>4, <2>5, <3>1, <3>2, <3>3, Zenon DEF Current
  <2>8. Working(r)'
    BY <2>4, EmptyFacts, Zenon DEF Working
  <2>9. Served(r)'
    <3>1. SUFFICES ASSUME Programmed(o), zone.state = "live", NEW k \in o.spec
                   PROVE  rr[k] = StampOf(r, o)
      BY <1>1, <2>4, Zenon DEF Served
    <3>2. /\ ~pass[r].again /\ pass[r].refused = {} /\ pass[r].copy.gen = obj[r].gen
      BY <2>1, <2>3, <3>1, Zenon DEF Programmed, ProgrammedAtGeneration
    <3>3. rr[k] = StampOf(r, pass[r].copy)
      BY <1>f, <1>1, <2>1, <2>5, <3>1, <3>2, Zenon DEF Working
    <3> QED BY <2>1, <2>5, <3>2, <3>3, Zenon DEF StampOf
  <2>10. Apt(r)'
    BY <2>6, <2>7, <2>8, <2>9, Zenon DEF Apt
  <2> QED BY <1>1, <2>4, <2>10, AptStep, Zenon
<1> QED BY <1>2, <1>3, Zenon DEF UpdateStatus

\* DeleteRecordSet is of a record set that reports nothing any more.
LEMMA AptDelete ==
    ASSUME Disjoint, JInv, NEW r \in RecordSets,
           ReadTargets(r) \/ DeleteTargets(r) \/ Release(r)
    PROVE  \A q \in RecordSets : Apt(q)'
<1>f. /\ Covered /\ Typed /\ ZoneHeld /\ Held(r)
      /\ obj[r] \in Object /\ cache[r] \in Object /\ pass[r] \in Pass
      /\ Within(r) /\ Current(r) /\ Working(r) /\ Served(r)
      /\ obj[r].uid \in Nat /\ obj[r].gen \in Nat /\ obj[r].status.gen \in Nat
      /\ cache[r].uid \in Nat /\ cache[r].gen \in Nat
      /\ pass[r].copy.uid \in Nat /\ pass[r].copy.gen \in Nat
  BY AptFacts, Zenon
<1>1. /\ UNCHANGED <<cache, zone>> /\ pass[r].at \in Removing /\ pass[r].at \notin Writing
  BY Zenon DEF ReadTargets, DeleteTargets, Release, Elsewhere, zoneVars, Removing, Writing
<1>2. ~Settled(obj[r]) /\ ~Programmed(obj[r])
  BY <1>f, <1>1, Zenon DEF Held, HeldAs, Settled, Current, Programmed
<1>3. \A k \in Keys : \/ rr'[k] = rr[k]
                      \/ k \in Domain(r) /\ (rr'[k] = None \/ rr'[k].owner = r)
  BY Touches, Zenon DEF ReadTargets, Release, Elsewhere, provider
<1>4. ASSUME UNCHANGED obj, NEW p \in Pass, pass' = [pass EXCEPT ![r] = p], p.at \notin Writing,
             p.copy.spec \subseteq Domain(r), p.todo \subseteq Domain(r), p.surplus \subseteq Domain(r)
      PROVE  \A q \in RecordSets : Apt(q)'
  <2>1. Served(r)'
    BY <1>2, <1>4, Zenon DEF Served
  <2>2. Working(r)'
    BY <1>f, <1>4, Zenon DEF Working, Typed
  <2> QED BY <1>1, <1>3, <1>4, <2>1, <2>2, AptPass, Zenon
<1>5. CASE UNCHANGED obj /\ pass' = [pass EXCEPT ![r] = NoPass]
  BY <1>f, <1>4, <1>5, ObjectFacts, EmptyFacts, Zenon
<1>6. ASSUME UNCHANGED obj, NEW t \in SUBSET Keys, t \subseteq Domain(r),
             NEW n \in {"delete", "release"},
             pass' = [pass EXCEPT ![r].todo = t, ![r].at = n]
      PROVE  \A q \in RecordSets : Apt(q)'
  <2> DEFINE x == [pass[r] EXCEPT !.todo = t, !.at = n]
  <2>1. /\ x \in Pass /\ x.at = n /\ x.todo = t /\ x.copy = pass[r].copy
        /\ x.surplus = pass[r].surplus
    BY <1>f, Zenon DEF Pass, Steps
  <2>2. pass' = [pass EXCEPT ![r] = x]
    BY <1>f, <1>6, Zenon DEF Typed, Pass
  <2> HIDE DEF x
  <2> QED BY <1>f, <1>4, <1>6, <2>1, <2>2, Zenon DEF Within, Writing
<1>7. CASE ReadTargets(r)
  <2>1. UNCHANGED obj
    BY <1>7, Zenon DEF ReadTargets
  <2>2. CASE pass' = [pass EXCEPT ![r].todo = IF pzone THEN Targets(r, pass[r]) ELSE {},
                        ![r].at = IF (IF pzone THEN Targets(r, pass[r]) ELSE {}) = {}
                                    THEN "release" ELSE "delete"]
    <3> DEFINE t == IF pzone THEN Targets(r, pass[r]) ELSE {}
               n == IF t = {} THEN "release" ELSE "delete"
    <3>1. Targets(r, pass[r]) \subseteq pass[r].copy.spec \cup OwnedBy(r)
      BY Zenon DEF Targets, OwnedSurplus, OwnedBy
    <3>2. pass[r].copy.spec \subseteq Keys /\ OwnedBy(r) \subseteq Keys
      BY <1>f, Zenon DEF Pass, Object, OwnedBy
    <3>3. t \in SUBSET Keys /\ t \subseteq Domain(r)
      BY <1>f, <3>1, <3>2, Zenon DEF Within
    <3>4. n \in {"delete", "release"}
      BY Zenon
    <3>5. pass' = [pass EXCEPT ![r].todo = t, ![r].at = n]
      BY <2>2, Zenon
    <3> HIDE DEF t, n
    <3> QED BY <1>6, <2>1, <3>3, <3>4, <3>5, Zenon
  <2> QED BY <1>5, <1>7, <2>1, <2>2, Zenon DEF ReadTargets, Finish
<1>8. CASE DeleteTargets(r)
  BY <1>5, <1>6, <1>8, Zenon DEF DeleteTargets, Finish
<1>9. CASE Release(r)
  <2>1. CASE UNCHANGED obj
    BY <1>5, <1>9, <2>1, Zenon DEF Release, Finish
  <2>2. CASE obj' = [obj EXCEPT ![r] = Released(@)]
    BY <1>1, <1>2, <1>9, <2>2, AptReleased, Zenon DEF Release, Finish, Elsewhere, provider
  <2> QED BY <1>9, <2>1, <2>2, Zenon DEF Release
<1> QED BY <1>7, <1>8, <1>9, Zenon

\* What the zone's steps change, no live zone serves.
LEMMA AptZone ==
    ASSUME JInv, UNCHANGED <<obj, cache, pass>>, zone'.state = "live" => zone.state = "live",
           zone'.state = "live" => UNCHANGED rr,
           \A k \in Keys : rr'[k] \in {rr[k], None, Unowned}
    PROVE  \A q \in RecordSets : Apt(q)'
<1>1. SUFFICES ASSUME NEW r \in RecordSets PROVE Apt(r)'
  BY Zenon
<1>2. Apt(r)
  BY Zenon DEF JInv
<1>3. OwnedBy(r)' \subseteq OwnedBy(r)
  BY ConstantsAssumption DEF OwnedBy, Unowned
<1>4. Within(r)' /\ Current(r)'
  BY <1>2, <1>3, Zenon DEF Apt, Within, Current
<1>5. Working(r)' /\ Served(r)'
  BY <1>2, Zenon DEF Apt, Working, Served
<1> QED BY <1>4, <1>5, Zenon DEF Apt

\* The zone's watch, its reconciler and its deletion.
LEMMA AptZoneStep ==
    ASSUME JInv, RemoveZone \/ ObserveZone \/ ZoneNothing \/ ZoneAdopt \/ EnsureZone
                   \/ ZoneProgrammed \/ ClearComments \/ DropZone \/ ReleaseZone
    PROVE  \A q \in RecordSets : Apt(q)'
<1>f. Typed /\ ZoneHeld /\ zone \in Zone
  BY Zenon DEF JInv, IInv, Covered, Typed
<1>1. UNCHANGED <<obj, cache, pass>>
  BY Zenon DEF RemoveZone, ObserveZone, ZoneNothing, ZoneAdopt, EnsureZone, ZoneProgrammed,
     ClearComments, DropZone, ReleaseZone, ElsewhereZ
<1>2. zone'.state = "live" => zone.state = "live"
  <2>1. \/ UNCHANGED zone \/ zone.state = "live" \/ zone' = NoZone
        \/ zone' = [zone EXCEPT !.finalizer = TRUE] \/ zone' = [zone EXCEPT !.programmed = TRUE]
    BY Zenon DEF RemoveZone, ObserveZone, ZoneNothing, ZoneAdopt, EnsureZone, ZoneProgrammed,
       ClearComments, DropZone, ReleaseZone
  <2>2. /\ NoZone.state = "absent" /\ [zone EXCEPT !.finalizer = TRUE].state = zone.state
        /\ [zone EXCEPT !.programmed = TRUE].state = zone.state
    BY <1>f, Zenon DEF NoZone, Zone
  <2> QED BY <2>1, <2>2, Zenon
<1>3. CASE RemoveZone \/ ObserveZone \/ ZoneNothing \/ ZoneAdopt \/ EnsureZone
             \/ ZoneProgrammed \/ ReleaseZone
  <2>1. UNCHANGED rr
    BY <1>3, Zenon DEF RemoveZone, ObserveZone, ZoneNothing, ZoneAdopt, EnsureZone, ZoneProgrammed,
       ReleaseZone, provider
  <2> QED BY <1>1, <1>2, <2>1, AptZone, Zenon
<1>4. CASE ClearComments \/ DropZone
  <2>1. zone.state # "live"
    BY <1>f, <1>4, Zenon DEF ClearComments, DropZone, ZoneHeld
  <2>2. \A k \in Keys : rr'[k] \in {rr[k], None, Unowned}
    <3>1. \/ rr' = rr
          \/ rr' = [k \in Keys |-> IF rr[k] = None THEN None ELSE Unowned]
          \/ rr' = [k \in Keys |-> None]
      BY <1>4, Zenon DEF ClearComments, DropZone
    <3> QED BY <3>1, Zenon
  <2> QED BY <1>1, <1>2, <2>1, <2>2, AptZone, Zenon
<1> QED BY <1>3, <1>4, Zenon

\* The cascade deletes objects, which report nothing from then on.
LEMMA AptCascade == ASSUME JInv, Cascade PROVE \A q \in RecordSets : Apt(q)'
<1>1. UNCHANGED <<cache, pass, zone, rr>>
  BY Zenon DEF Cascade, ElsewhereZ, provider
<1>2. SUFFICES ASSUME NEW r \in RecordSets PROVE Apt(r)'
  BY Zenon
<1>f. /\ Covered /\ Typed /\ ZoneHeld /\ Held(r)
      /\ obj[r] \in Object /\ cache[r] \in Object /\ pass[r] \in Pass
      /\ Within(r) /\ Current(r) /\ Working(r) /\ Served(r)
      /\ obj[r].uid \in Nat /\ obj[r].gen \in Nat /\ obj[r].status.gen \in Nat
      /\ cache[r].uid \in Nat /\ cache[r].gen \in Nat
      /\ pass[r].copy.uid \in Nat /\ pass[r].copy.gen \in Nat
  BY AptFacts, Zenon
<1>3. CASE obj'[r] = obj[r]
  <2>1. OwnedBy(r)' = OwnedBy(r)
    BY <1>1, Zenon DEF OwnedBy
  <2> QED BY <1>f, <1>1, <1>3, <2>1, Zenon DEF Apt, Within, Current, Working, Served
<1>4. CASE obj'[r] = Deleted(obj[r]) /\ obj[r].state = "live"
  <2> DEFINE o == Deleted(obj[r])
  <2>1. o \in Object /\ o.state # "live" /\ (o.finalizer => obj[r].finalizer)
        /\ (obj[r].finalizer => o.finalizer)
    BY <1>f, <1>4, ObjectFacts, Zenon
  <2>2. /\ o.uid = obj[r].uid
        /\ \/ o.gen = obj[r].gen /\ o.spec = obj[r].spec /\ o.status = obj[r].status
           \/ o.gen = 0 /\ o.spec = {} /\ o.status.gen = 0 /\ ~o.status.ok /\ o.state = "absent"
    BY <1>f, GoneFacts, Zenon
  <2>3. obj'[r] = o
    BY <1>4, Zenon
  <2> HIDE DEF o
  <2>4. ~Programmed(o) /\ Behind(cache[r], o) /\ o.status.gen <= o.gen /\ o.spec \subseteq Domain(r)
    BY <1>f, <1>4, <2>1, <2>2 DEF Current, Behind, Programmed, Within
  <2>5. pass[r].at \in Writing => Behind(pass[r].copy, o)
    BY <1>f, <1>4, <2>2, Zenon DEF Working, Behind
  <2>6. OwnedBy(r)' = OwnedBy(r)
    BY <1>1, Zenon DEF OwnedBy
  <2>7. Within(r)' /\ Served(r)'
    BY <1>f, <1>1, <2>3, <2>4, <2>6, Zenon DEF Within, Served
  <2>8. Current(r)'
    BY <1>f, <1>1, <2>2, <2>3, <2>4, Zenon DEF Current
  <2>9. Working(r)'
    BY <1>f, <1>1, <2>2, <2>3, <2>4, <2>5, Zenon DEF Working
  <2> QED BY <2>7, <2>8, <2>9, Zenon DEF Apt
<1>5. obj'[r] = obj[r] \/ (obj'[r] = Deleted(obj[r]) /\ obj[r].state = "live")
  BY Zenon DEF Cascade, Deleted
<1> QED BY <1>3, <1>4, <1>5, Zenon

\* A restart loses the passes; the copies it lists are the objects, or missing.
LEMMA AptCrash == ASSUME JInv, Crash PROVE \A q \in RecordSets : Apt(q)'
<1>1. UNCHANGED <<obj, zone, rr>> /\ pass' = [r \in RecordSets |-> NoPass]
  BY Zenon DEF Crash, objects, provider
<1>2. SUFFICES ASSUME NEW r \in RecordSets PROVE Apt(r)'
  BY Zenon
<1>f. /\ Covered /\ Typed /\ ZoneHeld /\ Held(r)
      /\ obj[r] \in Object /\ cache[r] \in Object /\ pass[r] \in Pass
      /\ Within(r) /\ Current(r) /\ Working(r) /\ Served(r)
      /\ obj[r].uid \in Nat /\ obj[r].gen \in Nat /\ obj[r].status.gen \in Nat
      /\ cache[r].uid \in Nat /\ cache[r].gen \in Nat
      /\ pass[r].copy.uid \in Nat /\ pass[r].copy.gen \in Nat
  BY AptFacts, Zenon
<1>3. pass'[r] = NoPass /\ cache'[r] \in {NoObject, obj[r]} /\ OwnedBy(r)' = OwnedBy(r)
  BY <1>1, Zenon DEF Crash, OwnedBy
<1>4. Within(r)' /\ Served(r)'
  BY <1>f, <1>1, <1>3, EmptyFacts, Zenon DEF Within, Served
<1>5. Working(r)'
  BY <1>3, EmptyFacts, Zenon DEF Working
<1>6. Current(r)'
  BY <1>f, <1>1, <1>3, EmptyFacts DEF Current, Behind, Settled
<1> QED BY <1>4, <1>5, <1>6, Zenon DEF Apt

\* Every step keeps the passes apt.
LEMMA AptNext == ASSUME Disjoint, JInv, [Next]_vars PROVE JInv'
<1>1. IInv'
  BY CoveredStep, Zenon DEF JInv
<1>2. \A q \in RecordSets : Apt(q)'
  <2>1. CASE UNCHANGED vars
    BY <2>1, AptZone, Zenon DEF vars, zoneVars, provider
  <2>2. ASSUME NEW r \in RecordSets,
               Create(r) \/ Edit(r) \/ Remove(r) \/ CollectGarbage(r) \/ Observe(r)
        PROVE  \A q \in RecordSets : Apt(q)'
    BY <2>2, AptUser, AptObserve, Zenon
  <2>3. ASSUME NEW r \in RecordSets, Reconcile(r) PROVE \A q \in RecordSets : Apt(q)'
    BY <2>3, AptIdle, AptCall, AptRead, AptPatch, AptPrune, AptStatus, AptDelete, Zenon DEF Reconcile
  <2>4. CASE ReconcileZone
    BY <2>4, AptZoneStep, AptCascade, Zenon DEF ReconcileZone
  <2>5. CASE RemoveZone \/ ObserveZone \/ Crash
    BY <2>5, AptZoneStep, AptCrash, Zenon
  <2> QED BY <2>1, <2>2, <2>3, <2>4, <2>5, Zenon DEF Next
<1> QED BY <1>1, <1>2, Zenon DEF JInv

\* Nothing is reported and no pass is under way at first.
LEMMA AptInit == ASSUME Init, IInv PROVE JInv
<1>1. ASSUME NEW r \in RecordSets PROVE Apt(r)
  <2>1. /\ obj[r] = NoObject /\ cache[r] = NoObject /\ pass[r] = NoPass /\ OwnedBy(r) = {}
    BY Zenon DEF Init, OwnedBy
  <2> QED BY <2>1, EmptyFacts
       DEF Apt, Within, Current, Working, Served, Behind, Programmed, ProgrammedAtGeneration, Settled
<1> QED BY <1>1, Zenon DEF JInv

\* Where record sets list different RRsets, their passes stay within them.
THEOREM PassesAreApt == ASSUME Disjoint PROVE Spec => []JInv
<1>1. Init /\ IInv => JInv
  BY AptInit, Zenon
<1>2. JInv /\ [Next]_vars => JInv'
  BY AptNext, Zenon
<1> QED BY <1>1, <1>2, RecordInvariance, PTL DEF Spec

\* A record set that reports Programmed=True for its present generation has all
\* of it served as that generation wrote it, while its zone is kept, whatever
\* failed and however far the cache lags.
THEOREM ProgrammedIsTrue == ASSUME Disjoint PROVE Spec => []ProgrammedIsServed
<1>1. ASSUME JInv PROVE ProgrammedIsServed
  <2>1. \A r \in RecordSets : Served(r)
    BY <1>1, Zenon DEF JInv, Apt
  <2> QED BY <2>1, Zenon DEF Served, Programmed, ProgrammedIsServed
<1> QED BY <1>1, PassesAreApt, PTL

\* No pass deletes an RRset that another record set wrote.
THEOREM OnlyOwnIsDeleted == ASSUME Disjoint PROVE Spec => DeletesOwnOnly
<1> DEFINE Own == \A r \in RecordSets, k \in Keys :
                    (pass[r].at \in {"prune", "delete", "patch"} /\ pass'[r] # pass[r]
                       /\ rr[k] # None /\ rr'[k] = None)
                      => rr[k].owner \in {None, r}
<1>1. ASSUME JInv, [Next]_vars PROVE [Own]_vars
  <2>1. SUFFICES ASSUME Next, NEW r \in RecordSets, NEW k \in Keys,
                        pass'[r] # pass[r], rr[k] # None, rr'[k] = None
                 PROVE  rr[k].owner \in {None, r}
    BY <1>1, Zenon
  <2>f. Typed /\ \A q \in RecordSets : Within(q)
    BY <1>1, Zenon DEF JInv, IInv, Covered, Apt
  <2>2. rr'[k] # rr[k]
    BY <2>1, Zenon
  <2>3. Patch(r) \/ Prune(r) \/ DeleteTargets(r)
    <3>1. \A q \in RecordSets : ~(Create(q) \/ Edit(q) \/ Remove(q) \/ CollectGarbage(q) \/ Observe(q))
      BY <2>2, Zenon DEF Create, Edit, Remove, CollectGarbage, Observe, provider
    <3>2. ~(RemoveZone \/ ObserveZone \/ Crash \/ ReconcileZone)
      BY <2>1, <2>2, Zenon DEF RemoveZone, ObserveZone, Crash, provider, ReconcileZone, ZoneNothing,
         ZoneAdopt, EnsureZone, ZoneProgrammed, Cascade, ClearComments, DropZone, ReleaseZone,
         ElsewhereZ
    <3>3. PICK q \in RecordSets : Reconcile(q)
      BY <2>1, <3>1, <3>2, Zenon DEF Next
    <3>4. Patch(q) \/ Prune(q) \/ DeleteTargets(q)
      BY <2>2, <3>3, Zenon DEF Reconcile, Nothing, Orphan, Prepare, Call, ReadZone, UpdateStatus,
         ReadTargets, Release, Elsewhere, provider
    <3>5. \E p : pass' = [pass EXCEPT ![q] = p]
      <4>1. CASE Patch(q)
        BY <4>1, Zenon DEF Patch, Advance
      <4>2. CASE DeleteTargets(q)
        <5>1. CASE \E a : Finish(q, a)
          BY <5>1, Zenon DEF Finish
        <5>2. CASE pass' = [pass EXCEPT ![q].todo = {}, ![q].at = "release"]
          <6>1. pass' = [pass EXCEPT ![q] = [pass[q] EXCEPT !.todo = {}, !.at = "release"]]
            BY <2>f, <5>2, Zenon DEF Typed, Pass
          <6> QED BY <6>1, Zenon
        <5> QED BY <4>2, <5>1, <5>2, Zenon DEF DeleteTargets
      <4>3. CASE Prune(q)
        <5>1. pass' = [pass EXCEPT ![q] = [pass[q] EXCEPT !.at = "status", !.surplus = {}]]
          BY <2>f, <4>3, Zenon DEF Prune, Typed, Pass
        <5> QED BY <5>1, Zenon
      <4> QED BY <3>4, <4>1, <4>2, <4>3, Zenon
    <3>6. q = r
      BY <2>1, <2>f, <3>5, Zenon DEF Typed
    <3> QED BY <3>4, <3>6, Zenon
  <2>4. k \in Domain(r)
    BY <1>1, <2>2, <2>3, Touches, Zenon
  <2>5. rr[k].owner \in RecordSets \cup {None}
    BY <2>1, <2>f, Zenon DEF Typed, Stamp
  <2>6. ASSUME NEW q \in RecordSets, rr[k].owner = q PROVE q = r
    <3>1. k \in Domain(q)
      BY <2>1, <2>f, <2>6, Zenon DEF Within, OwnedBy
    <3> QED BY <2>4, <3>1, Zenon DEF Disjoint
  <2> QED BY <2>5, <2>6, Zenon
<1> QED BY <1>1, PassesAreApt, PTL DEF Spec, DeletesOwnOnly
=============================================================================
