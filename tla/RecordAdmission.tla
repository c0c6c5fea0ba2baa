--------------------------- MODULE RecordAdmission ---------------------------
(***************************************************************************)
(* What admission says of a DNSRecordSet write: DNSRecordSetValidator and  *)
(* DNSRecordSetMutator (internal/webhook) and the activity annotations     *)
(* (internal/display).                                                     *)
(*                                                                         *)
(* The API server calls the webhooks, then stores the object; other writes *)
(* fall between the two.  Storing an update checks that the object is the  *)
(* one admission compared with, so a write that lost the race is admitted  *)
(* anew.  All sets live in one namespace and name one zone, whose lookup   *)
(* may fail; a lookup that fails admits the write unchecked.  A record is  *)
(* an owner name, spelled relative or qualified, and a value.              *)
(***************************************************************************)
EXTENDS Naturals, FiniteSets, Sequences

CONSTANTS
    RecordSets,   \* names of record sets, in the order of creation ties
    Labels,       \* owner names; "*" is the wildcard
    Values,       \* record contents
    RRTypes,      \* record types users write
    MaxRecords,   \* bound: records of a set
    MaxWrites     \* bound: writes users submit

VARIABLES
    raStored,   \* the stored set per name
    raRequest,  \* the write of each set that admission let pass, not stored yet
    raRacing,   \* history: pairs of sets admission could not compare
    raDiff,     \* history: the last stored update and what was stamped on it
    raWrites

raVars == <<raStored, raRequest, raRacing, raDiff, raWrites>>

\* A record spells its owner name relative to the zone or in full.
Records == [name : Labels, full : BOOLEAN, value : Values]
Specs == [type : RRTypes, records : UNION {[1..n -> Records] : n \in 1..MaxRecords}]
NoRecordSet == [state |-> "absent", spec |-> [type |-> "none", records |-> <<>>], activity |-> {}]
NoRequest == [of |-> NoRecordSet, spec |-> NoRecordSet.spec, activity |-> {}, against |-> <<>>]
NoDiff == [old |-> NoRecordSet.spec, new |-> NoRecordSet.spec, activity |-> {}]

AdmissionInit ==
    /\ raStored = [s \in RecordSets |-> NoRecordSet]
    /\ raRequest = [s \in RecordSets |-> NoRequest]
    /\ raRacing = {}
    /\ raDiff = NoDiff
    /\ raWrites = 0

-----------------------------------------------------------------------------
(* The validating webhook.                                                 *)

NamesOf(records) == {records[i].name : i \in DOMAIN records}

\* Qualify: a relative and a full spelling are one owner name.
Qualified(spec) == NamesOf(spec.records)

\* refuseWildcardAlias: a stored wildcard of an ALIAS set may stay, by its
\* spelling.
RefuseWildcardAlias(old, new) ==
    /\ new.type = "ALIAS"
    /\ \E i \in DOMAIN new.records :
          /\ new.records[i].name = "*"
          /\ ~ (/\ old.type = "ALIAS"
                /\ \E j \in DOMAIN old.records :
                      old.records[j].name = "*" /\ old.records[j].full = new.records[i].full)

\* Fault: a CNAME contends with other CNAMEs only.
SameType(a, b) == a = b

\* typesShareName: two sets of one type contend for a name, and a CNAME with all.
TypesShareName(a, b) == a = b \/ a = "CNAME" \/ b = "CNAME"

\* The names a set holds already, which it need not claim again.
StoredNames(old, new) == IF old.type = new.type THEN Qualified(old) ELSE {}

\* newOwnerClaims less the stored names.
OwnerClaims(old, new) == Qualified(new) \ StoredNames(old, new)

\* refuseClaimedOwnerNames, against the sets the list returns: those not being
\* deleted, other than the set itself.
Holders(s, new, listed) ==
    {o \in RecordSets \ {s} : listed[o].state = "live" /\ TypesShareName(listed[o].spec.type, new.type)}

RefuseClaimedOwnerNames(s, old, new, listed) ==
    \E o \in Holders(s, new, listed) : Qualified(listed[o].spec) \cap OwnerClaims(old, new) # {}

Validate(s, old, new, listed) ==
    ~RefuseWildcardAlias(old, new) /\ ~RefuseClaimedOwnerNames(s, old, new, listed)

-----------------------------------------------------------------------------
(* The mutating webhook: what an update changed, by owner name as spelled.  *)

Spelled(r) == <<r.name, r.full>>
EntriesByName(spec) == {Spelled(spec.records[i]) : i \in DOMAIN spec.records}

\* subsetForNames and ComputeDisplayValue: the values of a name.  A CNAME, ALIAS
\* or TXT shows its first record; a type without a form of its own is counted.
SubsetForName(spec, n) == SelectSeq(spec.records, LAMBDA r : Spelled(r) = n)
ComputeDisplayValue(spec, n) ==
    LET sub == SubsetForName(spec, n)
    IN  CASE spec.type \in {"CNAME", "ALIAS", "TXT"} -> <<sub[1].value>>
          [] spec.type = "A" -> [i \in DOMAIN sub |-> sub[i].value]
          [] OTHER -> <<Len(sub)>>

\* ComputeActivityDiff: one kind of change, or "updated" when they are mixed.
ComputeActivityDiff(old, new) ==
    LET o == EntriesByName(old)
        n == EntriesByName(new)
        added == n \ o
        removed == o \ n
        updated == {x \in n \cap o : ComputeDisplayValue(old, x) # ComputeDisplayValue(new, x)}
        diff(change) == {[change |-> change, names |-> added \cup removed \cup updated]}
    IN  IF added \cup removed \cup updated = {} THEN {}
        ELSE IF removed \cup updated = {} THEN diff("added")
        ELSE IF added \cup updated = {} THEN diff("removed")
        ELSE diff("updated")

\* EnsureActivityAnnotations: the annotations say what the diff says, or go.
EnsureActivityAnnotations(old, new) == ComputeActivityDiff(old, new)

\* Default and stampActivityAnnotations: a create clears the annotations, an
\* update replaces them; with the zone missing the writer's own stay.
Default(old, new, activity, found) ==
    IF ~found THEN activity
    ELSE IF old.state = "absent" THEN {} ELSE EnsureActivityAnnotations(old.spec, new)

-----------------------------------------------------------------------------
(* Writes.                                                                 *)

\* A write passes admission; found and listed say whether the lookups answered.
\* The list comes before the object is stored.
Admit(s, spec, found) ==
    /\ raRequest[s] = NoRequest
    /\ raWrites < MaxWrites
    /\ raStored[s].state \in {"absent", "live"}
    /\ LET old == raStored[s] IN
       /\ ~RefuseWildcardAlias(old.spec, spec)
       /\ found => Validate(s, old.spec, spec, raStored)
       /\ raRequest' = [raRequest EXCEPT ![s] =
            [of |-> old, spec |-> spec, activity |-> Default(old, spec, old.activity, found),
             against |-> IF found THEN raStored ELSE <<>>]]
    /\ raWrites' = raWrites + 1
    /\ UNCHANGED <<raStored, raRacing, raDiff>>

\* Stored when the object is still the one admission saw.
Store(s) ==
    LET req == raRequest[s] IN
    /\ req # NoRequest
    /\ raRequest' = [raRequest EXCEPT ![s] = NoRequest]
    /\ IF raStored[s] # req.of
         THEN UNCHANGED <<raStored, raRacing, raDiff>>
         ELSE /\ raStored' = [raStored EXCEPT ![s] =
                   [state |-> "live", spec |-> req.spec, activity |-> req.activity]]
              /\ raRacing' = raRacing \cup
                   {{s, o} : o \in {o \in RecordSets \ {s} :
                       req.against = <<>> \/ req.against[o] # raStored[o]}}
              /\ raDiff' = IF req.of.state = "live" /\ req.against # <<>>
                             THEN [old |-> req.of.spec, new |-> req.spec, activity |-> req.activity]
                             ELSE NoDiff
    /\ UNCHANGED raWrites

\* A set is deleted, and goes once its finalizer does.
DeleteStored(s) ==
    /\ raStored[s].state \in {"live", "deleting"}
    /\ raStored' = [raStored EXCEPT ![s] =
         IF @.state = "live" THEN [@ EXCEPT !.state = "deleting"] ELSE NoRecordSet]
    /\ UNCHANGED <<raRequest, raRacing, raDiff, raWrites>>

AdmissionNext ==
    \E s \in RecordSets :
        \/ \E spec \in Specs, found \in BOOLEAN : Admit(s, spec, found)
        \/ Store(s)
        \/ DeleteStored(s)

-----------------------------------------------------------------------------
(* Properties.                                                             *)

\* PowerDNS holds one RRset of a type at a name, and none beside a CNAME.
Contend(a, b) ==
    /\ a.type = b.type \/ "CNAME" \in {a.type, b.type}
    /\ NamesOf(a.records) \cap NamesOf(b.records) # {}

\* The validator lists, then admits, and a failed lookup admits unchecked: two
\* stored sets contend for an owner name only when one was admitted without
\* being compared with the other as stored.  Sequential writes never do.
ContentionNeedsARace ==
    \A s, o \in RecordSets :
        /\ s # o
        /\ raStored[s].state = "live" /\ raStored[o].state = "live"
        /\ Contend(raStored[s].spec, raStored[o].spec)
        => {s, o} \in raRacing
=============================================================================
