------------------------- MODULE ServingAgentProofs -------------------------
(***************************************************************************)
(* What a regional member never does, for any zone, any publications and   *)
(* any number of failed saves, installations, probes and crashes.          *)
(*                                                                         *)
(* The argument: what is served, and what is approved for a restart, is    *)
(* never under a verified publication in the sense of Under: older and     *)
(* with something that the publication withdrew.  A publication is         *)
(* verified only after its own rendering was installed, and by then no     *)
(* approval that it outdates is left, neither in memory nor on disk; a     *)
(* failed save of a dropped approval keeps needsActivation, and with it a  *)
(* save, ahead of the next verification (Kept).                            *)
(***************************************************************************)
EXTENDS ServingAgent, TLAPS

\* x, if it is a zone's publication older than p, has nothing p withdrew.
Under(C, x, p) ==
    x \in C /\ IsZone(x) /\ Later(p, x) => IsZone(p) /\ DataOf(x) \subseteq DataOf(p)

\* Committed manifests are told apart by their fences.
Sequenced(C) ==
    /\ C \subseteq Manifest
    /\ \A m \in C : m.epoch > 0
    /\ \A m, n \in C : m = n \/ Later(m, n) \/ Later(n, m)

State(C) == [pub : C \union {NoFence}, verified : BOOLEAN, seen : Nat,
             chunks : SUBSET C, approved : C \union {NoFence, Nil},
             rendered : C \union {Empty, Nil}]

\* A checkpoint whose publication is verified, while v is served.
Good(C, v, s) ==
    s.verified => s.pub # NoFence /\ Under(C, v, s.pub) /\ Under(C, s.approved, s.pub)

\* The fence and the high-water mark of the disk are not ahead of memory's.
Marked(s) == IsZone(s.pub) => SeenOf[s.pub.content] <= s.seen
Fenced(m, d) == ~ Later(d.pub, m.pub) /\ d.seen <= m.seen /\ Marked(m) /\ Marked(d)

\* A publication acknowledged when the disk had it.
Acked(C, v, m, d, p) ==
    /\ ~ Later(p, d.pub) /\ SeenOf[p.content] <= d.seen
    /\ Under(C, v, p) /\ Under(C, m.approved, p) /\ Under(C, d.approved, p)

Core(C, v, m, d, k) ==
    /\ Sequenced(C)
    /\ m \in State(C) /\ d \in State(C) /\ k \subseteq [pub : C, durable : BOOLEAN]
    /\ v \in {Empty, Gated} \/ (v \in C /\ IsZone(v))
    /\ Fenced(m, d) /\ Good(C, v, m) /\ Good(C, v, d)
    /\ m.verified /\ d.pub = m.pub => Under(C, d.approved, d.pub)
    /\ \A a \in k : a.durable => Acked(C, v, m, d, a.pub)

\* An approval is dropped on disk too, or needsActivation is set.
Kept(n, m, d) == n \/ m.approved = d.approved \/ d.approved = d.pub

\* What WithdrawalGates says, for zones without data too.
Gates(C, v, l, s) == l \/ CanRetain(s) \/ Under(C, v, s.pub)

Sure(s) == s.verified \/ s.pub = NoFence

\* What the holder of the lock has established.
Flow ==
    /\ at \in {"fences", "record"} =>
         /\ next \in Committed /\ ~ Later(mem.pub, next)
         /\ IsZone(next) => mem.seen <= SeenOf[next.content]
         /\ boot = Nil => trust.ready
    /\ at = "record" /\ IsZone(next) => SeenOf[next.content] <= mem.seen
    /\ at \in {"plan", "install", "installed", "settle"} =>
         \/ job \in {"first", "retry"} /\ mem.pub # NoFence
         \/ job = "second" /\ mem.verified
         \/ job \in {"activate", "settle"} /\ Sure(mem)
    /\ at \in {"pending", "beat"} => Sure(mem)
    /\ at \in {"verify", "verified"} => mem.pub # NoFence
    /\ at = "ack" => mem.verified
    /\ at = "down" => mem = disk

\* What the daemons answer from, seen from where the holder is.
Serves ==
    /\ at \in {"install", "installed", "settle", "verify", "verified"}
         => Under(Committed, mem.approved, mem.pub)
    /\ at = "installed" => served = Render(mem.pub) /\ mem.rendered = served
    /\ at \in {"settle", "verify", "verified", "ack"} => served = Render(mem.pub) /\ ~ needs
    /\ at # "down" /\ ~ needs => served = mem.rendered
    /\ at = "idle" => Gates(Committed, served, late, mem)

\* After the limit a restored configuration is withdrawn, and nothing but a
\* bootstrap's events is handled.
Trusted ==
    /\ trust.withdrawn => trust.restored /\ trust.expired /\ at # "down"
    /\ trust.withdrawn /\ ~ trust.ready => served = Gated /\ at \in {"idle", "fences", "record"}

\* TypeOK of what Core does not cover.
Logged ==
    /\ log \in Seq(Manifest) /\ Len(log) <= MaxLog
    /\ log # <<>> => \A m \in Committed : ~ Later(m, Last(log))

Queued(C, t, b) ==
    /\ t \subseteq {"chunk", "manifest"} \X C
    /\ b # Nil => b \in [m : C \union {NoFence}, left : {"chunk", "manifest", "done"}]

Typed ==
    /\ Queued(Committed, todo, boot)
    /\ needs \in BOOLEAN /\ late \in BOOLEAN
    /\ installed \in Committed \union {NoFence, Nil}
    /\ at \in {"idle", "down", "fences", "record", "plan", "install", "installed",
               "settle", "verify", "verified", "ack", "pending", "beat"}
    /\ job \in {"none", "first", "second", "retry", "activate", "settle"}
    /\ next \in Committed \union {Nil}
    /\ trust \in [restored : BOOLEAN, ready : BOOLEAN, expired : BOOLEAN, withdrawn : BOOLEAN]
    /\ faults \in 0 .. MaxFaults

IInv == /\ Logged /\ Typed /\ Core(Committed, served, mem, disk, acks)
        /\ Kept(needs, mem, disk) /\ Flow /\ Serves /\ Trusted

\* What a step does to the recorded publications and the acknowledgements.
Moves ==
    /\ disk'.pub \in {disk.pub, mem.pub} \/ (at = "record" /\ disk'.pub = next)
    /\ mem'.pub \in {mem.pub, disk.pub} \/ (at = "record" /\ mem'.pub = next)
    /\ \/ acks' = acks
       \/ /\ acks' = acks \union {Verified} /\ served' = served
          /\ mem.verified /\ (IsZone(mem.pub) => served = Render(mem.pub))

-----------------------------------------------------------------------------
(* Fences *)

LEMMA LaterFacts ==
    ASSUME NEW a \in Manifest \union {NoFence}, NEW b \in Manifest \union {NoFence},
           NEW c \in Manifest \union {NoFence}
    PROVE  /\ ~ Later(a, a) /\ ~ Later(NoFence, a)
           /\ Later(a, b) => ~ Later(b, a)
           /\ ~ Later(a, b) /\ ~ Later(b, c) => ~ Later(a, c)
<1>1. \A p \in Manifest \union {NoFence} : p.epoch \in Nat /\ p.revision \in Nat
  BY DEF Manifest, NoFence
<1>2. NoFence.epoch = 0 /\ NoFence.revision = 0
  BY Zenon DEF NoFence
<1> QED BY <1>1, <1>2 DEF Later

LEMMA FencesTell ==
    ASSUME NEW C, Sequenced(C), NEW p \in C \union {NoFence}, NEW q \in C \union {NoFence},
           ~ Later(p, q), ~ Later(q, p)
    PROVE  p = q
<1>1. ASSUME NEW m \in C PROVE Later(m, NoFence)
  <2>1. m.epoch > 0 /\ NoFence.epoch = 0
    BY Zenon DEF Sequenced, NoFence
  <2> QED BY <2>1, Zenon DEF Later
<1> QED BY <1>1, Zenon DEF Sequenced

LEMMA Marks ==
    ASSUME NEW C, Sequenced(C)
    PROVE  /\ C \union {NoFence} \subseteq Manifest \union {NoFence}
           /\ NoFence \notin C /\ Nil \notin C /\ Gated \notin C /\ Empty \notin C
           /\ Nil # NoFence /\ Nil # Gated /\ Nil # Empty /\ Gated # Empty
           /\ ~ IsZone(NoFence)
<1>1. NoFence \notin C
  BY DEF Sequenced, NoFence
<1> QED BY <1>1, MarksAssumption, Zenon DEF Sequenced, IsZone

-----------------------------------------------------------------------------
(* Checkpoints *)

\* What Save writes, and the edits of a checkpoint.
LEMMA PrunedFacts ==
    ASSUME NEW C, NEW s \in State(C)
    PROVE  /\ Pruned(s) \in State(C)
           /\ Pruned(s).pub = s.pub /\ Pruned(s).verified = s.verified
           /\ Pruned(s).seen = s.seen /\ Pruned(s).approved = s.approved
           /\ Pruned(s).rendered = s.rendered
BY Zenon DEF Pruned, State

LEMMA EditFacts ==
    ASSUME NEW C, Sequenced(C), NEW s \in State(C)
    PROVE  /\ LET e == [s EXCEPT !.verified = TRUE] IN
                /\ e \in State(C) /\ e.pub = s.pub /\ e.verified = TRUE
                /\ e.seen = s.seen /\ e.approved = s.approved /\ e.rendered = s.rendered
           /\ LET e == [s EXCEPT !.approved = s.pub] IN
                /\ e \in State(C) /\ e.pub = s.pub /\ e.verified = s.verified
                /\ e.seen = s.seen /\ e.approved = s.pub /\ e.rendered = s.rendered
           /\ LET e == Withdraw(s) IN
                /\ e \in State(C) /\ e.pub = s.pub /\ e.verified = s.verified
                /\ e.seen = s.seen /\ e.approved = Nil /\ e.rendered = s.rendered
           /\ \A p \in C \union {NoFence} :
                LET e == [s EXCEPT !.rendered = Render(p)] IN
                /\ e \in State(C) /\ e.pub = s.pub /\ e.verified = s.verified
                /\ e.seen = s.seen /\ e.approved = s.approved /\ e.rendered = Render(p)
<1>1. \A p \in C \union {NoFence} : Render(p) \in C \union {Empty, Nil}
  BY Marks, Zenon DEF Render
<1> QED BY <1>1, Zenon DEF State, Withdraw

LEMMA FenceFacts ==
    ASSUME NEW C, Sequenced(C), NEW s \in State(C), NEW n \in C
    PROVE  LET e == WithFences(s, n) IN
             /\ e \in State(C) /\ e.pub = s.pub /\ e.verified = s.verified
             /\ e.approved = s.approved /\ e.rendered = s.rendered
             /\ s.seen <= e.seen /\ SeenOf[n.content] <= e.seen
             /\ e.seen \in {s.seen, SeenOf[n.content]}
<1>1. SeenOf[n.content] \in Nat /\ s.seen \in Nat
  BY AgentAssumption, Zenon DEF State, Sequenced, Manifest
<1>2. (IF SeenOf[n.content] > s.seen THEN SeenOf[n.content] ELSE s.seen) \in Nat
  BY <1>1, Zenon
<1>3. WithFences(s, n) \in State(C)
  BY <1>2, Zenon DEF WithFences, State
<1> QED BY <1>1, <1>3 DEF WithFences, State

\* The mapping of a publication into what is served.
LEMMA RenderFacts ==
    ASSUME NEW C, Sequenced(C), NEW p \in C \union {NoFence}
    PROVE  /\ Render(p) = Empty \/ (Render(p) = p /\ p \in C /\ IsZone(p))
           /\ Render(p) \in {Empty, Gated} \/ (Render(p) \in C /\ IsZone(Render(p)))
           /\ \A q : ~ Later(q, p) => Under(C, Render(p), q)
           /\ Under(C, Gated, p) /\ Under(C, Empty, p) /\ Under(C, Nil, p) /\ Under(C, p, p)
<1>1. ~ Later(p, p) /\ (p = NoFence => ~ IsZone(p))
  BY Marks, LaterFacts, Zenon
<1> QED BY <1>1, Marks, Zenon DEF Render, IsZone, Under

-----------------------------------------------------------------------------
(* What the steps do to the checkpoints, the daemons and the acknowledgements *)

LEMMA CoreFacts ==
    ASSUME NEW C, NEW v, NEW m, NEW d, NEW k, Core(C, v, m, d, k)
    PROVE  /\ Sequenced(C) /\ m \in State(C) /\ d \in State(C)
           /\ m.pub \in C \union {NoFence} /\ d.pub \in C \union {NoFence}
           /\ m.approved \in C \union {NoFence, Nil} /\ d.approved \in C \union {NoFence, Nil}
           /\ m.seen \in Nat /\ d.seen \in Nat /\ m.verified \in BOOLEAN /\ d.verified \in BOOLEAN
           /\ \A a \in k : a.pub \in C /\ a.durable \in BOOLEAN
           /\ C \union {NoFence} \subseteq Manifest \union {NoFence}
           /\ ~ Later(m.pub, m.pub) /\ ~ Later(d.pub, d.pub) /\ ~ Later(d.pub, m.pub)
           /\ \A a \in k : a.durable => ~ Later(a.pub, d.pub) /\ ~ Later(a.pub, m.pub)
<1>1. /\ Sequenced(C) /\ m \in State(C) /\ d \in State(C)
      /\ k \subseteq [pub : C, durable : BOOLEAN] /\ ~ Later(d.pub, m.pub)
      /\ \A a \in k : a.durable => ~ Later(a.pub, d.pub)
  BY Zenon DEF Core, Fenced, Acked
<1>2. /\ m.pub \in C \union {NoFence} /\ d.pub \in C \union {NoFence}
      /\ m.approved \in C \union {NoFence, Nil} /\ d.approved \in C \union {NoFence, Nil}
      /\ m.seen \in Nat /\ d.seen \in Nat /\ m.verified \in BOOLEAN /\ d.verified \in BOOLEAN
      /\ \A a \in k : a.pub \in C /\ a.durable \in BOOLEAN
  BY <1>1, Zenon DEF State
<1>3. C \union {NoFence} \subseteq Manifest \union {NoFence}
  BY <1>1, Marks, Zenon
<1>4. ~ Later(m.pub, m.pub) /\ ~ Later(d.pub, d.pub)
  BY <1>2, <1>3, LaterFacts, Zenon
<1>5. ASSUME NEW a \in k, a.durable PROVE ~ Later(a.pub, m.pub)
  BY <1>1, <1>2, <1>3, <1>5, LaterFacts, Zenon
<1> QED BY <1>1, <1>2, <1>3, <1>4, <1>5, Zenon

\* The daemons are gated, or answer from the recorded publication.
LEMMA CoreServe ==
    ASSUME NEW C, NEW v, NEW m, NEW d, NEW k, Core(C, v, m, d, k),
           NEW w \in {v, Gated, Render(m.pub)}
    PROVE  Core(C, w, m, d, k)
<1>f. Sequenced(C) /\ m.pub \in C \union {NoFence} /\ d.pub \in C \union {NoFence}
      /\ \A a \in k : a.pub \in C
  BY CoreFacts, Zenon
<1>1. w \in {Empty, Gated} \/ (w \in C /\ IsZone(w))
  BY <1>f, RenderFacts DEF Core
<1>2. ASSUME NEW p \in C \union {NoFence}, ~ Later(p, m.pub), Under(C, v, p)
      PROVE  Under(C, w, p)
  BY <1>f, <1>2, RenderFacts, Zenon
<1>3. Good(C, w, m) /\ Good(C, w, d)
  BY <1>f, <1>2, CoreFacts, Zenon DEF Core, Good
<1>4. ASSUME NEW a \in k, a.durable PROVE Acked(C, w, m, d, a.pub)
  <2>0. Acked(C, v, m, d, a.pub)
    BY <1>4, Zenon DEF Core
  <2>1. Acked(C, v, m, d, a.pub) /\ ~ Later(a.pub, m.pub) /\ a.pub \in C
    BY <1>f, <1>4, <2>0, CoreFacts, Zenon
  <2> QED BY <1>2, <2>1, Zenon DEF Acked
<1> QED BY <1>1, <1>3, <1>4, Zenon DEF Core

\* A save that keeps the publication.
LEMMA CoreSave ==
    ASSUME NEW C, NEW v, NEW m, NEW d, NEW k, Core(C, v, m, d, k),
           NEW n \in State(C), NEW e \in State(C),
           n.pub = m.pub, n.verified = m.verified, m.seen <= n.seen,
           n.approved \in {m.approved, Nil, m.pub},
           e = d \/ (/\ e.pub = m.pub /\ e.verified = m.verified /\ e.seen = n.seen
                     /\ e.approved \in {m.approved, Nil, m.pub})
    PROVE  Core(C, v, n, e, k)
<1>f. Sequenced(C) /\ m.pub \in C \union {NoFence} /\ d.pub \in C \union {NoFence}
      /\ m.seen \in Nat /\ d.seen \in Nat /\ n.seen \in Nat /\ e.seen \in Nat
      /\ \A a \in k : a.pub \in C
  BY CoreFacts, Zenon DEF State
<1>m. Marked(m) => SeenOf[m.pub.content] <= m.seen \/ ~ IsZone(m.pub)
  BY Zenon DEF Marked
<1>s. ASSUME NEW p \in C PROVE SeenOf[p.content] \in Nat
  BY <1>f, AgentAssumption, Zenon DEF Sequenced, Manifest
<1>z. IsZone(m.pub) => m.pub \in C
  BY <1>f, Marks, Zenon
<1>1. Fenced(n, e)
  <2>1. ~ Later(d.pub, m.pub) /\ d.seen <= m.seen /\ Marked(m) /\ Marked(d)
    BY Zenon DEF Core, Fenced
  <2>2. Marked(n)
    BY <1>f, <1>s, <1>z, <2>1 DEF Marked
  <2>3. CASE e = d
    BY <1>f, <2>1, <2>2, <2>3 DEF Fenced
  <2>4. CASE e # d
    <3>1. Marked(e)
      BY <2>2, <2>4, Zenon DEF Marked
    <3>2. ~ Later(e.pub, n.pub)
      BY <2>4, CoreFacts, Zenon
    <3> QED BY <1>f, <2>2, <2>4, <3>1, <3>2 DEF Fenced
  <2> QED BY <2>3, <2>4, Zenon
<1>2. ASSUME NEW p \in C \union {NoFence}, ~ Later(p, m.pub), Under(C, m.approved, p),
             NEW x \in {m.approved, Nil, m.pub}
      PROVE  Under(C, x, p)
  <2>1. Under(C, Nil, p)
    BY <1>f, RenderFacts, Zenon
  <2>2. Under(C, m.pub, p)
    BY <1>2, Zenon DEF Under
  <2> QED BY <1>2, <2>1, <2>2, Zenon
<1>3. Good(C, v, n)
  BY <1>f, <1>2, CoreFacts, Zenon DEF Core, Good
<1>4. Good(C, v, e)
  BY <1>f, <1>2, CoreFacts, Zenon DEF Core, Good
<1>5. n.verified /\ e.pub = n.pub => Under(C, e.approved, e.pub)
  BY <1>f, <1>2, CoreFacts, ZenonT(40) DEF Core, Good
<1>6. ASSUME NEW a \in k, a.durable PROVE Acked(C, v, n, e, a.pub)
  <2>1. Acked(C, v, m, d, a.pub) /\ ~ Later(a.pub, m.pub) /\ d.seen <= m.seen
    BY <1>6, CoreFacts, ZenonT(40) DEF Core, Fenced
  <2>2. Under(C, n.approved, a.pub) /\ Under(C, e.approved, a.pub)
    BY <1>f, <1>2, <2>1, Zenon DEF Acked
  <2>3. ~ Later(a.pub, e.pub)
    BY <2>1, Zenon DEF Acked
  <2>4. SeenOf[a.pub.content] <= e.seen
    BY <1>f, <1>s, <2>1 DEF Acked
  <2> QED BY <2>1, <2>2, <2>3, <2>4, Zenon DEF Acked
<1> QED BY <1>1, <1>3, <1>4, <1>5, <1>6, Zenon DEF Core

\* activatePublication records a publication that is not older.
LEMMA CoreRecord ==
    ASSUME NEW C, NEW v, NEW m, NEW d, NEW k, Core(C, v, m, d, k),
           NEW n \in State(C), NEW e \in {d, n}, n.pub \in C, ~ Later(m.pub, n.pub),
           n.verified = FALSE, n.seen = m.seen, Marked(n), n.approved = m.approved
    PROVE  Core(C, v, n, e, k)
<1>f. Sequenced(C) /\ m.pub \in C \union {NoFence} /\ d.pub \in C \union {NoFence}
      /\ C \union {NoFence} \subseteq Manifest \union {NoFence}
      /\ m.seen \in Nat /\ d.seen \in Nat /\ \A a \in k : a.pub \in C
  BY CoreFacts, Zenon
<1>s. ASSUME NEW p \in C PROVE SeenOf[p.content] \in Nat
  BY <1>f, AgentAssumption, Zenon DEF Sequenced, Manifest
<1>0. ~ Later(d.pub, m.pub) /\ d.seen <= m.seen /\ Marked(m) /\ Marked(d)
  BY Zenon DEF Core, Fenced
<1>1. ~ Later(d.pub, n.pub) /\ ~ Later(n.pub, n.pub)
  BY <1>f, <1>0, LaterFacts, Zenon
<1>2. Fenced(n, e)
  BY <1>f, <1>0, <1>1 DEF Fenced
<1>3. Good(C, v, n) /\ Good(C, v, e)
  BY Zenon DEF Core, Good
<1>4. ASSUME NEW a \in k, a.durable PROVE Acked(C, v, n, e, a.pub)
  <2>0. Acked(C, v, m, d, a.pub)
    BY <1>4, Zenon DEF Core
  <2>1. Acked(C, v, m, d, a.pub) /\ ~ Later(a.pub, m.pub) /\ a.pub \in C
    BY <1>f, <1>4, <2>0, CoreFacts, Zenon
  <2>2. ~ Later(a.pub, n.pub)
    BY <1>f, <2>1, LaterFacts, Zenon
  <2>3. SeenOf[a.pub.content] <= e.seen
    BY <1>f, <1>s, <1>0, <2>1 DEF Acked
  <2> QED BY <2>1, <2>2, <2>3, Zenon DEF Acked
<1> QED BY <1>2, <1>3, <1>4, Zenon DEF Core

\* A publication is verified while its own rendering is served and no approval
\* that it outdates is left.
LEMMA CoreVerify ==
    ASSUME NEW C, NEW v, NEW m, NEW d, NEW k, Core(C, v, m, d, k),
           NEW n \in State(C), NEW e \in {d, n},
           n.pub = m.pub, n.verified = TRUE, n.seen = m.seen, n.approved = m.approved,
           m.pub # NoFence, v = Render(m.pub), Under(C, m.approved, m.pub),
           d.pub = m.pub => Under(C, d.approved, d.pub)
    PROVE  Core(C, v, n, e, k)
<1>f. Sequenced(C) /\ m.pub \in C \union {NoFence} /\ ~ Later(m.pub, m.pub)
      /\ \A a \in k : a.pub \in C
  BY CoreFacts, Zenon
<1>0. ~ Later(d.pub, m.pub) /\ d.seen <= m.seen /\ Marked(m) /\ Marked(d) /\ m.seen \in Nat
  BY CoreFacts, ZenonT(40) DEF Core, Fenced
<1>1. Fenced(n, e)
  <2>1. Marked(n) /\ n.seen <= n.seen
    BY <1>0 DEF Marked
  <2>2. CASE e = d
    BY <1>0, <2>1, <2>2, Zenon DEF Fenced
  <2>3. CASE e = n
    BY <1>f, <2>1, <2>3, Zenon DEF Fenced
  <2> QED BY <2>2, <2>3, Zenon
<1>2. Under(C, v, n.pub)
  BY <1>f, RenderFacts, Zenon
<1>3. Good(C, v, n) /\ Good(C, v, e)
  BY <1>2, Zenon DEF Core, Good
<1>4. ASSUME NEW a \in k, a.durable PROVE Acked(C, v, n, e, a.pub)
  <2>0. Acked(C, v, m, d, a.pub)
    BY <1>4, Zenon DEF Core
  <2>1. Acked(C, v, m, d, a.pub) /\ ~ Later(a.pub, m.pub) /\ a.pub \in C
    BY <1>f, <1>4, <2>0, CoreFacts, Zenon
  <2>2. SeenOf[a.pub.content] \in Nat /\ d.seen \in Nat
    BY <1>f, <2>1, CoreFacts, AgentAssumption DEF Sequenced, Manifest
  <2>3. SeenOf[a.pub.content] <= e.seen
    BY <1>0, <2>1, <2>2 DEF Acked
  <2> QED BY <2>1, <2>3, Zenon DEF Acked
<1>5. e.pub = n.pub => Under(C, e.approved, e.pub)
  BY Zenon
<1> QED BY <1>1, <1>3, <1>4, <1>5, Zenon DEF Core

\* A verified publication is acknowledged.
LEMMA CoreAck ==
    ASSUME NEW C, NEW v, NEW m, NEW d, NEW k, Core(C, v, m, d, k), m.verified
    PROVE  Core(C, v, m, d, k \union {[pub |-> m.pub, durable |-> ~ Later(m.pub, d.pub)]})
<1> DEFINE a == [pub |-> m.pub, durable |-> ~ Later(m.pub, d.pub)]
<1>1. Good(C, v, m)
  BY Zenon DEF Core
<1>2. m.pub \in C /\ Under(C, v, m.pub) /\ Under(C, m.approved, m.pub)
  BY <1>1, CoreFacts, Zenon DEF Good
<1>3. (~ Later(m.pub, d.pub)) \in BOOLEAN
  BY Zenon DEF Later
<1>4. a \in [pub : C, durable : BOOLEAN] /\ a.pub = m.pub /\ a.durable = ~ Later(m.pub, d.pub)
  BY <1>2, <1>3, Zenon
<1>5. ASSUME a.durable PROVE Acked(C, v, m, d, a.pub)
  <2>0. ~ Later(m.pub, d.pub) /\ ~ Later(d.pub, m.pub)
    BY <1>4, <1>5, CoreFacts, Zenon
  <2>1. d.pub = m.pub
    BY <2>0, CoreFacts, FencesTell
  <2>2. Under(C, d.approved, m.pub)
    BY <2>1, Zenon DEF Core
  <2>3. SeenOf[m.pub.content] <= d.seen
    <3>1. CASE IsZone(m.pub)
      BY <2>1, <3>1, Zenon DEF Core, Fenced, Marked
    <3>2. CASE ~ IsZone(m.pub)
      <4>1. m.pub.content = Gone
        BY <1>2, <3>2, CoreFacts, Marks DEF IsZone
      <4> QED BY <4>1, CoreFacts, AgentAssumption
    <3> QED BY <3>1, <3>2, Zenon
  <2> QED BY <1>2, <1>4, <2>1, <2>2, <2>3, CoreFacts, Zenon DEF Acked
<1> HIDE DEF a
<1>6. Core(C, v, m, d, k \union {a})
  BY <1>4, <1>5, Zenon DEF Core
<1> QED BY <1>6, Zenon DEF a

\* A crash loses the checkpoint in memory.
LEMMA CoreCrash ==
    ASSUME NEW C, NEW v, NEW m, NEW d, NEW k, Core(C, v, m, d, k)
    PROVE  Core(C, v, d, d, k)
<1>1. Fenced(d, d)
  BY CoreFacts DEF Core, Fenced
<1>2. d.verified => Under(C, d.approved, d.pub)
  BY Zenon DEF Core, Good
<1>3. ASSUME NEW a \in k, a.durable PROVE Acked(C, v, d, d, a.pub)
  BY <1>3, Zenon DEF Core, Acked
<1> QED BY <1>1, <1>2, <1>3, Zenon DEF Core

\* A restart serves the approved configuration if nothing of it is withdrawn.
LEMMA CoreRestart ==
    ASSUME NEW C, NEW v, NEW m, NEW k, Core(C, v, m, m, k), CanRetain(m)
    PROVE  Core(C, Render(m.approved), m, m, k)
<1> DEFINE w == Render(m.approved)
<1>f. Sequenced(C) /\ m.pub \in C \union {NoFence} /\ m.approved \in C \union {NoFence}
      /\ \A a \in k : a.pub \in C
  BY CoreFacts, Zenon DEF CanRetain
<1>1. w \in {Empty, Gated} \/ (w \in C /\ IsZone(w))
  BY <1>f, RenderFacts, Zenon
<1>2. ASSUME NEW p \in C \union {NoFence}, Under(C, m.approved, p) PROVE Under(C, w, p)
  BY <1>f, <1>2, RenderFacts, Zenon
<1>3. Good(C, w, m)
  BY <1>f, <1>2, Zenon DEF Core, Good
<1>4. ASSUME NEW a \in k, a.durable PROVE Acked(C, w, m, m, a.pub)
  BY <1>f, <1>2, <1>4, Zenon DEF Core, Acked
<1> HIDE DEF w
<1>5. Core(C, w, m, m, k)
  BY <1>1, <1>3, <1>4, Zenon DEF Core
<1> QED BY <1>5, Zenon DEF w

\* A publication is committed, later than all before.
LEMMA CoreCommit ==
    ASSUME NEW C, NEW v, NEW m, NEW d, NEW k, Core(C, v, m, d, k),
           NEW n \in Manifest, n.epoch > 0, \A p \in C : Later(n, p)
    PROVE  Core(C \union {n}, v, m, d, k)
<1> DEFINE B == C \union {n}
<1>f. /\ Sequenced(C) /\ m \in State(C) /\ d \in State(C) /\ k \subseteq [pub : C, durable : BOOLEAN]
  BY Zenon DEF Core
<1>1. Sequenced(B)
  BY <1>f, Zenon DEF Sequenced
<1>2. m \in State(B) /\ d \in State(B) /\ k \subseteq [pub : B, durable : BOOLEAN]
  BY <1>f, Zenon DEF State
<1>3. ASSUME NEW x \in C \union {NoFence, Nil, Empty, Gated}, NEW p, Under(C, x, p) PROVE Under(B, x, p)
  <2>1. x \in B => x \in C
    BY <1>1, Marks, Zenon
  <2> QED BY <1>3, <2>1, Zenon DEF Under
<1>4. v \in C \union {NoFence, Nil, Empty, Gated} /\ m.approved \in C \union {NoFence, Nil, Empty, Gated}
      /\ d.approved \in C \union {NoFence, Nil, Empty, Gated}
  BY <1>f, Zenon DEF Core, State
<1>5. Good(B, v, m) /\ Good(B, v, d)
  BY <1>3, <1>4, Zenon DEF Core, Good
<1>6. m.verified /\ d.pub = m.pub => Under(B, d.approved, d.pub)
  BY <1>3, <1>4, Zenon DEF Core
<1>7. ASSUME NEW a \in k, a.durable PROVE Acked(B, v, m, d, a.pub)
  BY <1>3, <1>4, <1>7, Zenon DEF Core, Acked
<1>8. v \in {Empty, Gated} \/ (v \in B /\ IsZone(v))
  BY Zenon DEF Core
<1> HIDE DEF B
<1>9. Core(B, v, m, d, k)
  BY <1>1, <1>2, <1>5, <1>6, <1>7, <1>8, Zenon DEF Core
<1> QED BY <1>9, Zenon DEF B

-----------------------------------------------------------------------------
(* Facts shared by the steps *)

LEMMA UnderGrows ==
    ASSUME NEW C, NEW n, Sequenced(C \union {n}),
           NEW x \in C \union {NoFence, Nil, Empty, Gated}, NEW p, Under(C, x, p)
    PROVE  Under(C \union {n}, x, p)
<1>1. x \in C \union {n} => x \in C \/ x = n
  BY Zenon
<1>2. n \notin {NoFence, Nil, Empty, Gated}
  BY Marks, Zenon
<1>3. x \in C \union {n} => x \in C
  BY <1>2, Zenon
<1> QED BY <1>3, Zenon DEF Under

\* What the approved configuration may keep is not under the publication.
LEMMA RetainFacts ==
    ASSUME NEW C, NEW s, NEW t, s.pub = t.pub, s.approved = t.approved, CanRetain(s)
    PROVE  CanRetain(t) /\ Under(C, t.approved, t.pub)
BY Zenon DEF CanRetain, Under

LEMMA StateFacts ==
    ASSUME IInv
    PROVE  /\ Core(Committed, served, mem, disk, acks) /\ Kept(needs, mem, disk)
           /\ Sequenced(Committed) /\ mem \in State(Committed) /\ disk \in State(Committed)
           /\ mem.pub \in Committed \union {NoFence} /\ disk.pub \in Committed \union {NoFence}
           /\ mem.verified \in BOOLEAN /\ needs \in BOOLEAN
           /\ mem.verified => mem.pub \in Committed /\ Under(Committed, served, mem.pub)
           /\ \A p \in Committed \union {NoFence} :
                Under(Committed, Gated, p) /\ Under(Committed, Nil, p) /\ Under(Committed, p, p)
<1>1. Core(Committed, served, mem, disk, acks) /\ Kept(needs, mem, disk) /\ needs \in BOOLEAN
  BY Zenon DEF IInv, Typed
<1>2. /\ Sequenced(Committed) /\ mem \in State(Committed) /\ disk \in State(Committed)
      /\ mem.pub \in Committed \union {NoFence} /\ disk.pub \in Committed \union {NoFence}
      /\ mem.verified \in BOOLEAN
  BY <1>1, CoreFacts, Zenon
<1>3. Good(Committed, served, mem)
  BY <1>1, Zenon DEF Core
<1>4. mem.verified => mem.pub \in Committed /\ Under(Committed, served, mem.pub)
  BY <1>2, <1>3, Zenon DEF Good
<1>5. \A p \in Committed \union {NoFence} :
        Under(Committed, Gated, p) /\ Under(Committed, Nil, p) /\ Under(Committed, p, p)
  BY <1>2, RenderFacts, Zenon
<1> QED BY <1>1, <1>2, <1>4, <1>5, Zenon

LEMMA FailFacts ==
    ASSUME Typed, Fail
    PROVE  faults' \in 0 .. MaxFaults
<1>1. faults \in 0 .. MaxFaults /\ faults < MaxFaults /\ faults' = faults + 1
  BY Zenon DEF Typed, Fail
<1> QED BY <1>1, AgentAssumption

LEMMA HandledFacts ==
    ASSUME Typed, NEW kind, NEW m, Handled(kind, m) \/ NotHandled
    PROVE  Queued(Committed, todo', boot')
<1>1. Queued(Committed, todo, boot)
  BY Zenon DEF Typed
<1>2. CASE NotHandled
  BY <1>1, <1>2, Zenon DEF NotHandled, Queued
<1>3. CASE Handled(kind, m) /\ boot = Nil
  BY <1>1, <1>3, Zenon DEF Handled, Queued
<1>4. CASE Handled(kind, m) /\ boot # Nil
  <2>1. boot \in [m : Committed \union {NoFence}, left : {"chunk", "manifest", "done"}]
    BY <1>1, <1>4, Zenon DEF Queued
  <2>2. boot' = [boot EXCEPT !.left = IF kind = "chunk" THEN "manifest" ELSE "done"] /\ todo' = todo
    BY <1>4, Zenon DEF Handled
  <2>3. boot' \in [m : Committed \union {NoFence}, left : {"chunk", "manifest", "done"}]
    BY <2>1, <2>2, Zenon
  <2> QED BY <1>1, <2>2, <2>3, Zenon DEF Queued
<1> QED BY <1>2, <1>3, <1>4, Zenon

\* GateUnless either keeps everything or gates.
LEMMA GateFacts ==
    ASSUME NEW keep \in BOOLEAN, needs \in BOOLEAN,
           served' = IF keep THEN served ELSE Gated, needs' = (needs \/ ~ keep)
    PROVE  /\ \/ keep /\ served' = served /\ needs' = needs
              \/ ~ keep /\ served' = Gated /\ needs' = TRUE
           /\ served' \in {served, Gated} /\ needs' \in BOOLEAN /\ (needs => needs')
<1>1. CASE keep
  BY <1>1, Zenon
<1>2. CASE ~ keep
  BY <1>2, Zenon
<1> QED BY <1>1, <1>2, Zenon

\* A step that releases the lock.
LEMMA ToIdle ==
    ASSUME IInv, log' = log, at' = "idle", Typed',
           Core(Committed, served', mem', disk', acks'), Kept(needs', mem', disk'),
           needs' \/ served' = mem'.rendered, Gates(Committed, served', late', mem'), Trusted'
    PROVE  IInv'
<1>1. Committed' = Committed
  BY Zenon DEF Committed
<1>2. Logged'
  BY <1>1, Zenon DEF IInv, Logged, Last
<1>3. Core(Committed, served, mem, disk, acks)' /\ Kept(needs, mem, disk)'
  BY <1>1, Zenon
<1>4. Flow'
  BY Zenon DEF Flow
<1>5. Serves'
  BY <1>1, Zenon DEF Serves
<1> QED BY <1>2, <1>3, <1>4, <1>5, Zenon DEF IInv

\* A step that releases the lock and may gate the daemons.
LEMMA GateStep ==
    ASSUME IInv, log' = log, at' = "idle", trust' = trust, Typed',
           Core(Committed, served, mem', disk', acks'), NEW keep \in BOOLEAN,
           served' = IF keep THEN served ELSE Gated, needs' = (needs \/ ~ keep),
           keep => /\ Gates(Committed, served, late', mem') /\ Kept(needs, mem', disk')
                   /\ needs \/ served = mem'.rendered
    PROVE  IInv'
<1>1. /\ \/ keep /\ served' = served /\ needs' = needs
         \/ ~ keep /\ served' = Gated /\ needs' = TRUE
      /\ served' \in {served, Gated}
  BY StateFacts, GateFacts, Zenon
<1>2. Core(Committed, served', mem', disk', acks')
  <2>1. served' \in {served, Gated, Render(mem'.pub)}
    BY <1>1, Zenon
  <2> QED BY <2>1, CoreServe, Zenon
<1>3. Under(Committed, Gated, mem'.pub)
  BY CoreFacts, RenderFacts, Zenon
<1>4. /\ Gates(Committed, served', late', mem') /\ Kept(needs', mem', disk')
      /\ needs' \/ served' = mem'.rendered
  BY <1>1, <1>3, Zenon DEF Gates, Kept
<1>5. Trusted'
  BY <1>1, Zenon DEF IInv, Trusted
<1> QED BY <1>2, <1>4, <1>5, ToIdle, Zenon

-----------------------------------------------------------------------------
(* The transport and the handlers *)

LEMMA BootstrapKeeps ==
    ASSUME IInv, BootstrapBegins \/ BootstrapEnds \/ BootstrapFails
    PROVE  IInv' /\ Moves
<1>1. /\ at = "idle" /\ at' = at /\ log' = log /\ mem' = mem /\ disk' = disk /\ served' = served
      /\ needs' = needs /\ acks' = acks /\ late' = late /\ installed' = installed
      /\ job' = job /\ next' = next
  BY Zenon DEF BootstrapBegins, BootstrapEnds, BootstrapFails
<1>2. Queued(Committed, todo', boot')
  <2>1. Queued(Committed, todo, boot)
    BY Zenon DEF IInv, Typed
  <2>2. CASE BootstrapBegins
    BY <2>1, <2>2 DEF BootstrapBegins, Queued
  <2>3. CASE BootstrapEnds \/ BootstrapFails
    BY <2>1, <2>3, Zenon DEF BootstrapEnds, BootstrapFails, NotHandled, Queued
  <2> QED BY <2>2, <2>3, Zenon
<1>3. /\ trust' \in [restored : BOOLEAN, ready : BOOLEAN, expired : BOOLEAN, withdrawn : BOOLEAN]
      /\ trust'.withdrawn = trust.withdrawn /\ trust'.restored = trust.restored
      /\ trust'.expired = trust.expired /\ (trust.ready => trust'.ready)
  <2>1. trust \in [restored : BOOLEAN, ready : BOOLEAN, expired : BOOLEAN, withdrawn : BOOLEAN]
    BY Zenon DEF IInv, Typed
  <2>2. trust' = trust \/ trust' = [trust EXCEPT !.ready = TRUE]
    BY Zenon DEF BootstrapBegins, BootstrapEnds, BootstrapFails
  <2> QED BY <2>1, <2>2, Zenon
<1>4. faults' \in 0 .. MaxFaults
  BY FailFacts, Zenon DEF IInv, Typed, BootstrapBegins, BootstrapEnds, BootstrapFails
<1>5. Typed'
  <2>1. Committed' = Committed
    BY <1>1, Zenon DEF Committed
  <2> QED BY <1>1, <1>2, <1>3, <1>4, <2>1, Zenon DEF IInv, Typed
<1>6. Trusted'
  BY <1>1, <1>3, Zenon DEF IInv, Trusted
<1>7. /\ Core(Committed, served', mem', disk', acks') /\ Kept(needs', mem', disk')
      /\ needs' \/ served' = mem'.rendered
      /\ Gates(Committed, served', late', mem')
  BY <1>1, Zenon DEF IInv, Serves
<1>8. Moves
  BY <1>1, Zenon DEF Moves
<1> QED BY <1>1, <1>5, <1>6, <1>7, <1>8, ToIdle, Zenon

\* What a handler that is given an event and stays idle leaves alone.
LEMMA HandlerIdles ==
    ASSUME IInv, log' = log, at = "idle", at' = at, job' = job, next' = next, late' = late,
           trust' = trust, installed' = installed, faults' \in 0 .. MaxFaults,
           needs' \in BOOLEAN, Queued(Committed, todo', boot')
    PROVE  Typed'
<1>1. Committed' = Committed
  BY Zenon DEF Committed
<1> QED BY <1>1, ZenonT(40) DEF IInv, Typed

LEMMA ChunkKeeps ==
    ASSUME IInv, NEW m \in Committed, HandleChunk(m)
    PROVE  IInv' /\ Moves
<1> DEFINE kept == IF Later(mem.pub, m) THEN mem
                   ELSE [mem EXCEPT !.chunks = mem.chunks \union {m}]
<1>f. /\ Core(Committed, served, mem, disk, acks) /\ Kept(needs, mem, disk)
      /\ Sequenced(Committed) /\ mem \in State(Committed) /\ disk \in State(Committed)
      /\ needs \in BOOLEAN
  BY StateFacts, Zenon
<1>1. /\ at = "idle" /\ at' = at /\ log' = log /\ served' = served /\ needs' = needs
      /\ acks' = acks /\ late' = late /\ installed' = installed /\ trust' = trust
      /\ job' = job /\ next' = next
  BY Zenon DEF HandleChunk, Delivered
<1>2. mem' = Pruned(kept) /\ disk' \in {disk, Pruned(kept)}
  BY Zenon DEF HandleChunk, Saves, SaveFails
<1>3. /\ kept \in State(Committed) /\ kept.pub = mem.pub /\ kept.verified = mem.verified
      /\ kept.seen = mem.seen /\ kept.approved = mem.approved /\ kept.rendered = mem.rendered
  <2>1. CASE Later(mem.pub, m)
    BY <1>f, <2>1, Zenon
  <2>2. CASE ~ Later(mem.pub, m)
    <3>1. kept = [mem EXCEPT !.chunks = mem.chunks \union {m}]
      BY <2>2, Zenon
    <3> HIDE DEF kept
    <3> QED BY <1>f, <3>1, Zenon DEF State
  <2> QED BY <2>1, <2>2, Zenon
<1> HIDE DEF kept
<1>4. /\ mem' \in State(Committed) /\ mem'.pub = mem.pub /\ mem'.verified = mem.verified
      /\ mem'.seen = mem.seen /\ mem'.approved = mem.approved /\ mem'.rendered = mem.rendered
      /\ disk' \in {disk, mem'}
  BY <1>2, <1>3, PrunedFacts, Zenon
<1>5. Core(Committed, served', mem', disk', acks')
  <2>1. mem.seen <= mem'.seen
    BY <1>f, <1>4 DEF State
  <2> QED BY <1>1, <1>f, <1>4, <2>1, CoreSave, Zenon
<1>6. Kept(needs', mem', disk')
  BY <1>f, <1>1, <1>4, Zenon DEF Kept
<1>7. Gates(Committed, served', late', mem') /\ (needs' \/ served' = mem'.rendered)
  BY <1>1, <1>4, RetainFacts, Zenon DEF IInv, Serves, Gates
<1>8. Typed'
  <2>1. Queued(Committed, todo', boot')
    BY HandledFacts, Zenon DEF HandleChunk, IInv
  <2>2. faults' \in 0 .. MaxFaults
    BY FailFacts, Zenon DEF HandleChunk, SaveFails, IInv, Typed
  <2> QED BY <1>1, <1>f, <2>1, <2>2, HandlerIdles, Zenon
<1>9. Trusted'
  BY <1>1, Zenon DEF IInv, Trusted
<1>10. Moves
  BY <1>1, <1>4, Zenon DEF Moves
<1> QED BY <1>1, <1>5, <1>6, <1>7, <1>8, <1>9, <1>10, ToIdle, Zenon

\* An event that changes nothing but the daemons and the acknowledgements.
LEMMA EventIdles ==
    ASSUME IInv, at = "idle", NEW keep \in BOOLEAN,
           UNCHANGED <<log, mem, disk, installed, at, job, next, late, trust, faults>>,
           Queued(Committed, todo', boot'), Core(Committed, served, mem, disk, acks'),
           served' = IF keep THEN served ELSE Gated, needs' = (needs \/ ~ keep)
    PROVE  IInv'
<1>1. needs \in BOOLEAN /\ needs' \in BOOLEAN /\ faults' \in 0 .. MaxFaults
  BY Zenon DEF IInv, Typed
<1>2. Typed'
  BY <1>1, HandlerIdles, Zenon
<1>3. /\ Gates(Committed, served, late', mem') /\ Kept(needs, mem', disk')
      /\ needs \/ served = mem'.rendered
  BY Zenon DEF IInv, Serves
<1>4. Core(Committed, served, mem', disk', acks') /\ at' = "idle" /\ log' = log /\ trust' = trust
  BY Zenon
<1> QED BY <1>2, <1>3, <1>4, GateStep, Zenon

LEMMA FinishKeeps ==
    ASSUME IInv, at = "idle", NEW m \in Committed, FinishEvent(m),
           UNCHANGED <<log, mem, disk, installed, at, job, next, late, trust, faults>>
    PROVE  IInv' /\ Moves
<1>f. /\ Core(Committed, served, mem, disk, acks) /\ needs \in BOOLEAN
      /\ Typed /\ Queued(Committed, todo, boot)
  BY StateFacts, Zenon DEF IInv, Typed
<1>1. ASSUME Handled("manifest", m), UNCHANGED <<acks, served, needs>> PROVE IInv' /\ Moves
  <2>1. /\ Queued(Committed, todo', boot') /\ Core(Committed, served, mem, disk, acks')
        /\ served' = (IF TRUE THEN served ELSE Gated) /\ needs' = (needs \/ ~ TRUE)
    BY <1>f, <1>1, HandledFacts, Zenon
  <2>2. Moves
    BY <1>1, Zenon DEF Moves
  <2> QED BY <2>1, <2>2, EventIdles, Zenon
<1>2. ASSUME mem.verified, Proven, acks' = acks \union {Verified}, Handled("manifest", m),
             UNCHANGED <<served, needs>>
      PROVE  IInv' /\ Moves
  <2>1. Core(Committed, served, mem, disk, acks')
    BY <1>f, <1>2, CoreAck, Zenon DEF Verified
  <2>2. /\ Queued(Committed, todo', boot')
        /\ served' = (IF TRUE THEN served ELSE Gated) /\ needs' = (needs \/ ~ TRUE)
    BY <1>f, <1>2, HandledFacts, Zenon
  <2>3. Moves
    BY <1>2, Zenon DEF Moves, Proven
  <2> QED BY <2>1, <2>2, <2>3, EventIdles, Zenon
<1>3. ASSUME UNCHANGED <<todo, boot, acks, served, needs>> PROVE IInv' /\ Moves
  <2>1. /\ Queued(Committed, todo', boot') /\ Core(Committed, served, mem, disk, acks')
        /\ served' = (IF TRUE THEN served ELSE Gated) /\ needs' = (needs \/ ~ TRUE)
    BY <1>f, <1>3, Zenon
  <2>2. Moves
    BY <1>3, Zenon DEF Moves
  <2> QED BY <2>1, <2>2, EventIdles, Zenon
<1>4. ASSUME GateUnless(FALSE), UNCHANGED <<todo, boot, acks>> PROVE IInv' /\ Moves
  <2>1. /\ Queued(Committed, todo', boot') /\ Core(Committed, served, mem, disk, acks')
        /\ served' = (IF FALSE THEN served ELSE Gated) /\ needs' = (needs \/ ~ FALSE)
    BY <1>f, <1>4, Zenon DEF GateUnless
  <2>2. Moves
    BY <1>4, Zenon DEF Moves
  <2> QED BY <2>1, <2>2, EventIdles, Zenon
<1> QED BY <1>1, <1>2, <1>3, <1>4, Zenon DEF FinishEvent

\* A manifest that is refused, or whose repeated proof fails.
LEMMA RejectKeeps ==
    ASSUME IInv, at = "idle", GateUnless(Retained(mem)), Queued(Committed, todo', boot'),
           UNCHANGED <<log, mem, disk, installed, at, job, next, late, trust, faults, acks>>
    PROVE  IInv' /\ Moves
<1> DEFINE keep == Retained(mem)
<1>1. keep \in BOOLEAN
  BY Zenon DEF Retained, CanRetain
<1>2. served' = (IF keep THEN served ELSE Gated) /\ needs' = (needs \/ ~ keep)
  BY Zenon DEF GateUnless
<1>3. Core(Committed, served, mem, disk, acks')
  BY StateFacts, Zenon
<1>4. Moves
  BY Zenon DEF Moves
<1> HIDE DEF keep
<1> QED BY <1>1, <1>2, <1>3, <1>4, EventIdles, Zenon

LEMMA ManifestKeeps ==
    ASSUME IInv, NEW m \in Committed, IgnoreManifest(m) \/ RepeatManifest(m) \/ RefuseManifest(m)
    PROVE  IInv' /\ Moves
<1>f. Queued(Committed, todo, boot) /\ Typed
  BY Zenon DEF IInv, Typed
<1>1. CASE IgnoreManifest(m)
  BY <1>1, FinishKeeps, Zenon DEF IgnoreManifest, Delivered
<1>2. CASE RepeatManifest(m)
  <2>1. /\ at = "idle"
        /\ UNCHANGED <<log, mem, disk, installed, at, job, next, late, trust, faults>>
        /\ \/ FinishEvent(m)
           \/ GateUnless(Retained(mem)) /\ UNCHANGED <<todo, boot, acks>>
    BY <1>2, Zenon DEF RepeatManifest, Delivered
  <2>2. CASE FinishEvent(m)
    BY <2>1, <2>2, FinishKeeps, Zenon
  <2>3. CASE GateUnless(Retained(mem)) /\ UNCHANGED <<todo, boot, acks>>
    BY <1>f, <2>1, <2>3, RejectKeeps, Zenon
  <2> QED BY <2>1, <2>2, <2>3, Zenon
<1>3. CASE RefuseManifest(m)
  <2>1. Queued(Committed, todo', boot')
    BY <1>f, <1>3, HandledFacts, Zenon DEF RefuseManifest
  <2> QED BY <1>3, <2>1, RejectKeeps, Zenon DEF RefuseManifest, Delivered
<1> QED BY <1>1, <1>2, <1>3, Zenon

-----------------------------------------------------------------------------
(* The steps taken with the lock held *)

LEMMA LogStays ==
    ASSUME IInv, log' = log
    PROVE  Committed' = Committed /\ Logged'
<1>1. Committed' = Committed
  BY Zenon DEF Committed
<1> QED BY <1>1, Zenon DEF IInv, Logged, Last

\* A step that keeps the lock.
LEMMA ToHeld ==
    ASSUME IInv, log' = log, Typed', Core(Committed, served', mem', disk', acks'),
           Kept(needs', mem', disk'), Flow', Serves', Trusted'
    PROVE  IInv'
BY LogStays, Zenon DEF IInv

LEMMA HeldTypes ==
    ASSUME IInv, log' = log, Queued(Committed, todo', boot'), needs' \in BOOLEAN,
           late' \in BOOLEAN, installed' \in Committed \union {NoFence, Nil},
           at' \in {"idle", "fences", "record", "plan", "install", "installed",
                    "settle", "verify", "verified", "ack", "pending", "beat"},
           job' \in {"none", "first", "second", "retry", "activate", "settle"},
           next' \in Committed \union {Nil}, trust' = trust, faults' \in 0 .. MaxFaults
    PROVE  Typed'
<1>1. at' \in {"idle", "down", "fences", "record", "plan", "install", "installed",
               "settle", "verify", "verified", "ack", "pending", "beat"}
  BY Zenon
<1> QED BY <1>1, LogStays, Zenon DEF IInv, Typed

\* A save that fails, and the error that follows.
LEMMA RejectedSave ==
    ASSUME IInv, at # "down", Idle, log' = log, late' = late, trust' = trust,
           installed' = installed, acks' = acks, Fail, Queued(Committed, todo', boot'),
           NEW s \in State(Committed), s.rendered = mem.rendered,
           mem' = Pruned(s), disk' \in {disk, Pruned(s)},
           Core(Committed, served, Pruned(s), disk', acks), NEW keep \in BOOLEAN,
           served' = IF keep THEN served ELSE Gated, needs' = (needs \/ ~ keep),
           keep => CanRetain(s) /\ s.approved = mem.approved
    PROVE  IInv'
<1>1. /\ mem'.pub = s.pub /\ mem'.approved = s.approved /\ mem'.rendered = mem.rendered
      /\ disk' \in {disk, mem'}
  BY PrunedFacts, Zenon
<1>2. Typed'
  <2>1. needs' \in BOOLEAN
    BY Zenon
  <2>2. faults' \in 0 .. MaxFaults /\ late' \in BOOLEAN
        /\ installed' \in Committed \union {NoFence, Nil}
    BY FailFacts, Zenon DEF IInv, Typed
  <2>3. /\ at' \in {"idle", "fences", "record", "plan", "install", "installed",
                    "settle", "verify", "verified", "ack", "pending", "beat"}
        /\ job' \in {"none", "first", "second", "retry", "activate", "settle"}
        /\ next' \in Committed \union {Nil}
    BY Zenon DEF Idle
  <2> QED BY <2>1, <2>2, <2>3, HeldTypes, Zenon
<1>3. ASSUME keep
      PROVE  /\ Gates(Committed, served, late', mem') /\ Kept(needs, mem', disk')
             /\ needs \/ served = mem'.rendered
  <2>1. CanRetain(mem')
    BY <1>1, <1>3, RetainFacts, Zenon
  <2>2. Kept(needs, mem', disk')
    <3>1. Kept(needs, mem, disk)
      BY StateFacts, Zenon
    <3> QED BY <1>1, <1>3, <3>1, Zenon DEF Kept
  <2>3. needs \/ served = mem'.rendered
    BY <1>1, Zenon DEF IInv, Serves
  <2> QED BY <2>1, <2>2, <2>3, Zenon DEF Gates
<1>4. Core(Committed, served, mem', disk', acks') /\ at' = "idle"
  BY Zenon DEF Idle
<1> QED BY <1>2, <1>3, <1>4, GateStep, Zenon

LEMMA AcceptKeeps ==
    ASSUME IInv, NEW m \in Committed, AcceptManifest(m)
    PROVE  IInv' /\ Moves
<1>1. /\ at = "idle" /\ next' = m /\ at' = (IF IsZone(m) THEN "fences" ELSE "record")
      /\ UNCHANGED <<log, todo, boot, mem, disk, served, needs, installed, job, acks, late,
                     trust, faults>>
  BY Zenon DEF AcceptManifest, Delivered
<1>2. /\ ~ Later(mem.pub, m) /\ (IsZone(m) => SeenOf[m.content] >= mem.seen)
      /\ boot = Nil => trust.ready
  BY Zenon DEF AcceptManifest, Delivered, Fresh, Admissible
<1>3. SeenOf[m.content] \in Nat /\ mem.seen \in Nat
  BY StateFacts, AgentAssumption, Zenon DEF State, Sequenced, Manifest
<1>4. IsZone(m) => mem.seen <= SeenOf[m.content]
  BY <1>2, <1>3, Zenon
<1>5. Typed'
  <2>1. /\ at' \in {"idle", "fences", "record", "plan", "install", "installed",
                    "settle", "verify", "verified", "ack", "pending", "beat"}
        /\ next' \in Committed \union {Nil} /\ log' = log /\ trust' = trust
    BY <1>1, Zenon
  <2>2. /\ Queued(Committed, todo', boot') /\ needs' \in BOOLEAN
        /\ late' \in BOOLEAN /\ installed' \in Committed \union {NoFence, Nil}
        /\ job' \in {"none", "first", "second", "retry", "activate", "settle"}
        /\ faults' \in 0 .. MaxFaults
    BY <1>1, Zenon DEF IInv, Typed
  <2> QED BY <2>1, <2>2, HeldTypes, Zenon
<1>6. Core(Committed, served', mem', disk', acks') /\ Kept(needs', mem', disk')
  BY <1>1, StateFacts, Zenon
<1>7. Flow'
  BY <1>1, <1>2, <1>4, LogStays, Zenon DEF Flow
<1>8. Serves'
  BY <1>1, Zenon DEF IInv, Serves
<1>9. Trusted'
  BY <1>1, Zenon DEF IInv, Trusted
<1>10. Moves
  BY <1>1, Zenon DEF Moves
<1> QED BY <1>1, <1>5, <1>6, <1>7, <1>8, <1>9, <1>10, ToHeld, Zenon

\* The types after a step that moves on with the lock held.
LEMMA OnwardTypes ==
    ASSUME IInv, UNCHANGED <<log, todo, boot, installed, late, trust, next, faults>>,
           needs' \in BOOLEAN,
           at' \in {"idle", "fences", "record", "plan", "install", "installed",
                    "settle", "verify", "verified", "ack", "pending", "beat"},
           job' \in {"none", "first", "second", "retry", "activate", "settle"}
    PROVE  Typed'
<1>1. /\ Queued(Committed, todo', boot') /\ log' = log /\ trust' = trust
      /\ late' \in BOOLEAN /\ installed' \in Committed \union {NoFence, Nil}
      /\ next' \in Committed \union {Nil} /\ faults' \in 0 .. MaxFaults
  BY Zenon DEF IInv, Typed
<1> QED BY <1>1, HeldTypes, Zenon

\* A failed save that keeps the approval, while a handler holds the lock.
LEMMA SaveRejectedKeeps ==
    ASSUME IInv, at # "down", NEW s \in State(Committed), SaveRejected(s),
           s.rendered = mem.rendered, s.approved = mem.approved,
           Core(Committed, served, Pruned(s), disk', acks),
           UNCHANGED <<log, installed, acks, late, trust>>
    PROVE  IInv'
<1> DEFINE keep == Retained(s)
<1>1. keep \in BOOLEAN /\ (keep => CanRetain(s))
  BY Zenon DEF Retained, CanRetain
<1>2. served' = (IF keep THEN served ELSE Gated) /\ needs' = (needs \/ ~ keep)
  BY Zenon DEF SaveRejected, GateUnless
<1>3. Queued(Committed, todo', boot')
  BY HandledFacts, Zenon DEF SaveRejected, IInv
<1>4. Idle /\ Fail /\ mem' = Pruned(s) /\ disk' \in {disk, Pruned(s)}
  BY Zenon DEF SaveRejected, SaveFails
<1> HIDE DEF keep
<1> QED BY <1>1, <1>2, <1>3, <1>4, RejectedSave, Zenon

LEMMA FencesKeep ==
    ASSUME IInv, SaveFences
    PROVE  IInv' /\ Moves
<1> DEFINE s == WithFences(mem, next)
<1>1. at = "fences" /\ UNCHANGED <<log, installed, acks, late, trust>>
  BY Zenon DEF SaveFences
<1>2. /\ next \in Committed /\ ~ Later(mem.pub, next)
      /\ IsZone(next) => mem.seen <= SeenOf[next.content]
      /\ boot = Nil => trust.ready
  BY <1>1, Zenon DEF IInv, Flow
<1>f. /\ Core(Committed, served, mem, disk, acks) /\ Sequenced(Committed)
      /\ mem \in State(Committed) /\ disk \in State(Committed) /\ mem.seen \in Nat
  BY StateFacts, Zenon DEF State
<1>3. /\ s \in State(Committed) /\ s.pub = mem.pub /\ s.verified = mem.verified
      /\ s.approved = mem.approved /\ s.rendered = mem.rendered
      /\ mem.seen <= s.seen /\ SeenOf[next.content] <= s.seen
      /\ s.seen \in {mem.seen, SeenOf[next.content]}
  BY <1>f, <1>2, FenceFacts, Zenon
<1> HIDE DEF s
<1>4. /\ Pruned(s) \in State(Committed) /\ Pruned(s).pub = mem.pub
      /\ Pruned(s).verified = mem.verified /\ Pruned(s).seen = s.seen
      /\ Pruned(s).approved = mem.approved /\ Pruned(s).rendered = mem.rendered
  BY <1>3, PrunedFacts, ZenonT(40)
<1>5. ASSUME NEW e \in {disk, Pruned(s)} PROVE Core(Committed, served, Pruned(s), e, acks)
  BY <1>f, <1>3, <1>4, CoreSave, Zenon
<1>6. CASE Saves(s) /\ at' = "record" /\ UNCHANGED <<todo, boot, served, needs, job, next, faults>>
  <2>1. /\ mem' = Pruned(s) /\ disk' = Pruned(s) /\ at' = "record" /\ log' = log /\ acks' = acks
        /\ served' = served /\ needs' = needs /\ next' = next /\ boot' = boot /\ trust' = trust
    BY <1>1, <1>6, Zenon DEF Saves
  <2>2. Typed'
    <3>1. /\ at' \in {"idle", "fences", "record", "plan", "install", "installed",
                      "settle", "verify", "verified", "ack", "pending", "beat"}
          /\ job' \in {"none", "first", "second", "retry", "activate", "settle"}
          /\ needs' \in BOOLEAN
      BY <1>6, Zenon DEF IInv, Typed
    <3> QED BY <1>1, <1>6, <3>1, OnwardTypes, Zenon
  <2>3. Core(Committed, served', mem', disk', acks') /\ Kept(needs', mem', disk')
    BY <1>5, <2>1, Zenon DEF Kept
  <2>4. Flow'
    <3>1. /\ ~ Later(mem'.pub, next') /\ (IsZone(next') => mem'.seen <= SeenOf[next'.content])
          /\ SeenOf[next'.content] <= mem'.seen
      <4>1. SeenOf[next.content] \in Nat
        BY <1>f, <1>2, AgentAssumption, Zenon DEF Sequenced, Manifest
      <4> QED BY <1>2, <1>3, <1>4, <1>f, <2>1, <4>1, Zenon
    <3> QED BY <1>2, <2>1, <3>1, LogStays, Zenon DEF Flow
  <2>5. Serves'
    BY <1>1, <1>4, <2>1, Zenon DEF IInv, Serves
  <2>6. Trusted'
    BY <2>1, Zenon DEF IInv, Trusted
  <2>7. Moves
    BY <1>4, <2>1, Zenon DEF Moves
  <2> QED BY <2>1, <2>2, <2>3, <2>4, <2>5, <2>6, <2>7, ToHeld, Zenon
<1>7. CASE SaveRejected(s)
  <2>1. mem' = Pruned(s) /\ disk' \in {disk, Pruned(s)}
    BY <1>7, Zenon DEF SaveRejected, SaveFails
  <2>2. Core(Committed, served, Pruned(s), disk', acks)
    BY <1>5, <2>1, Zenon
  <2>3. Moves
    BY <1>1, <1>4, <2>1, Zenon DEF Moves
  <2> QED BY <1>1, <1>3, <1>7, <2>2, <2>3, SaveRejectedKeeps, Zenon
<1> QED BY <1>6, <1>7, Zenon DEF SaveFences, s

LEMMA RecordKeeps ==
    ASSUME IInv, Record
    PROVE  IInv' /\ Moves
<1> DEFINE s == [mem EXCEPT !.pub = next, !.verified = FALSE]
<1>1. at = "record" /\ UNCHANGED <<log, installed, acks, trust>>
  BY Zenon DEF Record
<1>2. /\ next \in Committed /\ ~ Later(mem.pub, next)
      /\ IsZone(next) => SeenOf[next.content] <= mem.seen
      /\ boot = Nil => trust.ready
  BY <1>1, Zenon DEF IInv, Flow
<1>f. /\ Core(Committed, served, mem, disk, acks) /\ Sequenced(Committed) /\ Typed
      /\ mem \in State(Committed) /\ disk \in State(Committed)
  BY StateFacts, Zenon DEF IInv
<1>3. /\ s \in State(Committed) /\ s.pub = next /\ s.verified = FALSE
      /\ s.seen = mem.seen /\ s.approved = mem.approved /\ s.rendered = mem.rendered
  <2>1. s = [mem EXCEPT !.pub = next, !.verified = FALSE]
    BY Zenon
  <2> HIDE DEF s
  <2>2. mem \in State(Committed)
    BY <1>f, Zenon
  <2> QED BY <1>2, <2>1, <2>2, Zenon DEF State
<1> HIDE DEF s
<1>4. /\ Pruned(s) \in State(Committed) /\ Pruned(s).pub = next
      /\ Pruned(s).verified = FALSE /\ Pruned(s).seen = mem.seen
      /\ Pruned(s).approved = mem.approved /\ Pruned(s).rendered = mem.rendered
  BY <1>3, PrunedFacts, Zenon
<1>5. ASSUME NEW e \in {disk, Pruned(s)} PROVE Core(Committed, served, Pruned(s), e, acks)
  <2>1. Marked(Pruned(s))
    BY <1>2, <1>4, Zenon DEF Marked
  <2> QED BY <1>f, <1>2, <1>4, <2>1, CoreRecord, Zenon
<1>6. CASE /\ Saves(s) /\ boot = Nil /\ at' = "plan" /\ job' = "first"
           /\ UNCHANGED <<todo, boot, served, needs, next, late, faults>>
  <2>1. /\ mem' = Pruned(s) /\ disk' = Pruned(s) /\ at' = "plan" /\ log' = log /\ acks' = acks
        /\ served' = served /\ needs' = needs /\ job' = "first" /\ trust' = trust
    BY <1>1, <1>6, Zenon DEF Saves
  <2>2. Typed'
    <3>1. /\ at' \in {"idle", "fences", "record", "plan", "install", "installed",
                      "settle", "verify", "verified", "ack", "pending", "beat"}
          /\ job' \in {"none", "first", "second", "retry", "activate", "settle"}
          /\ needs' \in BOOLEAN
      BY <1>6, Zenon DEF IInv, Typed
    <3> QED BY <1>1, <1>6, <3>1, OnwardTypes, Zenon
  <2>3. Core(Committed, served', mem', disk', acks') /\ Kept(needs', mem', disk')
    BY <1>5, <2>1, Zenon DEF Kept
  <2>4. Flow'
    <3>1. mem'.pub # NoFence
      BY <1>f, <1>2, <1>4, <2>1, Marks, Zenon
    <3> QED BY <2>1, <3>1, Zenon DEF Flow
  <2>5. Serves'
    BY <1>1, <1>4, <2>1, Zenon DEF IInv, Serves
  <2>6. Trusted'
    BY <1>2, <1>6, <2>1, Zenon DEF IInv, Trusted
  <2>7. Moves
    BY <1>1, <1>4, <2>1, Zenon DEF Moves
  <2> QED BY <2>1, <2>2, <2>3, <2>4, <2>5, <2>6, <2>7, ToHeld, Zenon
<1>7. CASE /\ Saves(s) /\ Handled("manifest", next) /\ Idle /\ late' = TRUE
           /\ UNCHANGED <<served, needs, faults>>
  <2>1. /\ mem' = Pruned(s) /\ disk' = Pruned(s) /\ at' = "idle" /\ log' = log /\ acks' = acks
        /\ served' = served /\ needs' = needs /\ late' = TRUE /\ trust' = trust
        /\ job' = "none" /\ next' = Nil /\ installed' = installed /\ faults' = faults
    BY <1>1, <1>7, Zenon DEF Saves, Idle
  <2>2. Typed'
    <3>1. /\ at' \in {"idle", "fences", "record", "plan", "install", "installed",
                      "settle", "verify", "verified", "ack", "pending", "beat"}
          /\ job' \in {"none", "first", "second", "retry", "activate", "settle"}
          /\ next' \in Committed \union {Nil}
      BY <2>1, Zenon
    <3>2. Queued(Committed, todo', boot')
      BY <1>f, <1>7, HandledFacts, Zenon
    <3>3. needs' \in BOOLEAN /\ late' \in BOOLEAN /\ faults' \in 0 .. MaxFaults
          /\ installed' \in Committed \union {NoFence, Nil}
      BY <1>f, <2>1, Zenon DEF Typed
    <3> QED BY <2>1, <3>1, <3>2, <3>3, HeldTypes, Zenon
  <2>3. /\ Core(Committed, served', mem', disk', acks') /\ Kept(needs', mem', disk')
        /\ Gates(Committed, served', late', mem')
    BY <1>5, <2>1, Zenon DEF Kept, Gates
  <2>4. needs' \/ served' = mem'.rendered
    BY <1>1, <1>4, <2>1, Zenon DEF IInv, Serves
  <2>5. Trusted'
    BY <1>1, <2>1, Zenon DEF IInv, Trusted
  <2>6. Moves
    BY <1>1, <1>4, <2>1, Zenon DEF Moves
  <2> QED BY <2>1, <2>2, <2>3, <2>4, <2>5, <2>6, ToIdle, Zenon
<1>8. CASE SaveRejected(s) /\ UNCHANGED late
  <2>1. mem' = Pruned(s) /\ disk' \in {disk, Pruned(s)}
    BY <1>8, Zenon DEF SaveRejected, SaveFails
  <2>2. Core(Committed, served, Pruned(s), disk', acks)
    BY <1>5, <2>1, Zenon
  <2>3. Moves
    BY <1>1, <1>4, <2>1, Zenon DEF Moves
  <2> QED BY <1>1, <1>3, <1>8, <2>2, <2>3, SaveRejectedKeeps, Zenon
<1> QED BY <1>6, <1>7, <1>8, Zenon DEF Record, s

\* An error of reconcile after a failed save.
LEMMA ReconcileErrsKeeps ==
    ASSUME IInv, at # "down", NEW s \in State(Committed), SaveFails(s), ReconcileErrs(s),
           s.rendered = mem.rendered, CanRetain(s) => s.approved = mem.approved,
           Core(Committed, served, Pruned(s), disk', acks),
           UNCHANGED <<log, boot, installed, acks, late, trust>>
    PROVE  IInv'
<1> DEFINE keep == CanRetain(s) /\ (job \in {"activate", "settle"} \/ Retained(s))
<1>1. keep \in BOOLEAN /\ (keep => CanRetain(s) /\ s.approved = mem.approved)
  BY Zenon DEF CanRetain
<1>2. served' = (IF keep THEN served ELSE Gated) /\ needs' = (needs \/ ~ keep)
  BY Zenon DEF ReconcileErrs, GateUnless
<1>3. Queued(Committed, todo', boot')
  BY Zenon DEF ReconcileErrs, IInv, Typed
<1>4. Idle /\ Fail /\ mem' = Pruned(s) /\ disk' \in {disk, Pruned(s)}
  BY Zenon DEF ReconcileErrs, SaveFails
<1> HIDE DEF keep
<1> QED BY <1>1, <1>2, <1>3, <1>4, RejectedSave, Zenon

LEMMA PlanKeeps ==
    ASSUME IInv, Plan
    PROVE  IInv' /\ Moves
<1> DEFINE install == Render(mem.pub) # mem.rendered \/ needs
           onwards == IF install THEN "install" ELSE "settle"
           s == Withdraw(mem)
<1>1. at = "plan" /\ UNCHANGED <<log, boot, installed, acks, late, trust>>
  BY Zenon DEF Plan
<1>f. /\ Core(Committed, served, mem, disk, acks) /\ Sequenced(Committed) /\ Kept(needs, mem, disk)
      /\ mem \in State(Committed) /\ disk \in State(Committed) /\ needs \in BOOLEAN
      /\ mem.pub \in Committed \union {NoFence} /\ Under(Committed, Nil, mem.pub)
  BY StateFacts, Zenon
<1>2. /\ s \in State(Committed) /\ s.pub = mem.pub /\ s.verified = mem.verified
      /\ s.seen = mem.seen /\ s.approved = Nil /\ s.rendered = mem.rendered
  BY <1>f, EditFacts, Zenon
<1> HIDE DEF s
<1>3. /\ Pruned(s) \in State(Committed) /\ Pruned(s).pub = mem.pub
      /\ Pruned(s).verified = mem.verified /\ Pruned(s).seen = mem.seen
      /\ Pruned(s).approved = Nil /\ Pruned(s).rendered = mem.rendered
  BY <1>2, PrunedFacts, Zenon
<1>4. ASSUME NEW e \in {disk, Pruned(s)} PROVE Core(Committed, served, Pruned(s), e, acks)
  <2>1. mem.seen <= Pruned(s).seen
    BY <1>f, <1>3 DEF State
  <2> QED BY <1>f, <1>3, <2>1, CoreSave, Zenon
<1>5. ASSUME at' = onwards, UNCHANGED <<todo, served, needs, job, next, faults>>,
             Core(Committed, served, mem', disk', acks), Kept(needs, mem', disk'),
             mem'.pub = mem.pub, mem'.verified = mem.verified, mem'.rendered = mem.rendered,
             Under(Committed, mem'.approved, mem.pub)
      PROVE  IInv'
  <2>1. Typed'
    <3>1. /\ at' \in {"idle", "fences", "record", "plan", "install", "installed",
                      "settle", "verify", "verified", "ack", "pending", "beat"}
          /\ job' \in {"none", "first", "second", "retry", "activate", "settle"}
          /\ needs' \in BOOLEAN
      BY <1>5, Zenon DEF IInv, Typed
    <3> QED BY <1>1, <1>5, <3>1, OnwardTypes, Zenon
  <2>2. Core(Committed, served', mem', disk', acks') /\ Kept(needs', mem', disk') /\ log' = log
    BY <1>1, <1>5, Zenon
  <2>3. Flow'
    <3>1. \/ job \in {"first", "retry"} /\ mem.pub # NoFence
          \/ job = "second" /\ mem.verified
          \/ job \in {"activate", "settle"} /\ Sure(mem)
      BY <1>1, Zenon DEF IInv, Flow
    <3>2. at' \in {"install", "settle"}
      BY <1>5, Zenon
    <3> QED BY <1>5, <3>1, <3>2, Zenon DEF Flow, Sure
  <2>4. Serves'
    <3>1. needs \/ served = mem.rendered
      BY <1>1, Zenon DEF IInv, Serves
    <3>2. at' = "settle" => served' = Render(mem'.pub) /\ ~ needs'
      BY <1>5, <3>1, Zenon
    <3>3. Under(Committed', mem'.approved, mem'.pub)
      BY <1>1, <1>5, LogStays, Zenon
    <3>4. at' \in {"install", "settle"}
      BY <1>5, Zenon
    <3> QED BY <1>5, <3>1, <3>2, <3>3, <3>4, Zenon DEF Serves
  <2>5. Trusted'
    <3>1. at' \in {"install", "settle"} /\ at = "plan" /\ trust' = trust
      BY <1>1, <1>5, Zenon
    <3> QED BY <3>1, Zenon DEF IInv, Trusted
  <2> QED BY <2>1, <2>2, <2>3, <2>4, <2>5, ToHeld, Zenon
<1>6. CASE /\ CanRetain(mem) \/ (~ install /\ mem.approved = Nil)
           /\ at' = onwards /\ UNCHANGED <<mem, disk, todo, served, needs, job, next, faults>>
  <2>1. Under(Committed, mem.approved, mem.pub)
    BY <1>f, <1>6, RetainFacts, Zenon
  <2>2. Moves
    BY <1>1, <1>6, Zenon DEF Moves
  <2> HIDE DEF install, onwards
  <2> QED BY <1>f, <1>5, <1>6, <2>1, <2>2, Zenon
<1>7. CASE Saves(s) /\ at' = onwards /\ UNCHANGED <<todo, served, needs, job, next, faults>>
  <2>1. mem' = Pruned(s) /\ disk' = Pruned(s)
    BY <1>7, Zenon DEF Saves
  <2>2. Core(Committed, served, mem', disk', acks) /\ Kept(needs, mem', disk')
    BY <1>4, <2>1, Zenon DEF Kept
  <2>3. Moves
    BY <1>1, <1>3, <2>1, Zenon DEF Moves
  <2> HIDE DEF install, onwards
  <2> QED BY <1>3, <1>f, <1>5, <1>7, <2>1, <2>2, <2>3, Zenon
<1>8. CASE SaveFails(s) /\ ReconcileErrs(s)
  <2>1. mem' = Pruned(s) /\ disk' \in {disk, Pruned(s)}
    BY <1>8, Zenon DEF SaveFails
  <2>2. Core(Committed, served, Pruned(s), disk', acks)
    BY <1>4, <2>1, Zenon
  <2>3. ~ CanRetain(s)
    BY <1>2, Zenon DEF CanRetain
  <2>4. Moves
    BY <1>1, <1>3, <2>1, Zenon DEF Moves
  <2> QED BY <1>1, <1>2, <1>8, <2>2, <2>3, <2>4, ReconcileErrsKeeps, Zenon
<1> QED BY <1>6, <1>7, <1>8, Zenon DEF Plan, s

LEMMA InstallKeeps ==
    ASSUME IInv, Install
    PROVE  IInv' /\ Moves
<1>1. at = "install" /\ UNCHANGED <<log, todo, boot, disk, installed, acks, late, trust>>
  BY Zenon DEF Install
<1>f. /\ Core(Committed, served, mem, disk, acks) /\ Sequenced(Committed) /\ Kept(needs, mem, disk)
      /\ mem \in State(Committed) /\ disk \in State(Committed) /\ needs \in BOOLEAN
      /\ mem.pub \in Committed \union {NoFence}
  BY StateFacts, Zenon
<1>2. CASE /\ served' = Render(mem.pub) /\ mem' = [mem EXCEPT !.rendered = Render(mem.pub)]
           /\ at' = "installed" /\ UNCHANGED <<needs, job, next, faults>>
  <2>1. /\ mem' \in State(Committed) /\ mem'.pub = mem.pub /\ mem'.verified = mem.verified
        /\ mem'.seen = mem.seen /\ mem'.approved = mem.approved
        /\ mem'.rendered = Render(mem.pub)
    <3>1. Render(mem.pub) \in Committed \union {Empty, Nil}
      BY <1>f, RenderFacts, Zenon
    <3> QED BY <1>f, <1>2, <3>1, Zenon DEF State
  <2>2. Core(Committed, served', mem', disk', acks')
    <3>1. Core(Committed, served', mem, disk, acks)
      BY <1>f, <1>2, CoreServe, Zenon
    <3>2. mem.seen <= mem'.seen
      BY <1>f, <2>1 DEF State
    <3> QED BY <1>1, <1>f, <2>1, <3>1, <3>2, CoreSave, Zenon
  <2>3. Kept(needs', mem', disk')
    BY <1>1, <1>2, <1>f, <2>1, Zenon DEF Kept
  <2>4. Typed'
    <3>1. /\ at' \in {"idle", "fences", "record", "plan", "install", "installed",
                      "settle", "verify", "verified", "ack", "pending", "beat"}
          /\ job' \in {"none", "first", "second", "retry", "activate", "settle"}
          /\ needs' \in BOOLEAN
      BY <1>2, Zenon DEF IInv, Typed
    <3> QED BY <1>1, <1>2, <3>1, OnwardTypes, Zenon
  <2>5. Flow'
    BY <1>1, <1>2, <2>1, Zenon DEF IInv, Flow, Sure
  <2>6. Serves'
    <3>1. Under(Committed', mem'.approved, mem'.pub)
      BY <1>1, <2>1, LogStays, Zenon DEF IInv, Serves
    <3> QED BY <1>1, <1>2, <2>1, <3>1, Zenon DEF Serves
  <2>7. Trusted'
    BY <1>1, <1>2, Zenon DEF IInv, Trusted
  <2>8. Moves
    BY <1>1, <2>1, Zenon DEF Moves
  <2> QED BY <1>1, <2>2, <2>3, <2>4, <2>5, <2>6, <2>7, <2>8, ToHeld, Zenon
<1>3. ASSUME NEW keep \in BOOLEAN, keep => CanRetain(mem), Fail, Idle, UNCHANGED mem,
             served' = IF keep THEN served ELSE Gated, needs' = (needs \/ ~ keep)
      PROVE  IInv' /\ Moves
  <2>1. Typed'
    <3>1. /\ at' \in {"idle", "fences", "record", "plan", "install", "installed",
                      "settle", "verify", "verified", "ack", "pending", "beat"}
          /\ job' \in {"none", "first", "second", "retry", "activate", "settle"}
          /\ next' \in Committed \union {Nil} /\ needs' \in BOOLEAN
      BY <1>3, Zenon DEF Idle
    <3>2. /\ Queued(Committed, todo', boot') /\ late' \in BOOLEAN /\ faults' \in 0 .. MaxFaults
          /\ installed' \in Committed \union {NoFence, Nil}
      BY <1>1, <1>3, FailFacts, Zenon DEF IInv, Typed
    <3> QED BY <1>1, <3>1, <3>2, HeldTypes, Zenon
  <2>2. keep => /\ Gates(Committed, served, late', mem') /\ Kept(needs, mem', disk')
                /\ needs \/ served = mem'.rendered
    BY <1>1, <1>3, <1>f, Zenon DEF IInv, Serves, Gates
  <2>3. Core(Committed, served, mem', disk', acks') /\ at' = "idle"
    BY <1>1, <1>3, <1>f, Zenon DEF Idle
  <2>4. Moves
    BY <1>1, <1>3, Zenon DEF Moves
  <2> QED BY <1>1, <1>3, <2>1, <2>2, <2>3, <2>4, GateStep, Zenon
<1>4. CASE Fail /\ Idle /\ UNCHANGED mem /\ (GateUnless(CanRetain(mem)) \/ GateUnless(FALSE))
  <2>1. CanRetain(mem) \in BOOLEAN
    BY Zenon DEF CanRetain
  <2>2. CASE GateUnless(CanRetain(mem))
    <3> DEFINE keep == CanRetain(mem)
    <3>1. served' = (IF keep THEN served ELSE Gated) /\ needs' = (needs \/ ~ keep)
      BY <2>2, Zenon DEF GateUnless
    <3> HIDE DEF keep
    <3>2. keep \in BOOLEAN /\ (keep => CanRetain(mem))
      BY <2>1, Zenon DEF keep
    <3> QED BY <1>3, <1>4, <3>1, <3>2, Zenon
  <2>3. CASE GateUnless(FALSE)
    <3>1. served' = (IF FALSE THEN served ELSE Gated) /\ needs' = (needs \/ ~ FALSE)
      BY <2>3, Zenon DEF GateUnless
    <3> QED BY <1>3, <1>4, <3>1, Zenon
  <2> QED BY <1>4, <2>2, <2>3, Zenon
<1> QED BY <1>2, <1>4, Zenon DEF Install

LEMMA InstalledKeeps ==
    ASSUME IInv, SaveInstalled
    PROVE  IInv' /\ Moves
<1>1. at = "installed" /\ UNCHANGED <<log, boot, installed, acks, late, trust>>
  BY Zenon DEF SaveInstalled
<1>f. /\ Core(Committed, served, mem, disk, acks) /\ Sequenced(Committed) /\ Kept(needs, mem, disk)
      /\ mem \in State(Committed) /\ disk \in State(Committed) /\ needs \in BOOLEAN
  BY StateFacts, Zenon
<1>2. /\ Pruned(mem) \in State(Committed) /\ Pruned(mem).pub = mem.pub
      /\ Pruned(mem).verified = mem.verified /\ Pruned(mem).seen = mem.seen
      /\ Pruned(mem).approved = mem.approved /\ Pruned(mem).rendered = mem.rendered
  BY <1>f, PrunedFacts, Zenon
<1>3. ASSUME NEW e \in {disk, Pruned(mem)} PROVE Core(Committed, served, Pruned(mem), e, acks)
  <2>1. mem.seen <= Pruned(mem).seen
    BY <1>f, <1>2 DEF State
  <2> QED BY <1>f, <1>2, <2>1, CoreSave, Zenon
<1>4. CASE /\ Saves(mem) /\ needs' = FALSE /\ at' = "settle"
           /\ UNCHANGED <<todo, served, job, next, faults>>
  <2>1. mem' = Pruned(mem) /\ disk' = Pruned(mem)
    BY <1>4, Zenon DEF Saves
  <2>2. Core(Committed, served', mem', disk', acks') /\ Kept(needs', mem', disk')
    BY <1>1, <1>3, <1>4, <2>1, Zenon DEF Kept
  <2>3. Typed'
    <3>1. /\ at' \in {"idle", "fences", "record", "plan", "install", "installed",
                      "settle", "verify", "verified", "ack", "pending", "beat"}
          /\ job' \in {"none", "first", "second", "retry", "activate", "settle"}
          /\ needs' \in BOOLEAN
      BY <1>4, Zenon DEF IInv, Typed
    <3> QED BY <1>1, <1>4, <3>1, OnwardTypes, Zenon
  <2>4. Flow'
    BY <1>1, <1>2, <1>4, <2>1, Zenon DEF IInv, Flow, Sure
  <2>5. Serves'
    <3>1. Under(Committed', mem'.approved, mem'.pub)
      BY <1>1, <1>2, <2>1, LogStays, Zenon DEF IInv, Serves
    <3>2. served' = Render(mem'.pub) /\ served' = mem'.rendered
      BY <1>1, <1>2, <1>4, <2>1, Zenon DEF IInv, Serves
    <3> QED BY <1>4, <3>1, <3>2, Zenon DEF Serves
  <2>6. Trusted'
    BY <1>1, <1>4, Zenon DEF IInv, Trusted
  <2>7. Moves
    BY <1>1, <1>2, <2>1, Zenon DEF Moves
  <2> QED BY <1>1, <2>2, <2>3, <2>4, <2>5, <2>6, <2>7, ToHeld, Zenon
<1>5. CASE SaveFails(mem) /\ ReconcileErrs(mem)
  <2>1. mem' = Pruned(mem) /\ disk' \in {disk, Pruned(mem)}
    BY <1>5, Zenon DEF SaveFails
  <2>2. Core(Committed, served, Pruned(mem), disk', acks)
    BY <1>3, <2>1, Zenon
  <2>3. Moves
    BY <1>1, <1>2, <2>1, Zenon DEF Moves
  <2> QED BY <1>1, <1>5, <1>f, <2>2, <2>3, ReconcileErrsKeeps, Zenon
<1> QED BY <1>4, <1>5, Zenon DEF SaveInstalled

LEMMA AfterFacts ==
    /\ After("first") = "verify" /\ After("retry") = "verify" /\ After("second") = "ack"
    /\ After("activate") = "beat" /\ After("settle") = "idle"
BY Zenon DEF After

\* A reconcile that ends without an error.
LEMMA ReturnKeeps ==
    ASSUME IInv, at = "settle", Return, Core(Committed, served, mem', disk', acks),
           Kept(needs, mem', disk'), UNCHANGED <<log, boot, served, needs, acks, late, trust, faults>>,
           installed' = mem.pub, mem'.pub = mem.pub, mem'.verified = mem.verified,
           mem'.rendered = mem.rendered, mem'.approved \in {mem.approved, mem.pub}
    PROVE  IInv'
<1>f. /\ mem.pub \in Committed \union {NoFence} /\ needs \in BOOLEAN /\ Sequenced(Committed)
      /\ Under(Committed, mem.pub, mem.pub)
  BY StateFacts, Zenon
<1>1. /\ served = Render(mem.pub) /\ ~ needs /\ served = mem.rendered
      /\ Under(Committed, mem'.approved, mem'.pub)
  BY <1>f, Zenon DEF IInv, Serves
<1>2. \/ job \in {"first", "retry"} /\ mem.pub # NoFence
      \/ job = "second" /\ mem.verified
      \/ job \in {"activate", "settle"} /\ Sure(mem)
  BY Zenon DEF IInv, Flow
<1>3. at' = After(job) /\ job' = (IF job = "settle" THEN "none" ELSE job)
      /\ next' = next /\ todo' = todo
  BY Zenon DEF Return
<1>4. /\ at' \in {"verify", "ack", "beat", "idle"} /\ (at' = "verify" => mem.pub # NoFence)
      /\ (at' = "ack" => mem.verified) /\ (at' = "beat" => Sure(mem))
  BY <1>2, <1>3, AfterFacts, Zenon
<1>5. Typed'
  <2>1. /\ at' \in {"idle", "fences", "record", "plan", "install", "installed",
                    "settle", "verify", "verified", "ack", "pending", "beat"}
        /\ job' \in {"none", "first", "second", "retry", "activate", "settle"}
        /\ installed' \in Committed \union {NoFence, Nil}
    BY <1>2, <1>3, <1>4, <1>f, Zenon
  <2>2. /\ Queued(Committed, todo', boot') /\ late' \in BOOLEAN /\ faults' \in 0 .. MaxFaults
        /\ next' \in Committed \union {Nil} /\ needs' \in BOOLEAN /\ trust' = trust /\ log' = log
    BY <1>3, Zenon DEF IInv, Typed
  <2> QED BY <2>1, <2>2, HeldTypes, Zenon
<1>6. Flow'
  BY <1>4, Zenon DEF Flow, Sure
<1>7. Serves'
  <2>1. Under(Committed', mem'.approved, mem'.pub)
    BY <1>1, LogStays, Zenon
  <2>2. Under(Committed', served', mem'.pub)
    <3>1. ~ Later(mem.pub, mem.pub)
      BY <1>f, Marks, LaterFacts, Zenon
    <3>2. Under(Committed, Render(mem.pub), mem.pub)
      BY <1>f, <3>1, RenderFacts, Zenon
    <3> QED BY <1>1, <3>2, LogStays, Zenon
  <2> QED BY <1>1, <1>4, <2>1, <2>2, Zenon DEF Serves, Gates
<1>8. Trusted'
  BY <1>4, Zenon DEF IInv, Trusted
<1>9. Core(Committed, served', mem', disk', acks') /\ Kept(needs', mem', disk') /\ log' = log
  BY Zenon
<1> QED BY <1>5, <1>6, <1>7, <1>8, <1>9, ToHeld, Zenon

LEMMA SettleKeeps ==
    ASSUME IInv, Settle
    PROVE  IInv' /\ Moves
<1> DEFINE s == [mem EXCEPT !.approved = mem.pub]
<1>1. at = "settle" /\ installed' = mem.pub /\ UNCHANGED <<log, boot, acks, late, trust>>
  BY Zenon DEF Settle
<1>f. /\ Core(Committed, served, mem, disk, acks) /\ Sequenced(Committed) /\ Kept(needs, mem, disk)
      /\ mem \in State(Committed) /\ disk \in State(Committed) /\ needs \in BOOLEAN
      /\ mem.pub \in Committed \union {NoFence}
  BY StateFacts, Zenon
<1>2. /\ s \in State(Committed) /\ s.pub = mem.pub /\ s.verified = mem.verified
      /\ s.seen = mem.seen /\ s.approved = mem.pub /\ s.rendered = mem.rendered
  BY <1>f, Zenon DEF State
<1> HIDE DEF s
<1>3. /\ Pruned(s) \in State(Committed) /\ Pruned(s).pub = mem.pub
      /\ Pruned(s).verified = mem.verified /\ Pruned(s).seen = mem.seen
      /\ Pruned(s).approved = mem.pub /\ Pruned(s).rendered = mem.rendered
  BY <1>2, PrunedFacts, Zenon
<1>n. mem.seen \in Nat /\ mem.seen <= mem.seen
  BY <1>f DEF State
<1>t. ASSUME Idle, faults' \in 0 .. MaxFaults, UNCHANGED todo, needs' \in BOOLEAN PROVE Typed'
  <2>1. /\ at' \in {"idle", "fences", "record", "plan", "install", "installed",
                    "settle", "verify", "verified", "ack", "pending", "beat"}
        /\ job' \in {"none", "first", "second", "retry", "activate", "settle"}
        /\ next' \in Committed \union {Nil}
    BY <1>t, Zenon DEF Idle
  <2>2. /\ Queued(Committed, todo', boot') /\ late' \in BOOLEAN
        /\ installed' \in Committed \union {NoFence, Nil}
    BY <1>1, <1>f, <1>t, Zenon DEF IInv, Typed
  <2> QED BY <1>1, <1>t, <2>1, <2>2, HeldTypes, Zenon
<1>4. CASE Return /\ UNCHANGED <<mem, disk, served, needs, faults>>
  <2>1. Moves
    BY <1>1, <1>4, Zenon DEF Moves
  <2> QED BY <1>1, <1>4, <1>f, <2>1, ReturnKeeps, Zenon
<1>5. CASE Return /\ Saves(s) /\ UNCHANGED <<served, needs, faults>>
  <2>1. mem' = Pruned(s) /\ disk' = Pruned(s)
    BY <1>5, Zenon DEF Saves
  <2>2. Core(Committed, served, mem', disk', acks)
    BY <1>f, <1>3, <1>n, <2>1, CoreSave, Zenon
  <2>3. Kept(needs, mem', disk')
    BY <2>1, Zenon DEF Kept
  <2>4. Moves
    BY <1>1, <1>3, <2>1, Zenon DEF Moves
  <2> QED BY <1>1, <1>3, <1>5, <2>1, <2>2, <2>3, <2>4, ReturnKeeps, Zenon
<1>6. CASE /\ IF served = Render(mem.pub) THEN Fail ELSE UNCHANGED faults
           /\ GateUnless(FALSE) /\ Idle /\ UNCHANGED <<mem, disk, todo>>
  <2>1. served' = (IF FALSE THEN served ELSE Gated) /\ needs' = (needs \/ ~ FALSE)
    BY <1>6, Zenon DEF GateUnless
  <2>2. faults' \in 0 .. MaxFaults
    BY <1>6, FailFacts, Zenon DEF IInv, Typed
  <2>3. Typed'
    BY <1>t, <1>6, <2>1, <2>2, Zenon
  <2>4. Core(Committed, served, mem', disk', acks') /\ at' = "idle"
    BY <1>1, <1>6, <1>f, Zenon DEF Idle
  <2>5. Moves
    BY <1>1, <1>6, Zenon DEF Moves
  <2> QED BY <1>1, <2>1, <2>3, <2>4, <2>5, GateStep, Zenon
<1>7. CASE /\ Fail /\ disk' \in {disk, Pruned(s)} /\ UNCHANGED mem /\ ReconcileErrs(mem)
  <2> DEFINE keep == CanRetain(mem) /\ (job \in {"activate", "settle"} \/ Retained(mem))
  <2>1. keep \in BOOLEAN /\ (keep => CanRetain(mem))
    BY Zenon DEF CanRetain
  <2>2. served' = (IF keep THEN served ELSE Gated) /\ needs' = (needs \/ ~ keep)
    BY <1>7, Zenon DEF ReconcileErrs, GateUnless
  <2> HIDE DEF keep
  <2>3. Idle /\ UNCHANGED todo /\ faults' \in 0 .. MaxFaults /\ needs' \in BOOLEAN
    BY <1>7, <2>1, <2>2, FailFacts, Zenon DEF ReconcileErrs, IInv
  <2>4. Typed'
    BY <1>t, <2>3, Zenon
  <2>5. Core(Committed, served, mem', disk', acks')
    <3>1. mem' = mem /\ acks' = acks /\ disk' \in {disk, Pruned(s)}
      BY <1>1, <1>7, Zenon
    <3>2. CASE disk' = disk
      BY <1>f, <3>1, <3>2, Zenon
    <3>3. CASE disk' = Pruned(s)
      BY <1>f, <1>3, <1>n, <3>1, <3>3, CoreSave, Zenon
    <3> QED BY <3>1, <3>2, <3>3, Zenon
  <2>6. Kept(needs, mem', disk')
    BY <1>3, <1>7, <1>f, Zenon DEF Kept
  <2>7. keep => Gates(Committed, served, late', mem') /\ (needs \/ served = mem'.rendered)
    BY <1>1, <1>7, <2>1, Zenon DEF IInv, Serves, Gates
  <2>8. Moves
    BY <1>1, <1>3, <1>7, Zenon DEF Moves
  <2> QED BY <1>1, <2>1, <2>2, <2>3, <2>4, <2>5, <2>6, <2>7, <2>8, GateStep, Zenon DEF Idle
<1> QED BY <1>4, <1>5, <1>6, <1>7, Zenon DEF Settle, s

LEMMA VerifyKeeps ==
    ASSUME IInv, Verify
    PROVE  IInv' /\ Moves
<1>1. at = "verify" /\ UNCHANGED <<log, todo, boot, mem, disk, installed, acks, late, trust>>
  BY Zenon DEF Verify
<1>f. Core(Committed, served, mem, disk, acks) /\ Kept(needs, mem, disk) /\ needs \in BOOLEAN
  BY StateFacts, Zenon
<1>2. Moves
  BY <1>1, Zenon DEF Moves
<1>3. CASE at' = "verified" /\ UNCHANGED <<served, needs, job, next, faults>>
  <2>1. Typed'
    <3>1. /\ at' \in {"idle", "fences", "record", "plan", "install", "installed",
                      "settle", "verify", "verified", "ack", "pending", "beat"}
          /\ job' \in {"none", "first", "second", "retry", "activate", "settle"}
          /\ needs' \in BOOLEAN
      BY <1>3, Zenon DEF IInv, Typed
    <3> QED BY <1>1, <1>3, <3>1, OnwardTypes, Zenon
  <2>2. Core(Committed, served', mem', disk', acks') /\ Kept(needs', mem', disk')
    BY <1>1, <1>3, <1>f, Zenon
  <2>3. Flow'
    BY <1>1, <1>3, Zenon DEF IInv, Flow
  <2>4. Serves'
    BY <1>1, <1>3, LogStays, Zenon DEF IInv, Serves
  <2>5. Trusted'
    BY <1>1, <1>3, Zenon DEF IInv, Trusted
  <2> QED BY <1>1, <1>2, <2>1, <2>2, <2>3, <2>4, <2>5, ToHeld, Zenon
<1>4. CASE /\ IF Proven THEN Fail ELSE UNCHANGED faults
           /\ GateUnless(job = "retry" /\ Retained(mem)) /\ Idle
  <2> DEFINE keep == job = "retry" /\ Retained(mem)
  <2>1. keep \in BOOLEAN /\ (keep => CanRetain(mem))
    BY Zenon DEF Retained
  <2>2. served' = (IF keep THEN served ELSE Gated) /\ needs' = (needs \/ ~ keep)
    BY <1>4, Zenon DEF GateUnless
  <2> HIDE DEF keep
  <2>3. Typed'
    <3>1. /\ at' \in {"idle", "fences", "record", "plan", "install", "installed",
                      "settle", "verify", "verified", "ack", "pending", "beat"}
          /\ job' \in {"none", "first", "second", "retry", "activate", "settle"}
          /\ next' \in Committed \union {Nil} /\ needs' \in BOOLEAN
      BY <1>4, <2>1, <2>2, Zenon DEF Idle
    <3>2. /\ Queued(Committed, todo', boot') /\ late' \in BOOLEAN /\ faults' \in 0 .. MaxFaults
          /\ installed' \in Committed \union {NoFence, Nil}
      BY <1>1, <1>4, FailFacts, Zenon DEF IInv, Typed
    <3> QED BY <1>1, <3>1, <3>2, HeldTypes, Zenon
  <2>4. keep => /\ Gates(Committed, served, late', mem') /\ Kept(needs, mem', disk')
                /\ needs \/ served = mem'.rendered
    BY <1>1, <1>f, <2>1, Zenon DEF IInv, Serves, Gates
  <2>5. Core(Committed, served, mem', disk', acks') /\ at' = "idle"
    BY <1>1, <1>4, <1>f, Zenon DEF Idle
  <2> QED BY <1>1, <1>2, <2>1, <2>2, <2>3, <2>4, <2>5, GateStep, Zenon
<1> QED BY <1>3, <1>4, Zenon DEF Verify

LEMMA VerifiedKeeps ==
    ASSUME IInv, SaveVerified
    PROVE  IInv' /\ Moves
<1> DEFINE s == [mem EXCEPT !.verified = TRUE]
<1>1. at = "verified" /\ UNCHANGED <<log, todo, boot, installed, acks, late, trust>>
  BY Zenon DEF SaveVerified
<1>f. /\ Core(Committed, served, mem, disk, acks) /\ Sequenced(Committed) /\ Kept(needs, mem, disk)
      /\ mem \in State(Committed) /\ disk \in State(Committed) /\ needs \in BOOLEAN
      /\ disk.pub \in Committed \union {NoFence} /\ Under(Committed, disk.pub, disk.pub)
  BY StateFacts, Zenon
<1>g. /\ mem.pub # NoFence /\ served = Render(mem.pub) /\ ~ needs /\ served = mem.rendered
      /\ Under(Committed, mem.approved, mem.pub)
  BY <1>1, Zenon DEF IInv, Flow, Serves
<1>2. /\ s \in State(Committed) /\ s.pub = mem.pub /\ s.verified = TRUE
      /\ s.seen = mem.seen /\ s.approved = mem.approved /\ s.rendered = mem.rendered
  BY <1>f, Zenon DEF State
<1> HIDE DEF s
<1>3. /\ Pruned(s) \in State(Committed) /\ Pruned(s).pub = mem.pub
      /\ Pruned(s).verified = TRUE /\ Pruned(s).seen = mem.seen
      /\ Pruned(s).approved = mem.approved /\ Pruned(s).rendered = mem.rendered
  BY <1>2, PrunedFacts, Zenon
<1>4. ASSUME NEW e \in {disk, Pruned(s)} PROVE Core(Committed, served, Pruned(s), e, acks)
  <2>1. disk.pub = mem.pub => Under(Committed, disk.approved, disk.pub)
    BY <1>f, <1>g, Zenon DEF Kept
  <2> QED BY <1>f, <1>g, <1>3, <2>1, CoreVerify, Zenon
<1>5. CASE /\ Saves(s) /\ at' = (IF job = "first" THEN "plan" ELSE "pending")
           /\ job' = (IF job = "first" THEN "second" ELSE "none")
           /\ UNCHANGED <<served, needs, next, faults>>
  <2>1. mem' = Pruned(s) /\ disk' = Pruned(s)
    BY <1>5, Zenon DEF Saves
  <2>2. Core(Committed, served', mem', disk', acks') /\ Kept(needs', mem', disk')
    BY <1>1, <1>4, <1>5, <2>1, Zenon DEF Kept
  <2>3. (at' = "plan" /\ job' = "second") \/ (at' = "pending" /\ job' = "none")
    BY <1>5, Zenon
  <2>4. Typed'
    <3>1. /\ at' \in {"idle", "fences", "record", "plan", "install", "installed",
                      "settle", "verify", "verified", "ack", "pending", "beat"}
          /\ job' \in {"none", "first", "second", "retry", "activate", "settle"}
          /\ needs' \in BOOLEAN
      BY <1>5, <1>f, <2>3, Zenon
    <3> QED BY <1>1, <1>5, <3>1, OnwardTypes, Zenon
  <2>5. Flow'
    BY <1>3, <2>1, <2>3, Zenon DEF Flow, Sure
  <2>6. Serves'
    BY <1>3, <1>5, <1>g, <2>1, <2>3, Zenon DEF Serves
  <2>7. Trusted'
    BY <1>1, <2>3, Zenon DEF IInv, Trusted
  <2>8. Moves
    BY <1>1, <1>3, <2>1, Zenon DEF Moves
  <2> QED BY <1>1, <2>2, <2>4, <2>5, <2>6, <2>7, <2>8, ToHeld, Zenon
<1>6. CASE SaveFails(s) /\ GateUnless(Retained(s)) /\ Idle
  <2> DEFINE keep == Retained(s)
  <2>1. keep \in BOOLEAN /\ (keep => CanRetain(s))
    BY Zenon DEF Retained, CanRetain
  <2>2. served' = (IF keep THEN served ELSE Gated) /\ needs' = (needs \/ ~ keep)
    BY <1>6, Zenon DEF GateUnless
  <2> HIDE DEF keep
  <2>3. Fail /\ mem' = Pruned(s) /\ disk' \in {disk, Pruned(s)}
    BY <1>6, Zenon DEF SaveFails
  <2>4. Core(Committed, served, Pruned(s), disk', acks)
    BY <1>4, <2>3, Zenon
  <2>5. Queued(Committed, todo', boot')
    BY <1>1, Zenon DEF IInv, Typed
  <2>6. Moves
    BY <1>1, <1>3, <2>3, Zenon DEF Moves
  <2> QED BY <1>1, <1>2, <1>6, <2>1, <2>2, <2>3, <2>4, <2>5, <2>6, RejectedSave, Zenon
<1> QED BY <1>5, <1>6, Zenon DEF SaveVerified, s

LEMMA AcknowledgeKeeps ==
    ASSUME IInv, Acknowledge
    PROVE  IInv' /\ Moves
<1>1. /\ at = "ack" /\ acks' = acks \union {Verified} /\ Idle
      /\ todo' = todo \ {<<"manifest", next>>}
      /\ UNCHANGED <<log, boot, mem, disk, served, needs, installed, late, trust, faults>>
  BY Zenon DEF Acknowledge
<1>f. /\ Core(Committed, served, mem, disk, acks) /\ Kept(needs, mem, disk)
      /\ mem.verified => Under(Committed, served, mem.pub)
  BY StateFacts, Zenon
<1>2. mem.verified /\ served = Render(mem.pub) /\ (needs \/ served = mem.rendered)
  BY <1>1, Zenon DEF IInv, Flow, Serves
<1>3. Core(Committed, served', mem', disk', acks') /\ Kept(needs', mem', disk')
  BY <1>1, <1>2, <1>f, CoreAck, Zenon DEF Verified
<1>4. Typed'
  <2>1. /\ at' \in {"idle", "fences", "record", "plan", "install", "installed",
                    "settle", "verify", "verified", "ack", "pending", "beat"}
        /\ job' \in {"none", "first", "second", "retry", "activate", "settle"}
        /\ next' \in Committed \union {Nil}
    BY <1>1, Zenon DEF Idle
  <2>2. Queued(Committed, todo', boot')
    BY <1>1, Zenon DEF IInv, Typed, Queued
  <2>3. /\ needs' \in BOOLEAN /\ late' \in BOOLEAN /\ faults' \in 0 .. MaxFaults
        /\ installed' \in Committed \union {NoFence, Nil}
    BY <1>1, Zenon DEF IInv, Typed
  <2> QED BY <1>1, <2>1, <2>2, <2>3, HeldTypes, Zenon
<1>5. Gates(Committed, served', late', mem') /\ (needs' \/ served' = mem'.rendered)
  BY <1>1, <1>2, <1>f, Zenon DEF Gates
<1>6. Trusted'
  BY <1>1, Zenon DEF IInv, Trusted, Idle
<1>7. Moves
  BY <1>1, <1>2, Zenon DEF Moves
<1> QED BY <1>1, <1>3, <1>4, <1>5, <1>6, <1>7, ToIdle, Zenon DEF Idle

LEMMA ActivatesKeeps ==
    ASSUME IInv, StepActivates
    PROVE  IInv' /\ Moves
<1>1. /\ at = "pending"
      /\ UNCHANGED <<log, todo, boot, mem, disk, served, needs, installed, next, acks, late, trust, faults>>
      /\ (at' = "plan" /\ job' = "activate") \/ (at' = "beat" /\ job' = job)
  BY Zenon DEF StepActivates
<1>2. Typed'
  <2>1. /\ at' \in {"idle", "fences", "record", "plan", "install", "installed",
                    "settle", "verify", "verified", "ack", "pending", "beat"}
        /\ job' \in {"none", "first", "second", "retry", "activate", "settle"}
        /\ needs' \in BOOLEAN
    BY <1>1, Zenon DEF IInv, Typed
  <2> QED BY <1>1, <2>1, OnwardTypes, Zenon
<1>3. Core(Committed, served', mem', disk', acks') /\ Kept(needs', mem', disk')
  BY <1>1, StateFacts, Zenon
<1>4. Flow'
  BY <1>1, Zenon DEF IInv, Flow, Sure
<1>5. Serves'
  BY <1>1, Zenon DEF IInv, Serves
<1>6. Trusted'
  BY <1>1, Zenon DEF IInv, Trusted
<1>7. Moves
  BY <1>1, Zenon DEF Moves
<1> QED BY <1>1, <1>2, <1>3, <1>4, <1>5, <1>6, <1>7, ToHeld, Zenon

LEMMA HeartbeatKeeps ==
    ASSUME IInv, Heartbeat
    PROVE  IInv' /\ Moves
<1>1. /\ at = "beat"
      /\ UNCHANGED <<log, todo, boot, mem, disk, served, needs, installed, late, trust>>
  BY Zenon DEF Heartbeat
<1>f. /\ Core(Committed, served, mem, disk, acks) /\ Kept(needs, mem, disk)
      /\ mem.verified => Under(Committed, served, mem.pub)
  BY StateFacts, Zenon
<1>2. Sure(mem) /\ (needs \/ served = mem.rendered)
  BY <1>1, Zenon DEF IInv, Flow, Serves
<1>3. CASE /\ mem.verified => Proven
           /\ acks' = (IF mem.verified THEN acks \union {Verified} ELSE acks)
           /\ at' = "plan" /\ job' = "settle" /\ UNCHANGED <<next, faults>>
  <2>1. Core(Committed, served', mem', disk', acks') /\ Kept(needs', mem', disk')
    <3>1. CASE mem.verified
      BY <1>1, <1>3, <1>f, <3>1, CoreAck, Zenon DEF Verified
    <3>2. CASE ~ mem.verified
      BY <1>1, <1>3, <1>f, <3>2, Zenon
    <3> QED BY <3>1, <3>2, Zenon
  <2>2. Typed'
    <3>1. /\ at' \in {"idle", "fences", "record", "plan", "install", "installed",
                      "settle", "verify", "verified", "ack", "pending", "beat"}
          /\ job' \in {"none", "first", "second", "retry", "activate", "settle"}
          /\ needs' \in BOOLEAN
      BY <1>1, <1>3, Zenon DEF IInv, Typed
    <3> QED BY <1>1, <1>3, <3>1, OnwardTypes, Zenon
  <2>3. Flow'
    BY <1>1, <1>2, <1>3, Zenon DEF Flow, Sure
  <2>4. Serves'
    BY <1>1, <1>2, <1>3, Zenon DEF Serves
  <2>5. Trusted'
    BY <1>1, <1>3, Zenon DEF IInv, Trusted
  <2>6. Moves
    BY <1>1, <1>3, Zenon DEF Moves, Proven
  <2> QED BY <1>1, <2>1, <2>2, <2>3, <2>4, <2>5, <2>6, ToHeld, Zenon
<1>4. CASE /\ mem.verified /\ (IF Proven THEN Fail ELSE UNCHANGED faults)
           /\ Idle /\ UNCHANGED acks
  <2>1. Core(Committed, served', mem', disk', acks') /\ Kept(needs', mem', disk')
    BY <1>1, <1>4, <1>f, Zenon
  <2>2. Typed'
    <3>1. /\ at' \in {"idle", "fences", "record", "plan", "install", "installed",
                      "settle", "verify", "verified", "ack", "pending", "beat"}
          /\ job' \in {"none", "first", "second", "retry", "activate", "settle"}
          /\ next' \in Committed \union {Nil}
      BY <1>4, Zenon DEF Idle
    <3>2. /\ Queued(Committed, todo', boot') /\ late' \in BOOLEAN /\ faults' \in 0 .. MaxFaults
          /\ installed' \in Committed \union {NoFence, Nil} /\ needs' \in BOOLEAN
      BY <1>1, <1>4, FailFacts, Zenon DEF IInv, Typed
    <3> QED BY <1>1, <3>1, <3>2, HeldTypes, Zenon
  <2>3. Gates(Committed, served', late', mem') /\ (needs' \/ served' = mem'.rendered)
    BY <1>1, <1>2, <1>4, <1>f, Zenon DEF Gates
  <2>4. Trusted'
    BY <1>1, <1>4, Zenon DEF IInv, Trusted, Idle
  <2>5. Moves
    BY <1>1, <1>4, Zenon DEF Moves
  <2> QED BY <1>1, <1>4, <2>1, <2>2, <2>3, <2>4, <2>5, ToIdle, Zenon DEF Idle
<1> QED BY <1>3, <1>4, Zenon DEF Heartbeat

-----------------------------------------------------------------------------
(* Step, time, crashes and restarts *)

LEMMA ExpiredKeeps ==
    ASSUME IInv, StepExpired
    PROVE  IInv' /\ Moves
<1>1. /\ at = "idle" /\ at' = at /\ Expired /\ GateUnless(trust.withdrawn)
      /\ trust' = [trust EXCEPT !.withdrawn = TRUE]
      /\ UNCHANGED <<log, todo, boot, mem, disk, installed, job, next, acks, late, faults>>
  BY Zenon DEF StepExpired
<1>f. /\ Core(Committed, served, mem, disk, acks) /\ Kept(needs, mem, disk) /\ needs \in BOOLEAN
      /\ mem.pub \in Committed \union {NoFence} /\ Under(Committed, Gated, mem.pub)
  BY StateFacts, Zenon
<1>t. trust \in [restored : BOOLEAN, ready : BOOLEAN, expired : BOOLEAN, withdrawn : BOOLEAN]
  BY Zenon DEF IInv, Typed
<1>2. /\ served' = (IF trust.withdrawn THEN served ELSE Gated)
      /\ needs' = (needs \/ ~ trust.withdrawn) /\ trust.withdrawn \in BOOLEAN
  BY <1>1, <1>t, Zenon DEF GateUnless
<1>3. trust.withdrawn => served = Gated
  BY <1>1, Zenon DEF IInv, Trusted, Expired
<1>4. served' = Gated /\ needs' \in BOOLEAN /\ (needs => needs')
      /\ (needs' \/ served' = served)
  BY <1>2, <1>3, <1>f, Zenon
<1>5. Core(Committed, served', mem', disk', acks')
  <2>1. Core(Committed, served', mem, disk, acks)
    BY <1>4, <1>f, CoreServe, Zenon
  <2> QED BY <1>1, <2>1, Zenon
<1>6. Kept(needs', mem', disk') /\ Gates(Committed, served', late', mem')
  BY <1>1, <1>4, <1>f, Zenon DEF Kept, Gates
<1>7. needs' \/ served' = mem'.rendered
  BY <1>1, <1>4, Zenon DEF IInv, Serves
<1>8. /\ trust' \in [restored : BOOLEAN, ready : BOOLEAN, expired : BOOLEAN, withdrawn : BOOLEAN]
      /\ trust'.restored = trust.restored /\ trust'.expired = trust.expired
  BY <1>1, <1>t, Zenon
<1>9. Trusted'
  BY <1>1, <1>4, <1>8, Zenon DEF Trusted, Expired
<1>10. Typed'
  BY <1>1, <1>4, <1>8, LogStays, Zenon DEF IInv, Typed
<1>11. Moves
  BY <1>1, Zenon DEF Moves
<1> QED BY <1>1, <1>5, <1>6, <1>7, <1>9, <1>10, <1>11, ToIdle, Zenon

LEMMA BeginsKeeps ==
    ASSUME IInv, StepBegins
    PROVE  IInv' /\ Moves
<1>1. /\ at = "idle" /\ ~ Expired /\ late' = FALSE
      /\ UNCHANGED <<log, todo, boot, mem, disk, served, needs, installed, next, acks, trust, faults>>
      /\ \/ mem.pub # NoFence /\ at' = "plan" /\ job' = "retry"
         \/ Sure(mem) /\ at' = "pending" /\ job' = job
  BY StateFacts, Zenon DEF StepBegins, Sure
<1>2. Typed'
  <2>1. /\ at' \in {"idle", "fences", "record", "plan", "install", "installed",
                    "settle", "verify", "verified", "ack", "pending", "beat"}
        /\ job' \in {"none", "first", "second", "retry", "activate", "settle"}
    BY <1>1, Zenon DEF IInv, Typed
  <2>2. /\ Queued(Committed, todo', boot') /\ late' \in BOOLEAN /\ faults' \in 0 .. MaxFaults
        /\ installed' \in Committed \union {NoFence, Nil} /\ needs' \in BOOLEAN
        /\ next' \in Committed \union {Nil}
    BY <1>1, Zenon DEF IInv, Typed
  <2> QED BY <1>1, <2>1, <2>2, HeldTypes, Zenon
<1>3. Core(Committed, served', mem', disk', acks') /\ Kept(needs', mem', disk')
  BY <1>1, StateFacts, Zenon
<1>4. Flow'
  BY <1>1, Zenon DEF Flow, Sure
<1>5. Serves'
  BY <1>1, Zenon DEF IInv, Serves
<1>6. Trusted'
  <2>1. trust.withdrawn => trust.ready
    BY <1>1, Zenon DEF IInv, Trusted, Expired
  <2>2. trust.withdrawn => trust.restored /\ trust.expired
    BY Zenon DEF IInv, Trusted
  <2> QED BY <1>1, <2>1, <2>2, Zenon DEF Trusted
<1>7. Moves
  BY <1>1, Zenon DEF Moves
<1> QED BY <1>1, <1>2, <1>3, <1>4, <1>5, <1>6, <1>7, ToHeld, Zenon

LEMMA LimitKeeps ==
    ASSUME IInv, LimitPasses
    PROVE  IInv' /\ Moves
<1>1. /\ trust' = [trust EXCEPT !.expired = TRUE]
      /\ UNCHANGED <<log, todo, boot, mem, disk, served, needs, installed, at, job, next, acks,
                     late, faults>>
  BY Zenon DEF LimitPasses
<1>2. /\ trust' \in [restored : BOOLEAN, ready : BOOLEAN, expired : BOOLEAN, withdrawn : BOOLEAN]
      /\ trust'.restored = trust.restored /\ trust'.ready = trust.ready /\ trust'.expired = TRUE
      /\ trust'.withdrawn = trust.withdrawn
  <2>1. trust \in [restored : BOOLEAN, ready : BOOLEAN, expired : BOOLEAN, withdrawn : BOOLEAN]
    BY Zenon DEF IInv, Typed
  <2> QED BY <1>1, <2>1, Zenon
<1>3. Typed'
  BY <1>1, <1>2, LogStays, ZenonT(40) DEF IInv, Typed
<1>4. Core(Committed, served', mem', disk', acks') /\ Kept(needs', mem', disk')
  BY <1>1, StateFacts, Zenon
<1>5. Flow'
  BY <1>1, <1>2, LogStays, Zenon DEF IInv, Flow
<1>6. Serves'
  BY <1>1, LogStays, Zenon DEF IInv, Serves
<1>7. Trusted'
  BY <1>1, <1>2, Zenon DEF IInv, Trusted
<1>8. Moves
  BY <1>1, Zenon DEF Moves
<1> QED BY <1>1, <1>3, <1>4, <1>5, <1>6, <1>7, <1>8, ToHeld, Zenon

LEMMA CrashKeeps ==
    ASSUME IInv, Crash
    PROVE  IInv' /\ Moves
<1>1. /\ Fail /\ mem' = disk /\ at' = "down" /\ job' = "none" /\ next' = Nil /\ boot' = Nil
      /\ needs' = FALSE /\ installed' = Nil /\ late' = FALSE
      /\ trust' = [v \in DOMAIN trust |-> FALSE]
      /\ UNCHANGED <<log, todo, disk, acks>>
      /\ served' \in {served, Gated, Render(mem.pub)}
  BY Zenon DEF Crash
<1>f. Core(Committed, served, mem, disk, acks)
  BY StateFacts, Zenon
<1>2. Core(Committed, served', mem', disk', acks') /\ Kept(needs', mem', disk')
  <2>1. Core(Committed, served', mem, disk, acks)
    BY <1>1, <1>f, CoreServe
  <2>2. Core(Committed, served', disk, disk, acks)
    BY <2>1, CoreCrash, Zenon
  <2> QED BY <1>1, <2>2, Zenon DEF Kept
<1>3. /\ trust' \in [restored : BOOLEAN, ready : BOOLEAN, expired : BOOLEAN, withdrawn : BOOLEAN]
      /\ trust'.withdrawn = FALSE
  <2>1. trust \in [restored : BOOLEAN, ready : BOOLEAN, expired : BOOLEAN, withdrawn : BOOLEAN]
    BY Zenon DEF IInv, Typed
  <2> QED BY <1>1, <2>1, Zenon
<1>4. Typed'
  <2>1. faults' \in 0 .. MaxFaults
    BY <1>1, FailFacts, Zenon DEF IInv
  <2>2. Queued(Committed, todo', boot')
    BY <1>1, Zenon DEF IInv, Typed, Queued
  <2> QED BY <1>1, <1>3, <2>1, <2>2, LogStays, Zenon DEF Typed
<1>5. Flow' /\ Serves' /\ Trusted'
  BY <1>1, <1>3, Zenon DEF Flow, Serves, Trusted
<1>6. Moves
  BY <1>1, Zenon DEF Moves
<1> QED BY <1>1, <1>2, <1>4, <1>5, <1>6, ToHeld, Zenon

LEMMA RestartKeeps ==
    ASSUME IInv, Restart
    PROVE  IInv' /\ Moves
<1> DEFINE s == [mem EXCEPT !.rendered = Render(mem.approved)]
<1>1. /\ at = "down" /\ at' = "idle"
      /\ UNCHANGED <<log, todo, boot, installed, job, next, acks, late>>
  BY Zenon DEF Restart
<1>2. mem = disk /\ ~ trust.withdrawn
  BY <1>1, Zenon DEF IInv, Flow, Trusted
<1>f. /\ Core(Committed, served, mem, disk, acks) /\ Sequenced(Committed)
      /\ mem \in State(Committed) /\ disk \in State(Committed) /\ needs \in BOOLEAN
      /\ mem.pub \in Committed \union {NoFence} /\ Under(Committed, Gated, mem.pub)
  BY StateFacts, Zenon
<1>t. /\ trust \in [restored : BOOLEAN, ready : BOOLEAN, expired : BOOLEAN, withdrawn : BOOLEAN]
      /\ faults \in 0 .. MaxFaults
  BY Zenon DEF IInv, Typed
<1>3. ASSUME Core(Committed, served', mem', disk', acks), Kept(needs', mem', disk'),
             needs' \/ served' = mem'.rendered, Gates(Committed, served', late, mem'),
             needs' \in BOOLEAN, faults' \in 0 .. MaxFaults,
             trust' \in [restored : BOOLEAN, ready : BOOLEAN, expired : BOOLEAN, withdrawn : BOOLEAN],
             ~ trust'.withdrawn, mem'.pub = mem.pub, disk'.pub = mem.pub
      PROVE  IInv' /\ Moves
  <2>1. Typed'
    <3>1. at' \in {"idle", "down", "fences", "record", "plan", "install", "installed",
                   "settle", "verify", "verified", "ack", "pending", "beat"}
      BY <1>1, Zenon
    <3> QED BY <1>1, <1>3, <3>1, LogStays, Zenon DEF IInv, Typed
  <2>2. Trusted'
    BY <1>3, Zenon DEF Trusted
  <2>3. Moves
    BY <1>1, <1>3, Zenon DEF Moves
  <2> QED BY <1>1, <1>3, <2>1, <2>2, <2>3, ToIdle, Zenon
<1>4. CASE ~ CanRetain(mem) /\ GateUnless(FALSE) /\ UNCHANGED <<mem, disk, trust, faults>>
  <2>1. served' = Gated /\ needs' = TRUE
    BY <1>4, Zenon DEF GateUnless
  <2>2. Core(Committed, served', mem, disk, acks)
    BY <1>f, <2>1, CoreServe, Zenon
  <2>3. Kept(needs', mem', disk') /\ Gates(Committed, served', late, mem')
    BY <1>4, <1>f, <2>1, Zenon DEF Kept, Gates
  <2> QED BY <1>2, <1>3, <1>4, <1>t, <2>1, <2>2, <2>3, Zenon
<1>5. CASE CanRetain(mem) /\ Fail /\ served' \in {served, Gated} /\ needs' = TRUE
           /\ UNCHANGED <<mem, disk, trust>>
  <2>1. Core(Committed, served', mem, disk, acks)
    BY <1>f, <1>5, CoreServe
  <2>2. Kept(needs', mem', disk') /\ Gates(Committed, served', late, mem')
    BY <1>5, Zenon DEF Kept, Gates
  <2>3. faults' \in 0 .. MaxFaults
    BY <1>5, FailFacts, Zenon DEF IInv
  <2> QED BY <1>2, <1>3, <1>5, <1>t, <2>1, <2>2, <2>3, Zenon
<1>6. ASSUME CanRetain(mem), served' = Render(mem.approved), mem' = Pruned(s),
             disk' \in {disk, Pruned(s)}, needs' \in BOOLEAN, faults' \in 0 .. MaxFaults,
             NEW r \in BOOLEAN, trust' = [trust EXCEPT !.restored = r]
      PROVE  IInv' /\ Moves
  <2>1. /\ s \in State(Committed) /\ s.pub = mem.pub /\ s.verified = mem.verified
        /\ s.seen = mem.seen /\ s.approved = mem.approved /\ s.rendered = Render(mem.approved)
    <3>1. mem.approved \in Committed \union {NoFence}
      BY <1>6, <1>f, Zenon DEF CanRetain, State
    <3>2. Render(mem.approved) \in Committed \union {Empty, Nil}
      BY <1>f, <3>1, RenderFacts, Zenon
    <3> QED BY <1>f, <3>2, Zenon DEF State
  <2> HIDE DEF s
  <2>2. /\ mem' \in State(Committed) /\ mem'.pub = mem.pub /\ mem'.verified = mem.verified
        /\ mem'.seen = mem.seen /\ mem'.approved = mem.approved /\ mem'.rendered = served'
        /\ disk' \in {disk, mem'}
    BY <1>6, <2>1, PrunedFacts, ZenonT(40)
  <2>3. Core(Committed, served', mem, disk, acks)
    BY <1>2, <1>6, <1>f, CoreRestart, Zenon
  <2>4. Core(Committed, served', mem', disk', acks)
    <3>1. mem.seen <= mem'.seen
      BY <1>f, <2>2 DEF State
    <3> QED BY <1>f, <2>2, <2>3, <3>1, CoreSave, Zenon
  <2>5. Kept(needs', mem', disk')
    BY <1>2, <2>2, Zenon DEF Kept
  <2>6. Gates(Committed, served', late, mem')
    BY <1>6, <2>2, RetainFacts, Zenon DEF Gates
  <2>7. /\ trust' \in [restored : BOOLEAN, ready : BOOLEAN, expired : BOOLEAN, withdrawn : BOOLEAN]
        /\ ~ trust'.withdrawn
    BY <1>2, <1>6, <1>t, Zenon
  <2>8. disk'.pub = mem.pub
    BY <1>2, <2>2, Zenon
  <2> QED BY <1>3, <1>6, <2>2, <2>4, <2>5, <2>6, <2>7, <2>8, Zenon
<1>7. CASE /\ CanRetain(mem) /\ served' = Render(mem.approved) /\ Saves(s)
           /\ needs' = FALSE /\ trust' = [trust EXCEPT !.restored = TRUE] /\ UNCHANGED faults
  <2>1. mem' = Pruned(s) /\ disk' = Pruned(s)
    BY <1>7, Zenon DEF Saves
  <2> HIDE DEF s
  <2> QED BY <1>6, <1>7, <1>t, <2>1, Zenon
<1>8. CASE /\ CanRetain(mem) /\ served' = Render(mem.approved) /\ SaveFails(s)
           /\ needs' \in BOOLEAN /\ trust' = [trust EXCEPT !.restored = ~ needs']
  <2>1. mem' = Pruned(s) /\ disk' \in {disk, Pruned(s)} /\ Fail
    BY <1>8, Zenon DEF SaveFails
  <2>2. faults' \in 0 .. MaxFaults
    BY <2>1, FailFacts, Zenon DEF IInv
  <2>3. (~ needs') \in BOOLEAN
    BY <1>8, Zenon
  <2> HIDE DEF s
  <2> QED BY <1>6, <1>8, <2>1, <2>2, <2>3, Zenon
<1> QED BY <1>4, <1>5, <1>7, <1>8, Zenon DEF Restart, s

-----------------------------------------------------------------------------
(* The control plane *)

LEMMA CommitKeeps ==
    ASSUME IInv, Commit
    PROVE  IInv' /\ Moves
<1>1. PICK m \in Manifest :
        /\ log' = Append(log, m) /\ m.epoch > 0
        /\ log # <<>> => Later(m, Last(log))
        /\ Len(log) < MaxLog
        /\ todo' \subseteq todo \union {<<"manifest", m>>, <<"chunk", m>>}
        /\ UNCHANGED <<boot, mem, disk, served, needs, installed, at, job, next, acks, late,
                       trust, faults>>
  <2>1. PICK c \in Contents, takeover \in BOOLEAN :
          LET l == IF log = <<>> THEN NoFence ELSE Last(log)
              m == IF takeover \/ l = NoFence
                     THEN [epoch |-> l.epoch + 1, revision |-> 1, previous |-> 0, content |-> c]
                     ELSE [epoch |-> l.epoch, revision |-> l.revision + 1,
                           previous |-> l.revision, content |-> c]
          IN /\ Len(log) < MaxLog
             /\ log' = Append(log, m)
             /\ todo' = todo \union {<<"manifest", m>>}
                             \union (IF IsZone(m) THEN {<<"chunk", m>>} ELSE {})
             /\ UNCHANGED <<boot, mem, disk, served, needs, installed, at, job, next, acks,
                            late, trust, faults>>
    BY ZenonT(40) DEF Commit
  <2> DEFINE l == IF log = <<>> THEN NoFence ELSE Last(log)
             m == IF takeover \/ l = NoFence
                    THEN [epoch |-> l.epoch + 1, revision |-> 1, previous |-> 0, content |-> c]
                    ELSE [epoch |-> l.epoch, revision |-> l.revision + 1,
                          previous |-> l.revision, content |-> c]
  <2>2. log # <<>> => Last(log) \in Committed /\ Last(log) \in Manifest
    BY DEF IInv, Logged, Last, Committed
  <2>3. l.epoch \in Nat /\ l.revision \in Nat /\ (l # NoFence => l.epoch > 0)
    <3>1. CASE log = <<>>
      BY <3>1, Zenon DEF NoFence
    <3>2. CASE log # <<>>
      <4>1. l \in Committed /\ l \in Manifest
        BY <2>2, <3>2, Zenon
      <4> HIDE DEF l
      <4> QED BY <4>1, StateFacts, Zenon DEF Sequenced, Manifest
    <3> QED BY <3>1, <3>2, Zenon
  <2>4. log # <<>> => l = Last(log)
    BY Zenon
  <2>5. /\ Len(log) < MaxLog /\ log' = Append(log, m)
        /\ todo' \subseteq todo \union {<<"manifest", m>>, <<"chunk", m>>}
        /\ UNCHANGED <<boot, mem, disk, served, needs, installed, at, job, next, acks, late,
                       trust, faults>>
    BY <2>1, Zenon
  <2> HIDE DEF l
  <2>6. m \in Manifest /\ m.epoch > 0 /\ Later(m, l)
    <3>1. CASE takeover \/ l = NoFence
      BY <2>3, <3>1 DEF Manifest, Later
    <3>2. CASE ~ (takeover \/ l = NoFence)
      BY <2>3, <3>2 DEF Manifest, Later
    <3> QED BY <3>1, <3>2, Zenon
  <2> HIDE DEF m
  <2> QED BY <2>4, <2>5, <2>6, Zenon
<1>f. /\ Core(Committed, served, mem, disk, acks) /\ Kept(needs, mem, disk) /\ Sequenced(Committed)
      /\ mem \in State(Committed)
  BY StateFacts, Zenon
<1>l. log \in Seq(Manifest)
  BY Zenon DEF IInv, Logged
<1>2. Committed' = Committed \union {m}
  BY <1>1, <1>l DEF Committed
<1>3. \A p \in Committed : Later(m, p)
  <2>1. TAKE p \in Committed
  <2>2. log # <<>> /\ p \in Manifest
    BY <1>l, <1>f DEF Committed, Sequenced
  <2>3. ~ Later(p, Last(log)) /\ Later(m, Last(log)) /\ Last(log) \in Manifest
    BY <1>1, <1>l, <2>1, <2>2 DEF IInv, Logged, Last
  <2> QED BY <2>2, <2>3 DEF Later, Manifest
<1>4. Core(Committed', served', mem', disk', acks') /\ Kept(needs', mem', disk')
  BY <1>1, <1>2, <1>3, <1>f, CoreCommit, Zenon
<1>5. Logged'
  <2>1. log' \in Seq(Manifest) /\ Len(log') = Len(log) + 1 /\ Last(log') = m
    BY <1>1, <1>l DEF Last
  <2>2. Len(log') <= MaxLog
    BY <1>1, <1>l, <2>1, AgentAssumption
  <2>3. ASSUME NEW p \in Committed' PROVE ~ Later(p, m)
    <3>1. p \in Manifest
      BY <1>2, <1>f, Zenon DEF Sequenced
    <3> QED BY <1>2, <1>3, <3>1, LaterFacts, Zenon
  <2> QED BY <2>1, <2>2, <2>3, Zenon DEF Logged
<1>6. Typed'
  <2>1. Queued(Committed', todo', boot')
    BY <1>1, <1>2 DEF IInv, Typed, Queued
  <2>2. /\ installed' \in Committed' \union {NoFence, Nil} /\ next' \in Committed' \union {Nil}
    BY <1>1, <1>2, Zenon DEF IInv, Typed
  <2> QED BY <1>1, <2>1, <2>2, ZenonT(40) DEF IInv, Typed
<1>7. Flow'
  BY <1>1, <1>2, Zenon DEF IInv, Flow
<1>8. Serves'
  <2>1. Sequenced(Committed \union {m})
    BY <1>2, <1>4, CoreFacts, Zenon
  <2>2. served \in Committed \union {NoFence, Nil, Empty, Gated}
        /\ mem.approved \in Committed \union {NoFence, Nil, Empty, Gated}
    BY <1>f, Zenon DEF Core, State
  <2>3. /\ Under(Committed, served, mem.pub) => Under(Committed', served, mem.pub)
        /\ Under(Committed, mem.approved, mem.pub) => Under(Committed', mem.approved, mem.pub)
    BY <1>2, <2>1, <2>2, UnderGrows, Zenon
  <2> QED BY <1>1, <2>3, Zenon DEF IInv, Serves, Gates
<1>9. Trusted'
  BY <1>1, Zenon DEF IInv, Trusted
<1>10. Moves
  BY <1>1, Zenon DEF Moves
<1> QED BY <1>4, <1>5, <1>6, <1>7, <1>8, <1>9, <1>10, Zenon DEF IInv

-----------------------------------------------------------------------------
(* The theorems *)

LEMMA InitHolds == Init => IInv
<1> SUFFICES ASSUME Init PROVE IInv
  BY Zenon
<1>1. Committed = {}
  BY DEF Init, Committed
<1>2. Sequenced(Committed)
  BY <1>1, Zenon DEF Sequenced
<1>m. /\ Nil # NoFence /\ Nil # Gated /\ Nil # Empty /\ Gated # Empty /\ ~ IsZone(NoFence)
  BY <1>2, Marks, Zenon
<1>3. /\ mem = Checkpoint /\ disk = Checkpoint /\ Checkpoint \in State(Committed)
      /\ Checkpoint.pub = NoFence /\ Checkpoint.verified = FALSE /\ Checkpoint.seen = 0
      /\ Checkpoint.approved = Nil /\ Checkpoint.rendered = Nil
  BY Zenon DEF Init, Checkpoint, State
<1>4. Core(Committed, served, mem, disk, acks)
  <2>1. ~ Later(NoFence, NoFence)
    BY LaterFacts, Zenon
  <2>2. Fenced(mem, disk)
    BY <1>3, <1>m, <2>1 DEF Fenced, Marked
  <2>3. Good(Committed, served, mem) /\ Good(Committed, served, disk)
    BY <1>3, Zenon DEF Good
  <2> QED BY <1>2, <1>3, <2>2, <2>3, Zenon DEF Init, Core
<1>5. Kept(needs, mem, disk)
  BY <1>3, Zenon DEF Kept
<1>6. Logged
  BY AgentAssumption DEF Init, Logged
<1>7. Typed
  <2>1. Queued(Committed, todo, boot)
    BY Zenon DEF Init, Queued
  <2>2. trust \in [restored : BOOLEAN, ready : BOOLEAN, expired : BOOLEAN, withdrawn : BOOLEAN]
    BY Zenon DEF Init
  <2>3. faults \in 0 .. MaxFaults
    BY AgentAssumption DEF Init
  <2> QED BY <2>1, <2>2, <2>3, Zenon DEF Init, Typed
<1>8. Flow
  BY Zenon DEF Init, Flow
<1>9. Serves
  <2>1. Gates(Committed, served, late, mem)
    BY <1>1, Zenon DEF Gates, Under
  <2> QED BY <2>1, Zenon DEF Init, Serves
<1>10. Trusted
  BY Zenon DEF Init, Trusted
<1> QED BY <1>4, <1>5, <1>6, <1>7, <1>8, <1>9, <1>10, Zenon DEF IInv

LEMMA NextKeeps ==
    ASSUME IInv, Next
    PROVE  IInv' /\ Moves
<1>1. ASSUME NEW m \in Committed, HandleManifest(m) PROVE IInv' /\ Moves
  BY <1>1, ManifestKeeps, AcceptKeeps, Zenon DEF HandleManifest
<1>2. CASE Continue
  BY <1>2, FencesKeep, RecordKeeps, PlanKeeps, InstallKeeps, InstalledKeeps, SettleKeeps,
     VerifyKeeps, VerifiedKeeps, AcknowledgeKeeps, ActivatesKeeps, HeartbeatKeeps, Zenon
     DEF Continue
<1>3. CASE Step
  BY <1>3, ExpiredKeeps, BeginsKeeps, Zenon DEF Step
<1> QED BY <1>1, <1>2, <1>3, CommitKeeps, BootstrapKeeps, ChunkKeeps, LimitKeeps, CrashKeeps,
           RestartKeeps, Zenon DEF Next

LEMMA StutterKeeps ==
    ASSUME IInv, UNCHANGED vars
    PROVE  IInv'
<1>1. /\ Core(Committed, served', mem', disk', acks') /\ Kept(needs', mem', disk') /\ log' = log
  BY StateFacts, Zenon DEF vars
<1>2. /\ UNCHANGED <<log, todo, boot, mem, disk, served, needs, installed, at, job, next, acks,
                    late, trust, faults>>
      /\ Committed' = Committed
  BY LogStays, Zenon DEF vars
<1>3. Typed'
  <2>1. Typed
    BY Zenon DEF IInv
  <2> QED BY <1>2, <2>1 DEF Typed
<1>4. Flow'
  BY <1>2, Zenon DEF IInv, Flow
<1>5. Serves'
  BY <1>2, Zenon DEF IInv, Serves
<1>6. Trusted'
  BY <1>2, Zenon DEF IInv, Trusted
<1> QED BY <1>1, <1>3, <1>4, <1>5, <1>6, ToHeld, Zenon

\* The inductive invariant holds of every behaviour of the member, whatever the
\* publications and however often it fails and crashes.
THEOREM AgentInvariance == Spec => []IInv
<1>1. IInv /\ [Next]_vars => IInv'
  BY NextKeeps, StutterKeeps, Zenon
<1> QED BY InitHolds, <1>1, PTL DEF Spec

\* Every variable keeps its type: what is recorded, approved or served is
\* always a committed manifest or nothing (state.go).
THEOREM AgentTypeCorrect == Spec => []TypeOK
<1>1. IInv => TypeOK
  <2> SUFFICES ASSUME IInv PROVE TypeOK
    BY Zenon
  <2>1. /\ mem \in State(Committed) /\ disk \in State(Committed)
        /\ acks \subseteq [pub : Committed, durable : BOOLEAN]
        /\ served \in Committed \union {Empty, Gated}
    BY StateFacts, Zenon DEF Core
  <2>2. \A s \in {mem, disk} :
          /\ s.pub \in Publications /\ s.verified \in BOOLEAN /\ s.seen \in Nat
          /\ s.chunks \subseteq Committed
          /\ s.approved \in Publications \union {Nil}
          /\ s.rendered \in Committed \union {Empty, Nil}
    BY <2>1, Zenon DEF State, Publications
  <2>3. /\ todo \subseteq {"chunk", "manifest"} \X Committed
        /\ boot # Nil => boot.m \in Publications /\ boot.left \in {"chunk", "manifest", "done"}
        /\ installed \in Publications \union {Nil}
    BY Zenon DEF IInv, Typed, Queued, Publications
  <2> QED BY <2>1, <2>2, <2>3, ZenonT(40) DEF IInv, Typed, Logged, TypeOK
<1> QED BY AgentInvariance, <1>1, PTL

\* Nothing that a durably acknowledged publication withdrew is answered again,
\* over any failures, crashes and restarts (reconcile, restoreActive and
\* gateRejectedUpdate together).
THEOREM NothingIsResurrected == Spec => []NoResurrection
<1>1. IInv => NoResurrection
  <2> SUFFICES ASSUME IInv, NEW a \in acks, a.durable, AnswersWithdrawn(a.pub) PROVE FALSE
    BY Zenon DEF NoResurrection
  <2>1. Acked(Committed, served, mem, disk, a.pub) /\ served \in Committed /\ IsZone(served)
    BY StateFacts, Zenon DEF Core, AnswersWithdrawn
  <2> QED BY <2>1, Zenon DEF Acked, Under, AnswersWithdrawn
<1> QED BY AgentInvariance, <1>1, PTL

\* No failure leaves the daemons answering what the desired state withdraws from
\* the approved configuration, once the lock is free (reconcile's errors and
\* gateRejectedUpdate).
THEOREM WithdrawalsGate == Spec => []WithdrawalGates
<1>1. IInv => WithdrawalGates
  <2> SUFFICES ASSUME IInv, at = "idle", ~ late, ~ CanRetain(mem), AnswersWithdrawn(mem.pub)
               PROVE  FALSE
    BY Zenon DEF WithdrawalGates
  <2>1. Under(Committed, served, mem.pub)
    BY Zenon DEF IInv, Serves, Gates
  <2>2. served \in Committed /\ IsZone(served)
    BY StateFacts, Zenon DEF Core, AnswersWithdrawn
  <2> QED BY <2>1, <2>2, Zenon DEF Under, AnswersWithdrawn
<1> QED BY AgentInvariance, <1>1, PTL

\* A configuration restored at restart and withdrawn after its limit stays
\* gated until a bootstrap completes (withdrawRestoredCheckpoint, Step).
THEOREM RestoredIsWithdrawn == Spec => []RestoredExpires
<1>1. IInv => RestoredExpires
  BY Zenon DEF IInv, Trusted, RestoredExpires
<1> QED BY AgentInvariance, <1>1, PTL

\* Whatever is acknowledged as Verified is what the daemons answer from; for a
\* withdrawal, they have nothing that it withdrew
\* (emitVerifiedPublicationAck, heartbeatPublications, verifyPublication).
THEOREM AcksAreProven == Spec => AckIsProven
<1>1. ASSUME IInv, [Next]_vars
      PROVE  [\A a \in acks' \ acks :
                \/ served' = Render(a.pub)
                \/ /\ ~ IsZone(a.pub)
                   /\ served' = Gated \/ (served' # Empty /\ Later(served', a.pub))]_vars
  <2> SUFFICES ASSUME Next, NEW a \in acks' \ acks
               PROVE  \/ served' = Render(a.pub)
                      \/ /\ ~ IsZone(a.pub)
                         /\ served' = Gated \/ (served' # Empty /\ Later(served', a.pub))
    BY <1>1, Zenon
  <2>1. /\ acks' = acks \union {Verified} /\ served' = served
        /\ mem.verified /\ (IsZone(mem.pub) => served = Render(mem.pub))
    BY <1>1, NextKeeps, Zenon DEF Moves
  <2>2. a.pub = mem.pub
    BY <2>1 DEF Verified
  <2>3. CASE IsZone(mem.pub)
    BY <2>1, <2>2, <2>3, Zenon
  <2>4. CASE ~ IsZone(mem.pub) /\ served \in {Empty, Gated}
    BY <2>1, <2>2, <2>4, Zenon DEF Render
  <2>5. CASE ~ IsZone(mem.pub) /\ served \notin {Empty, Gated}
    <3>1. served \in Committed /\ IsZone(served)
      BY <1>1, <2>5, StateFacts, Zenon DEF Core
    <3>2. ~ Later(mem.pub, served)
      BY <1>1, <2>1, <2>5, <3>1, StateFacts, Zenon DEF Under
    <3>3. Later(served, mem.pub)
      BY <1>1, <2>1, <2>5, <3>1, <3>2, StateFacts, Zenon DEF Sequenced
    <3> QED BY <2>1, <2>2, <2>5, <3>3, Zenon
  <2> QED BY <2>3, <2>4, <2>5, Zenon
<1> QED BY AgentInvariance, <1>1, PTL DEF Spec, AckIsProven

\* The recorded publication never goes back, in memory or on disk, and no plan
\* is recorded that was compiled from an observation older than an acknowledged
\* one (handleManifest, validateContributionFences, commitContributionFences).
THEOREM FencesOnlyAdvance == Spec => FencesAdvance
<1> DEFINE A == /\ ~ Later(disk.pub, disk'.pub) /\ ~ Later(disk'.pub, mem'.pub)
                /\ IsZone(mem'.pub) /\ mem'.pub # mem.pub /\ mem'.pub # disk.pub =>
                     \A a \in acks : a.durable => SeenOf[a.pub.content] <= SeenOf[mem'.pub.content]
<1>1. ASSUME IInv, [Next]_vars PROVE [A]_vars
  <2> SUFFICES ASSUME Next PROVE A
    BY <1>1, Zenon
  <2>1. IInv' /\ Moves
    BY <1>1, NextKeeps, Zenon
  <2>f. /\ Core(Committed, served, mem, disk, acks) /\ Sequenced(Committed)
        /\ mem.pub \in Committed \union {NoFence} /\ disk.pub \in Committed \union {NoFence}
    BY <1>1, StateFacts, Zenon
  <2>g. /\ ~ Later(disk.pub, mem.pub) /\ ~ Later(disk.pub, disk.pub)
        /\ Committed \union {NoFence} \subseteq Manifest \union {NoFence}
    BY <2>f, CoreFacts, Zenon
  <2>2. ~ Later(disk'.pub, mem'.pub)
    BY <2>1, Zenon DEF IInv, Core, Fenced
  <2>r. at = "record" => /\ next \in Committed /\ ~ Later(mem.pub, next)
                         /\ IsZone(next) => mem.seen <= SeenOf[next.content]
    BY <1>1, Zenon DEF IInv, Flow
  <2>3. ~ Later(disk.pub, disk'.pub)
    <3>1. CASE disk'.pub \in {disk.pub, mem.pub}
      BY <2>g, <3>1, Zenon
    <3>2. CASE at = "record" /\ disk'.pub = next
      BY <2>f, <2>g, <2>r, <3>2, LaterFacts, Zenon
    <3> QED BY <2>1, <3>1, <3>2, Zenon DEF Moves
  <2>4. ASSUME IsZone(mem'.pub), mem'.pub # mem.pub, mem'.pub # disk.pub, NEW a \in acks, a.durable
        PROVE  SeenOf[a.pub.content] <= SeenOf[mem'.pub.content]
    <3>1. at = "record" /\ mem'.pub = next
      BY <2>1, <2>4, Zenon DEF Moves
    <3>2. SeenOf[a.pub.content] <= disk.seen /\ disk.seen <= mem.seen
      BY <2>4, <2>f, Zenon DEF Core, Acked, Fenced
    <3>3. mem.seen <= SeenOf[next.content]
      BY <2>4, <2>r, <3>1, Zenon
    <3>4. SeenOf[a.pub.content] \in Nat /\ SeenOf[next.content] \in Nat
          /\ mem.seen \in Nat /\ disk.seen \in Nat
      <4>1. a.pub \in Committed /\ next \in Committed /\ mem.seen \in Nat /\ disk.seen \in Nat
        BY <2>f, <2>r, <3>1, CoreFacts, Zenon
      <4> QED BY <2>f, <4>1, AgentAssumption, Zenon DEF Sequenced, Manifest
    <3> QED BY <3>1, <3>2, <3>3, <3>4
  <2> QED BY <2>2, <2>3, <2>4, Zenon
<1> HIDE DEF A
<1>2. Spec => [][A]_vars
  BY AgentInvariance, <1>1, PTL DEF Spec
<1> QED BY <1>2, Zenon DEF A, FencesAdvance

=============================================================================
