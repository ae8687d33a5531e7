-------------------------- MODULE UdcConfigProofs --------------------------
(***************************************************************************)
(* Proofs about UdcConfig, for every number of interfaces and endpoints    *)
(* and every way to share the endpoints out among the interfaces.          *)
(***************************************************************************)
EXTENDS UdcConfig, TLAPS

\* The device between two steps.  Beside the properties: only endpoints that are
\* on are halted, and only endpoints of interfaces are on.
Sound(d) ==
  /\ d \in Device
  /\ d.halt \subseteq d.on
  /\ d.on \subseteq EpsIn(Ifaces)
  /\ \A i \in Ifaces : EpsOf[i] \subseteq d.on \/ EpsOf[i] \cap d.on = {}
  /\ d.running => EpsOf[Data] \subseteq d.on /\ d.nb = 1
  /\ \A e \in d.busy \ {RxEp} : CanRun(d, e)

IInv ==
  /\ Sound(dev)
  /\ dev.cfg = 0 => dev.on = {}
  /\ main \in {"idle", "run", "claim"}
  /\ ok \in BOOLEAN

-----------------------------------------------------------------------------
(* Constants and sets of endpoints                                         *)

LEMMA Constants ==
  /\ Data \in Ifaces
  /\ TxEp \in Eps /\ RxEp \in Eps /\ TxEp # RxEp
  /\ TxEp \in EpsOf[Data] /\ RxEp \in EpsOf[Data]
  /\ \A i \in Ifaces : EpsOf[i] \subseteq Eps
  /\ \A i, j \in Ifaces : i # j => EpsOf[i] \cap EpsOf[j] = {}
  /\ Word \in Nat /\ Word > 2
BY UdcConfigAssumption

LEMMA EpsInIs ==
  ASSUME NEW I \in SUBSET Ifaces, NEW e
  PROVE  /\ e \in EpsIn(I) <=> \E i \in I : e \in EpsOf[i]
         /\ EpsIn(I) \subseteq Eps
BY Constants DEF EpsIn

\* An interface's endpoints belong to I's or none of them does.
LEMMA EpsInApart ==
  ASSUME NEW I \in SUBSET Ifaces, NEW i \in Ifaces
  PROVE  /\ i \in I => EpsOf[i] \subseteq EpsIn(I)
         /\ i \notin I => EpsOf[i] \cap EpsIn(I) = {}
         /\ EpsIn({i}) = EpsOf[i]
<1>1. i \in I => EpsOf[i] \subseteq EpsIn(I)
  BY EpsInIs
<1>2. i \notin I => EpsOf[i] \cap EpsIn(I) = {}
  BY EpsInIs, Constants
<1>3. EpsIn({i}) = EpsOf[i]
  BY DEF EpsIn
<1>4. QED
  BY <1>1, <1>2, <1>3

-----------------------------------------------------------------------------
(* Endpoints and interfaces                                                *)

LEMMA FreeIs ==
  ASSUME NEW d \in Device, NEW S \in SUBSET Eps
  PROVE  LET f == Free(d, S) IN
         /\ f \in Device
         /\ f.on = d.on \ S /\ f.halt = d.halt \ S /\ f.busy = d.busy \ S
         /\ f.cfg = d.cfg /\ f.addr = d.addr /\ f.nb = d.nb
         /\ f.running = d.running /\ f.tx = d.tx /\ f.rx = d.rx
BY DEF Free, Device

LEMMA IfaceDisableIs ==
  ASSUME NEW d \in Device, NEW I \in SUBSET Ifaces
  PROVE  LET f == IfaceDisable(d, I) IN
         /\ f \in Device
         /\ f.on = d.on \ EpsIn(I) /\ f.halt = d.halt \ EpsIn(I)
         /\ f.busy = d.busy \ EpsIn(I)
         /\ f.cfg = d.cfg /\ f.addr = d.addr
         /\ Data \in I => ~f.running
         /\ Data \notin I => f.running = d.running /\ f.nb = d.nb
<1> DEFINE f == Free(d, EpsIn(I))
<1>1. EpsIn(I) \in SUBSET Eps
  BY EpsInIs
<1>2. /\ f \in Device
      /\ f.on = d.on \ EpsIn(I) /\ f.halt = d.halt \ EpsIn(I)
      /\ f.busy = d.busy \ EpsIn(I)
      /\ f.cfg = d.cfg /\ f.addr = d.addr /\ f.nb = d.nb /\ f.running = d.running
  BY <1>1, FreeIs
<1>3. (f.nb - 1) % Word \in 0 .. Word - 1
  BY <1>2, Constants DEF Device
<1> HIDE DEF f
<1>4. CASE Data \in I
  <2>1. IfaceDisable(d, I) = [f EXCEPT !.nb = (@ - 1) % Word, !.running = FALSE]
    BY <1>4 DEF IfaceDisable, f
  <2>2. QED
    BY <1>2, <1>3, <1>4, <2>1 DEF Device
<1>5. CASE Data \notin I
  <2>1. IfaceDisable(d, I) = f
    BY <1>5 DEF IfaceDisable, f
  <2>2. QED
    BY <1>2, <1>5, <2>1
<1>6. QED
  BY <1>4, <1>5

LEMMA IfaceDisableSound ==
  ASSUME NEW d, Sound(d), NEW I \in SUBSET Ifaces
  PROVE  Sound(IfaceDisable(d, I))
<1> DEFINE f == IfaceDisable(d, I)
<1>1. /\ f \in Device
      /\ f.on = d.on \ EpsIn(I) /\ f.halt = d.halt \ EpsIn(I)
      /\ f.busy = d.busy \ EpsIn(I)
      /\ Data \in I => ~f.running
      /\ Data \notin I => f.running = d.running /\ f.nb = d.nb
  BY IfaceDisableIs DEF Sound
<1> HIDE DEF f
<1>2. f.halt \subseteq f.on /\ f.on \subseteq EpsIn(Ifaces)
  BY <1>1 DEF Sound
<1>3. ASSUME NEW i \in Ifaces
      PROVE  EpsOf[i] \subseteq f.on \/ EpsOf[i] \cap f.on = {}
  BY <1>1, EpsInApart DEF Sound
<1>4. f.running => EpsOf[Data] \subseteq f.on /\ f.nb = 1
  BY <1>1, EpsInApart, Constants DEF Sound
<1>5. ASSUME NEW e \in f.busy \ {RxEp}
      PROVE  CanRun(f, e)
  BY <1>1, <1>5 DEF Sound, CanRun
<1>6. QED
  BY <1>1, <1>2, <1>3, <1>4, <1>5 DEF Sound, f

LEMMA RunIs ==
  ASSUME NEW d \in Device, NEW e \in Eps
  PROVE  LET f == Run(d, e) IN
         /\ f \in Device
         /\ f.on = d.on /\ f.halt = d.halt /\ d.busy \subseteq f.busy
         /\ f.busy \subseteq d.busy \cup {e} /\ (e \in f.busy \ d.busy => CanRun(d, e))
         /\ f.cfg = d.cfg /\ f.addr = d.addr /\ f.nb = d.nb
         /\ f.running = d.running /\ f.tx = d.tx /\ f.rx = d.rx
         /\ CanRun(d, e) => e \in f.busy
BY DEF Run, Device, CanRun

\* A change of nothing but the transfers keeps the device sound.
LEMMA BusySound ==
  ASSUME NEW d, Sound(d), NEW f \in Device,
         f.on = d.on, f.halt = d.halt, f.nb = d.nb, f.running = d.running,
         \A e \in f.busy \ {RxEp} : e \in d.busy \/ CanRun(d, e)
  PROVE  Sound(f)
BY DEF Sound, CanRun

\* Of an interface that has no endpoint on, all are allocated, and of another none.
LEMMA TakenIs ==
  ASSUME NEW d, Sound(d), NEW i \in Ifaces
  PROVE  /\ EpsOf[i] \cap d.on = {} => Taken(d, i) = EpsOf[i]
         /\ EpsOf[i] \cap d.on # {} => Taken(d, i) = {}
<1>1. EpsOf[i] \cap d.on = {} => Taken(d, i) = EpsOf[i]
  BY DEF Taken
<1>2. ASSUME EpsOf[i] \cap d.on # {}, NEW e \in Taken(d, i)
      PROVE  FALSE
  <2>1. EpsOf[i] \subseteq d.on
    BY <1>2 DEF Sound
  <2>2. e \in EpsOf[i] /\ e < e
    BY <2>1 DEF Taken
  <2>3. e \in Int
    BY <2>2, Constants DEF Eps
  <2>4. QED
    BY <2>2, <2>3
<1>3. QED
  BY <1>1, <1>2

LEMMA AllocSound ==
  ASSUME NEW d, Sound(d), NEW C \in SUBSET Ifaces
  PROVE  LET f == Alloc(d, EpsIn(C)) IN
         /\ Sound(f)
         /\ f.on = d.on \cup EpsIn(C) /\ f.busy = d.busy
         /\ f.halt \subseteq d.halt \ EpsIn(C)
         /\ f.cfg = d.cfg /\ f.addr = d.addr /\ f.running = d.running
         /\ f.nb = d.nb
<1> DEFINE f == Alloc(d, EpsIn(C))
<1>1. EpsIn(C) \subseteq Eps /\ EpsIn(C) \subseteq EpsIn(Ifaces)
  BY EpsInIs
<1>2. d \in Device
  BY DEF Sound
<1>3. /\ f \in Device
      /\ f.on = d.on \cup EpsIn(C) /\ f.busy = d.busy
      /\ f.halt = {e \in d.halt : \A a \in EpsIn(C) : e < a}
      /\ f.cfg = d.cfg /\ f.addr = d.addr /\ f.running = d.running /\ f.nb = d.nb
  BY <1>1, <1>2 DEF Alloc, Device
<1> HIDE DEF f
<1>4. f.halt \subseteq d.halt \ EpsIn(C)
  <2>1. SUFFICES ASSUME NEW e \in f.halt, e \in EpsIn(C)
                 PROVE  FALSE
    BY <1>3
  <2>2. e < e /\ e \in Int
    BY <1>1, <1>3, <2>1 DEF Eps
  <2>3. QED
    BY <2>2
<1>5. f.halt \subseteq f.on /\ f.on \subseteq EpsIn(Ifaces)
  BY <1>1, <1>3, <1>4 DEF Sound
<1>6. ASSUME NEW i \in Ifaces
      PROVE  EpsOf[i] \subseteq f.on \/ EpsOf[i] \cap f.on = {}
  BY <1>3, EpsInApart DEF Sound
<1>7. f.running => EpsOf[Data] \subseteq f.on /\ f.nb = 1
  BY <1>3 DEF Sound
<1>8. ASSUME NEW e \in f.busy \ {RxEp}
      PROVE  CanRun(f, e)
  BY <1>3, <1>4 DEF Sound, CanRun
<1>9. QED
  BY <1>3, <1>4, <1>5, <1>6, <1>7, <1>8 DEF Sound, f

LEMMA DataEnableSound ==
  ASSUME NEW d, Sound(d), NEW whole \in BOOLEAN, NEW zlp \in BOOLEAN,
         EpsOf[Data] \subseteq d.on, CanRun(d, TxEp)
  PROVE  LET f == DataEnable(d, whole, zlp) IN
         /\ ~d.running => Sound(f)
         /\ f.on = d.on /\ f.halt = d.halt
         /\ d.busy \subseteq f.busy /\ f.busy \subseteq d.busy \cup {TxEp}
         /\ f.cfg = d.cfg /\ f.addr = d.addr
         /\ whole => f.running
<1> DEFINE c == [d EXCEPT !.tx = zlp, !.rx = "going"]
           n == IF whole THEN 1 ELSE 0
           r == IF zlp THEN Run(c, TxEp) ELSE c
           f == DataEnable(d, whole, zlp)
<1>1. /\ c \in Device
      /\ c.on = d.on /\ c.halt = d.halt /\ c.busy = d.busy /\ c.nb = d.nb
      /\ c.running = d.running /\ c.cfg = d.cfg /\ c.addr = d.addr
  BY DEF Sound, Device
<1>2. TxEp \in Eps /\ CanRun(c, TxEp)
  BY <1>1, Constants DEF CanRun
<1> HIDE DEF c
<1>3. /\ r \in Device
      /\ r.on = d.on /\ r.halt = d.halt /\ d.busy \subseteq r.busy
      /\ r.busy \subseteq d.busy \cup {TxEp}
      /\ r.running = d.running /\ r.cfg = d.cfg /\ r.addr = d.addr
  BY <1>1, <1>2, RunIs
<1>4. n \in 0 .. Word - 1
  BY Constants
<1>5. f = [r EXCEPT !.nb = n, !.running = IF whole THEN TRUE ELSE @]
  BY DEF DataEnable, c
<1> HIDE DEF r, n, f
<1>6. /\ f \in Device
      /\ f.on = r.on /\ f.halt = r.halt /\ f.busy = r.busy /\ f.nb = n
      /\ f.running = (IF whole THEN TRUE ELSE r.running) /\ f.cfg = r.cfg /\ f.addr = r.addr
  BY <1>3, <1>4, <1>5 DEF Device
<1>7. ASSUME ~d.running
      PROVE  Sound(f)
  <2>1. f.running => EpsOf[Data] \subseteq f.on /\ f.nb = 1
    BY <1>3, <1>6, <1>7 DEF n
  <2>2. \A e \in f.busy \ {RxEp} : CanRun(f, e)
    BY <1>3, <1>6 DEF Sound, CanRun
  <2>3. QED
    BY <1>3, <1>6, <2>1, <2>2 DEF Sound
<1>8. QED
  BY <1>3, <1>6, <1>7 DEF f

\* Enabling interfaces: what is on stays on, what belongs to others is left alone,
\* and if none refuses, everything is there.
LEMMA IfaceEnableSound ==
  ASSUME NEW d, Sound(d), NEW I \in SUBSET Ifaces, NEW zlp \in BOOLEAN
  PROVE  LET z == IfaceEnable(d, I, zlp) IN
         /\ Sound(z)
         /\ z.cfg = d.cfg
         /\ d.on \subseteq z.on /\ z.on \subseteq d.on \cup EpsIn(I)
         /\ d.busy \subseteq z.busy /\ z.busy \subseteq d.busy \cup EpsIn(I)
         /\ z.halt \subseteq d.halt
         /\ Accepts(d, I) => /\ EpsIn(I) \subseteq z.on
                             /\ Listens \cap EpsIn(I) \subseteq z.busy
                             /\ Data \in I => z.running
<1> DEFINE R      == {i \in I : Refuses(d, i)}
           whole  == {i \in I : \A r \in R : i < r}
           tried  == {i \in I : \A r \in R : i <= r}
           called == {i \in tried : EpsOf[i] \cap d.on = {}}
           T      == UNION {Taken(d, i) : i \in tried}
           a      == Alloc(d, T)
           b      == [a EXCEPT !.busy = @ \cup (Listens \cap EpsIn(called))]
           z      == IfaceEnable(d, I, zlp)
<1>1. z = IF Data \in called THEN DataEnable(b, Data \in whole, zlp) ELSE b
  BY DEF IfaceEnable
<1>2. called \in SUBSET Ifaces /\ called \subseteq I
  OBVIOUS
<1>3. T = EpsIn(called)
  BY TakenIs, <1>2 DEF EpsIn
<1>4. a = Alloc(d, EpsIn(called))
  BY <1>3
<1>5. EpsIn(called) \subseteq EpsIn(I) /\ EpsIn(called) \subseteq Eps
  BY <1>2, EpsInIs
<1>6. Accepts(d, I) => called = I /\ whole = I
  BY DEF Accepts, Refuses
<1> HIDE DEF R, whole, tried, called, T, a
<1>7. /\ Sound(a)
      /\ a.on = d.on \cup EpsIn(called) /\ a.busy = d.busy
      /\ a.halt \subseteq d.halt \ EpsIn(called)
      /\ a.cfg = d.cfg /\ a.running = d.running
  BY <1>2, <1>4, AllocSound
<1>8. /\ b \in Device
      /\ b.on = a.on /\ b.halt = a.halt /\ b.nb = a.nb /\ b.running = a.running
      /\ b.cfg = a.cfg
      /\ b.busy = a.busy \cup (Listens \cap EpsIn(called))
  BY <1>7, <1>5 DEF Sound, Device
<1> HIDE DEF b, z
<1>9. Sound(b)
  <2>1. ASSUME NEW e \in EpsIn(called)
        PROVE  CanRun(a, e)
    BY <1>7 DEF CanRun
  <2>2. QED
    BY <1>7, <1>8, <2>1, BusySound
<1>10. CASE Data \in called
  <2>1. EpsOf[Data] \subseteq b.on /\ CanRun(b, TxEp) /\ TxEp \in EpsIn(called)
    <3>1. EpsOf[Data] \subseteq EpsIn(called) /\ TxEp \in EpsOf[Data]
      BY <1>2, <1>10, Constants, EpsInApart
    <3>2. QED
      BY <1>7, <1>8, <3>1 DEF CanRun
  <2>2. ~b.running
    <3>1. EpsOf[Data] \cap d.on = {}
      BY <1>10 DEF called
    <3>2. ~d.running
      BY <3>1, Constants DEF Sound
    <3>3. QED
      BY <1>7, <1>8, <3>2
  <2>3. z = DataEnable(b, Data \in whole, zlp)
    BY <1>1, <1>10
  <2>4. ASSUME NEW w \in BOOLEAN
        PROVE  LET y == DataEnable(b, w, zlp) IN
               /\ Sound(y)
               /\ y.on = b.on /\ y.halt = b.halt
               /\ b.busy \subseteq y.busy /\ y.busy \subseteq b.busy \cup {TxEp}
               /\ y.cfg = b.cfg
               /\ w => y.running
    BY <1>9, <2>1, <2>2, DataEnableSound
  <2>5. /\ Sound(z)
        /\ z.on = b.on /\ z.halt = b.halt
        /\ b.busy \subseteq z.busy /\ z.busy \subseteq b.busy \cup {TxEp}
        /\ z.cfg = b.cfg
        /\ Data \in whole => z.running
    <3>1. CASE Data \in whole
      <4>1. DataEnable(b, Data \in whole, zlp) = DataEnable(b, TRUE, zlp)
        BY <3>1 DEF DataEnable
      <4>2. QED
        BY <2>3, <2>4, <3>1, <4>1
    <3>2. CASE Data \notin whole
      <4>1. DataEnable(b, Data \in whole, zlp) = DataEnable(b, FALSE, zlp)
        BY <3>2 DEF DataEnable
      <4>2. QED
        BY <2>3, <2>4, <3>2, <4>1
    <3>3. QED
      BY <3>1, <3>2
  <2>6. QED
    BY <1>7, <1>5, <1>6, <1>8, <2>1, <2>5 DEF z
<1>11. CASE Data \notin called
  <2>1. z = b
    BY <1>1, <1>11
  <2>2. QED
    BY <1>7, <1>5, <1>6, <1>8, <1>9, <1>11, <2>1 DEF z
<1>12. QED
  BY <1>10, <1>11

LEMMA UdcResetIs ==
  ASSUME NEW d, Sound(d), d.cfg = 0 => d.on = {}
  PROVE  LET f == UdcReset(d) IN
         /\ Sound(f)
         /\ f.cfg = 0 /\ f.on = {} /\ f.halt = {}
         /\ f.busy \subseteq d.busy \cap {RxEp}
         /\ d.cfg # 0 => f.busy = {}
<1> DEFINE c == IF d.cfg # 0 THEN IfaceDisable(d, Ifaces) ELSE d
           f == UdcReset(d)
<1>1. d \in Device /\ Ifaces \in SUBSET Ifaces
  BY DEF Sound
<1>2. Sound(c) /\ c.on = {} /\ c.halt = {} /\ c.busy \subseteq d.busy
  <2>1. CASE d.cfg # 0
    BY <1>1, <2>1, IfaceDisableSound, IfaceDisableIs DEF Sound
  <2>2. CASE d.cfg = 0
    BY <2>2 DEF Sound
  <2>3. QED
    BY <2>1, <2>2
<1>3. c.busy \subseteq {RxEp}
  BY <1>2 DEF Sound, CanRun
<1>4. d.cfg # 0 => c.busy = {}
  <2>1. SUFFICES ASSUME d.cfg # 0
                 PROVE  c.busy = {}
    OBVIOUS
  <2>2. c.busy = d.busy \ EpsIn(Ifaces)
    BY <1>1, <2>1, IfaceDisableIs
  <2>3. RxEp \in EpsIn(Ifaces)
    BY Constants, EpsInIs
  <2>4. QED
    BY <1>3, <2>2, <2>3
<1>5. f = [c EXCEPT !.cfg = 0]
  BY DEF UdcReset
<1> HIDE DEF c, f
<1>6. /\ f \in Device
      /\ f.cfg = 0 /\ f.on = c.on /\ f.halt = c.halt /\ f.busy = c.busy
      /\ f.nb = c.nb /\ f.running = c.running
  BY <1>2, <1>5 DEF Sound, Device
<1>7. Sound(f)
  BY <1>2, <1>6, BusySound
<1>8. QED
  BY <1>2, <1>3, <1>4, <1>6, <1>7 DEF f

LEMMA EndedSound ==
  ASSUME NEW d, Sound(d), NEW e \in Eps, NEW f \in Ended(d, e)
  PROVE  Sound(f) /\ f.on = d.on /\ f.cfg = d.cfg
<1> DEFINE c  == [d EXCEPT !.busy = @ \ {e}]
           cr == [c EXCEPT !.rx = "ready"]
           cg == [c EXCEPT !.rx = "going"]
           ct == [c EXCEPT !.tx = FALSE]
<1>1. f \in {cr, Run(cg, e), ct, Run(c, e), c}
  BY DEF Ended
<1>2. /\ c \in Device
      /\ c.on = d.on /\ c.halt = d.halt /\ c.busy = d.busy \ {e} /\ c.nb = d.nb
      /\ c.running = d.running /\ c.cfg = d.cfg
  BY DEF Sound, Device
<1>3. Sound(c)
  BY <1>2, BusySound
<1> HIDE DEF c
<1>4. ASSUME NEW g \in {cr, cg, ct}
      PROVE  /\ g \in Device
             /\ g.on = c.on /\ g.halt = c.halt /\ g.busy = c.busy /\ g.nb = c.nb
             /\ g.running = c.running /\ g.cfg = c.cfg
  BY <1>2, <1>4 DEF Device
<1> HIDE DEF cr, cg, ct
<1>5. Sound(cr) /\ Sound(cg) /\ Sound(ct)
  BY <1>3, <1>4, BusySound
<1>6. ASSUME NEW g \in {c, cg}
      PROVE  /\ Sound(Run(g, e))
             /\ Run(g, e).on = g.on /\ Run(g, e).cfg = g.cfg
  <2>1. Sound(g) /\ g \in Device
    BY <1>3, <1>5, <1>6 DEF Sound
  <2>2. /\ Run(g, e) \in Device
        /\ Run(g, e).on = g.on /\ Run(g, e).halt = g.halt /\ Run(g, e).nb = g.nb
        /\ Run(g, e).running = g.running /\ Run(g, e).cfg = g.cfg
        /\ Run(g, e).busy \subseteq g.busy \cup {e}
        /\ (e \in Run(g, e).busy \ g.busy => CanRun(g, e))
    BY <2>1, RunIs
  <2>3. QED
    BY <2>1, <2>2, BusySound
<1>7. QED
  BY <1>1, <1>2, <1>3, <1>4, <1>5, <1>6

-----------------------------------------------------------------------------
(* The invariant                                                           *)

LEMMA InvInit == Init => IInv
<1>1. SUFFICES ASSUME Init PROVE IInv
  OBVIOUS
<1>2. dev \in Device
  BY <1>1, Constants DEF Init, Device
<1>3. dev.on = {} /\ dev.halt = {} /\ dev.busy = {} /\ ~dev.running
  BY <1>1 DEF Init
<1>4. QED
  BY <1>1, <1>2, <1>3 DEF Init, IInv, Sound

\* What a step must show for the device; the rest of IInv is looked at once.
Settled(d) == Sound(d) /\ (d.cfg = 0 => d.on = {})

\* The device as SET_CONFIGURATION enables its interfaces, and SET_INTERFACE its
\* one: reset, or without that interface.
LEMMA SetConfigurationIs ==
  ASSUME IInv, NEW zlp \in BOOLEAN, SetConfiguration(zlp)
  PROVE  /\ Settled(dev')
         /\ dev'.halt = {}
         /\ ok' \in BOOLEAN
         /\ ok' => /\ EpsIn(Ifaces) \subseteq dev'.on
                   /\ Listens \subseteq dev'.busy
                   /\ dev'.running
         /\ ok' \/ (dev.cfg = 0 /\ RxEp \in dev.busy)
<1> DEFINE u == UdcReset(dev)
           d == [u EXCEPT !.cfg = 1]
           z == IfaceEnable(d, Ifaces, zlp)
<1>1. ok' = Accepts(d, Ifaces) /\ dev' = z
  BY DEF SetConfiguration, Answer
<1>2. /\ Sound(u) /\ u.on = {} /\ u.halt = {}
      /\ u.busy \subseteq dev.busy \cap {RxEp} /\ (dev.cfg # 0 => u.busy = {})
  BY UdcResetIs DEF IInv
<1> HIDE DEF u
<1>3. /\ d \in Device
      /\ d.on = {} /\ d.halt = {} /\ d.busy = u.busy /\ d.nb = u.nb
      /\ d.running = u.running /\ d.cfg = 1
  BY <1>2 DEF Sound, Device
<1> HIDE DEF d, z
<1>4. Sound(d)
  BY <1>2, <1>3, BusySound
<1>5. /\ Sound(z) /\ z.cfg = 1 /\ z.halt \subseteq d.halt
      /\ Accepts(d, Ifaces) => /\ EpsIn(Ifaces) \subseteq z.on
                               /\ Listens \cap EpsIn(Ifaces) \subseteq z.busy
                               /\ z.running
  BY <1>3, <1>4, Constants, IfaceEnableSound DEF z
<1>6. Accepts(d, Ifaces) \/ (dev.cfg = 0 /\ RxEp \in dev.busy)
  <2>1. SUFFICES ASSUME ~(dev.cfg = 0 /\ RxEp \in dev.busy)
                 PROVE  Accepts(d, Ifaces)
    OBVIOUS
  <2>2. d.busy = {}
    BY <1>2, <1>3, <2>1
  <2>3. QED
    BY <1>3, <2>2 DEF Accepts, Refuses
<1>7. Listens \subseteq EpsIn(Ifaces)
  BY UdcConfigAssumption
<1>8. ok' \in BOOLEAN
  BY <1>1 DEF Accepts
<1>9. QED
  BY <1>1, <1>3, <1>5, <1>6, <1>7, <1>8 DEF Settled

LEMMA SetInterfaceIs ==
  ASSUME IInv, NEW i \in Ifaces, NEW zlp \in BOOLEAN, SetInterface(i, zlp)
  PROVE  /\ Settled(dev')
         /\ ok' = TRUE
         /\ dev'.on \ EpsOf[i] = dev.on \ EpsOf[i]
         /\ dev'.busy \ EpsOf[i] = dev.busy \ EpsOf[i]
<1> DEFINE d == IfaceDisable(dev, {i})
           z == IfaceEnable(d, {i}, zlp)
<1>1. ok' = Accepts(d, {i}) /\ dev' = z /\ dev.cfg # 0
  BY DEF SetInterface, Answer
<1>2. EpsIn({i}) = EpsOf[i] /\ {i} \in SUBSET Ifaces
  BY EpsInApart
<1>3. Sound(d)
  BY <1>2, IfaceDisableSound DEF IInv
<1>4. /\ d.on = dev.on \ EpsOf[i] /\ d.busy = dev.busy \ EpsOf[i]
      /\ d.cfg = dev.cfg
  <2>1. dev \in Device
    BY DEF IInv, Sound
  <2>2. QED
    BY <1>2, <2>1, IfaceDisableIs
<1> HIDE DEF d, z
<1>5. /\ Sound(z) /\ z.cfg = d.cfg
      /\ d.on \subseteq z.on /\ z.on \subseteq d.on \cup EpsOf[i]
      /\ d.busy \subseteq z.busy /\ z.busy \subseteq d.busy \cup EpsOf[i]
  BY <1>2, <1>3, IfaceEnableSound DEF z
<1>6. Accepts(d, {i})
  BY <1>4 DEF Accepts, Refuses
<1>7. QED
  BY <1>1, <1>4, <1>5, <1>6 DEF Settled

LEMMA SetBadSettingIs ==
  ASSUME IInv, NEW i \in Ifaces, SetBadSetting(i)
  PROVE  /\ Settled(dev')
         /\ dev'.on \ EpsOf[i] = dev.on \ EpsOf[i]
         /\ dev'.busy \ EpsOf[i] = dev.busy \ EpsOf[i]
<1>1. dev' = IfaceDisable(dev, {i}) /\ dev.cfg # 0
  BY DEF SetBadSetting, Answer
<1>2. EpsIn({i}) = EpsOf[i] /\ {i} \in SUBSET Ifaces
  BY EpsInApart
<1>3. Sound(dev')
  BY <1>1, <1>2, IfaceDisableSound DEF IInv
<1>4. /\ dev'.on = dev.on \ EpsOf[i] /\ dev'.busy = dev.busy \ EpsOf[i]
      /\ dev'.cfg = dev.cfg
  <2>1. dev \in Device
    BY DEF IInv, Sound
  <2>2. QED
    BY <1>1, <1>2, <2>1, IfaceDisableIs
<1>5. QED
  BY <1>1, <1>3, <1>4 DEF Settled

LEMMA BusResetIs ==
  ASSUME IInv, BusReset
  PROVE  Settled(dev')
<1> DEFINE d == [dev EXCEPT !.on = {}, !.halt = {}, !.busy = {}, !.addr = FALSE]
           c == IF d.cfg # 0 THEN IfaceDisable(d, Ifaces) ELSE d
<1>1. dev' = [c EXCEPT !.cfg = 0]
  BY DEF BusReset, UdcReset
<1>2. /\ d \in Device
      /\ d.on = {} /\ d.halt = {} /\ d.busy = {}
      /\ d.cfg = dev.cfg /\ d.running = dev.running
  BY DEF IInv, Sound, Device
<1> HIDE DEF d
<1>3. /\ c \in Device
      /\ c.on = {} /\ c.halt = {} /\ c.busy = {} /\ ~c.running
  <2>1. CASE d.cfg # 0
    <3>1. Ifaces \in SUBSET Ifaces /\ Data \in Ifaces
      BY Constants
    <3>2. c = IfaceDisable(d, Ifaces)
      BY <2>1
    <3>3. QED
      BY <1>2, <3>1, <3>2, IfaceDisableIs
  <2>2. CASE d.cfg = 0
    <3>1. ~dev.running
      BY <1>2, <2>2, Constants DEF IInv, Sound
    <3>2. QED
      BY <1>2, <2>2, <3>1
  <2>3. QED
    BY <2>1, <2>2
<1> HIDE DEF c
<1>4. /\ dev' \in Device
      /\ dev'.on = {} /\ dev'.halt = {} /\ dev'.busy = {} /\ ~dev'.running
  BY <1>1, <1>3 DEF Device
<1>5. QED
  BY <1>4 DEF Settled, Sound

LEMMA ResetRequests ==
  ASSUME IInv, Unconfigure \/ BadTestMode
  PROVE  Settled(dev')
<1>1. dev' = UdcReset(dev)
  BY DEF Unconfigure, BadTestMode, Answer
<1>2. QED
  BY <1>1, UdcResetIs DEF IInv, Settled

LEMMA HaltRequests ==
  ASSUME IInv, NEW e \in Eps, SetHalt(e) \/ ClearHalt(e)
  PROVE  Settled(dev') /\ ok' \in BOOLEAN /\ main' = main
<1>0. Sound(dev) /\ dev \in Device
  BY DEF IInv, Sound
<1>1. CASE SetHalt(e)
  <2>1. CASE dev' = dev
    BY <1>1, <2>1 DEF SetHalt, Answer, IInv, Settled
  <2>2. CASE dev' = [dev EXCEPT !.halt = @ \cup {e}, !.busy = @ \ {e}]
    <3>1. /\ dev' \in Device
          /\ dev'.on = dev.on /\ dev'.halt = dev.halt \cup {e}
          /\ dev'.busy = dev.busy \ {e} /\ dev'.nb = dev.nb
          /\ dev'.running = dev.running /\ dev'.cfg = dev.cfg
      BY <1>0, <2>2 DEF Device
    <3>2. e \in dev.on
      BY <1>1 DEF SetHalt
    <3>3. \A k \in dev'.busy \ {RxEp} : CanRun(dev', k)
      BY <1>0, <3>1 DEF Sound, CanRun
    <3>4. Sound(dev')
      BY <1>0, <3>1, <3>2, <3>3 DEF Sound
    <3>5. QED
      BY <1>1, <3>1, <3>4 DEF SetHalt, Answer, IInv, Settled
  <2>3. QED
    BY <1>1, <2>1, <2>2 DEF SetHalt, Answer
<1>2. CASE ClearHalt(e)
  <2> DEFINE d == [dev EXCEPT !.halt = @ \ {e}]
             c == [d EXCEPT !.busy = @ \ {e}]
  <2>1. /\ d \in Device
        /\ d.on = dev.on /\ d.halt = dev.halt \ {e} /\ d.busy = dev.busy
        /\ d.nb = dev.nb /\ d.running = dev.running /\ d.cfg = dev.cfg
    BY <1>0 DEF Device
  <2>2. dev' \in Ended(d, e) \cup {c} \/ dev' = d
    BY <1>2 DEF ClearHalt
  <2> HIDE DEF d
  <2>3. \A k \in d.busy \ {RxEp} : CanRun(d, k)
    BY <1>0, <2>1 DEF Sound, CanRun
  <2>4. Sound(d)
    BY <1>0, <2>1, <2>3 DEF Sound
  <2>5. /\ c \in Device
        /\ c.on = d.on /\ c.halt = d.halt /\ c.busy = d.busy \ {e} /\ c.nb = d.nb
        /\ c.running = d.running /\ c.cfg = d.cfg
    BY <2>1 DEF Device
  <2> HIDE DEF c
  <2>6. Sound(c)
    BY <2>4, <2>5, BusySound
  <2>7. Sound(dev') /\ dev'.on = dev.on /\ dev'.cfg = dev.cfg
    BY <2>1, <2>2, <2>4, <2>5, <2>6, EndedSound
  <2>8. QED
    BY <1>2, <2>7 DEF ClearHalt, IInv, Settled
<1>3. QED
  BY <1>1, <1>2

\* Steps that change only transfers and what the interfaces remember of them.
LEMMA TransferSteps ==
  ASSUME IInv,
         \/ \E e \in Eps : TransferDone(e) \/ SendReport(e)
         \/ \E b \in BOOLEAN : SetAddress(b)
         \/ StartOfFrame \/ MainStart \/ MainClaim
  PROVE  Settled(dev')
<1>0. Sound(dev) /\ dev \in Device /\ (dev.cfg = 0 => dev.on = {})
  BY DEF IInv, Sound
<1>1. ASSUME NEW e \in Eps, TransferDone(e)
      PROVE  Settled(dev')
  BY <1>0, <1>1, EndedSound DEF TransferDone, Settled
<1>2. ASSUME NEW e \in Eps, SendReport(e)
      PROVE  Settled(dev')
  <2>1. dev' = Run(dev, e)
    BY <1>2 DEF SendReport
  <2>2. /\ dev' \in Device
        /\ dev'.on = dev.on /\ dev'.halt = dev.halt /\ dev'.nb = dev.nb
        /\ dev'.running = dev.running /\ dev'.cfg = dev.cfg
        /\ dev'.busy \subseteq dev.busy \cup {e}
        /\ (e \in dev'.busy \ dev.busy => CanRun(dev, e))
    BY <1>0, <2>1, RunIs
  <2>3. QED
    BY <1>0, <2>2, BusySound DEF Settled
<1>3. ASSUME NEW b \in BOOLEAN, SetAddress(b)
      PROVE  Settled(dev')
  <2>1. /\ dev' \in Device
        /\ dev'.on = dev.on /\ dev'.halt = dev.halt /\ dev'.nb = dev.nb
        /\ dev'.running = dev.running /\ dev'.cfg = dev.cfg /\ dev'.busy = dev.busy
    BY <1>0, <1>3 DEF SetAddress, Answer, Device
  <2>2. QED
    BY <1>0, <2>1, BusySound DEF Settled
<1>4. ASSUME StartOfFrame
      PROVE  Settled(dev')
  <2> DEFINE t == [dev EXCEPT !.tx = TRUE]
  <2>1. /\ t \in Device
        /\ t.on = dev.on /\ t.halt = dev.halt /\ t.nb = dev.nb
        /\ t.running = dev.running /\ t.cfg = dev.cfg /\ t.busy = dev.busy
    BY <1>0 DEF Device
  <2>2. dev' = Run(t, TxEp) /\ TxEp \in Eps
    BY <1>4, Constants DEF StartOfFrame
  <2> HIDE DEF t
  <2>3. /\ dev' \in Device
        /\ dev'.on = t.on /\ dev'.halt = t.halt /\ dev'.nb = t.nb
        /\ dev'.running = t.running /\ dev'.cfg = t.cfg
        /\ dev'.busy \subseteq t.busy \cup {TxEp}
        /\ (TxEp \in dev'.busy \ t.busy => CanRun(t, TxEp))
    BY <2>1, <2>2, RunIs
  <2>4. Sound(t)
    BY <1>0, <2>1, BusySound
  <2>5. Sound(dev')
    BY <2>3, <2>4, BusySound
  <2>6. QED
    BY <1>0, <2>1, <2>3, <2>5 DEF Settled
<1>5. ASSUME MainStart \/ MainClaim
      PROVE  Settled(dev')
  <2>1. /\ dev' \in Device
        /\ dev'.on = dev.on /\ dev'.halt = dev.halt /\ dev'.nb = dev.nb
        /\ dev'.running = dev.running /\ dev'.cfg = dev.cfg
        /\ dev'.busy \subseteq dev.busy \cup {RxEp}
    BY <1>0, <1>5, Constants DEF MainStart, MainClaim, Device
  <2>2. QED
    BY <1>0, <2>1, BusySound DEF Settled
<1>6. QED
  BY <1>1, <1>2, <1>3, <1>4, <1>5

LEMMA InvStep == IInv /\ [Next]_vars => IInv'
<1>1. SUFFICES ASSUME IInv, [Next]_vars
               PROVE  Settled(dev') /\ main' \in {"idle", "run", "claim"} /\ ok' \in BOOLEAN
  BY DEF IInv, Settled, Sound, CanRun
<1>2. Settled(dev) /\ main \in {"idle", "run", "claim"} /\ ok \in BOOLEAN
  BY <1>1 DEF IInv, Settled
<1>3. CASE Refuse
  BY <1>2, <1>3 DEF Refuse, Answer
<1>4. CASE Unconfigure \/ BadTestMode
  BY <1>1, <1>2, <1>4, ResetRequests DEF Unconfigure, BadTestMode, Answer
<1>5. CASE BusReset
  BY <1>1, <1>2, <1>5, BusResetIs DEF BusReset
<1>6. ASSUME NEW b \in BOOLEAN, SetAddress(b)
      PROVE  Settled(dev') /\ main' \in {"idle", "run", "claim"} /\ ok' \in BOOLEAN
  BY <1>1, <1>2, <1>6, TransferSteps DEF SetAddress, Answer
<1>7. ASSUME NEW b \in BOOLEAN, SetConfiguration(b)
      PROVE  Settled(dev') /\ main' \in {"idle", "run", "claim"} /\ ok' \in BOOLEAN
  <2>1. main' = main
    BY <1>7 DEF SetConfiguration, Answer
  <2>2. QED
    BY <1>1, <1>2, <1>7, <2>1, SetConfigurationIs
<1>8. ASSUME NEW i \in Ifaces, SetBadSetting(i)
      PROVE  Settled(dev') /\ main' \in {"idle", "run", "claim"} /\ ok' \in BOOLEAN
  BY <1>1, <1>2, <1>8, SetBadSettingIs DEF SetBadSetting, Answer
<1>9. ASSUME NEW i \in Ifaces, NEW b \in BOOLEAN, SetInterface(i, b)
      PROVE  Settled(dev') /\ main' \in {"idle", "run", "claim"} /\ ok' \in BOOLEAN
  <2>1. main' = main
    BY <1>9 DEF SetInterface, Answer
  <2>2. QED
    BY <1>1, <1>2, <1>9, <2>1, SetInterfaceIs
<1>10. ASSUME NEW e \in Eps, SetHalt(e) \/ ClearHalt(e)
       PROVE  Settled(dev') /\ main' \in {"idle", "run", "claim"} /\ ok' \in BOOLEAN
  BY <1>1, <1>2, <1>10, HaltRequests
<1>11. ASSUME NEW e \in Eps, TransferDone(e) \/ SendReport(e)
       PROVE  Settled(dev') /\ main' \in {"idle", "run", "claim"} /\ ok' \in BOOLEAN
  BY <1>1, <1>2, <1>11, TransferSteps DEF TransferDone, SendReport
<1>12. CASE StartOfFrame \/ MainStart \/ MainClaim
  BY <1>1, <1>2, <1>12, TransferSteps DEF StartOfFrame, MainStart, MainClaim
<1>13. CASE MainCheck
  BY <1>2, <1>13 DEF MainCheck
<1>14. CASE UNCHANGED vars
  BY <1>2, <1>14 DEF vars
<1>15. QED
  BY <1>1, <1>3, <1>4, <1>5, <1>6, <1>7, <1>8, <1>9, <1>10, <1>11, <1>12, <1>13, <1>14
     DEF Next

THEOREM Invariance == Spec => []IInv
BY InvInit, InvStep, PTL DEF Spec

-----------------------------------------------------------------------------
(* Theorems                                                                *)

\* The device, the main loop's place and the answer have their types: the count
\* of data interfaces is a byte, however often interfaces are switched off.
THEOREM TypeCorrect == Spec => []TypeOK
<1>1. IInv => TypeOK
  BY DEF IInv, Sound, TypeOK
<1>2. QED
  BY <1>1, Invariance, PTL

\* Without a configuration every endpoint is off, and nothing runs but a reception
\* the main loop claimed too late.
THEOREM OffWithoutConfiguration == Spec => []UnconfiguredMeansOff
<1>1. IInv => UnconfiguredMeansOff
  BY Constants DEF IInv, Sound, CanRun, UnconfiguredMeansOff
<1>2. QED
  BY <1>1, Invariance, PTL

\* After any sequence of requests an interface has all its endpoints or none.
THEOREM AlwaysTogether == Spec => []EndpointsTogether
<1>1. IInv => EndpointsTogether
  BY DEF IInv, Sound, EndpointsTogether
<1>2. QED
  BY <1>1, Invariance, PTL

\* udi_cdc_data_running is only true while the port's endpoints are on, so that
\* udi_cdc_getc() does not spin on a port that is off.
THEOREM RunningAlwaysTrue == Spec => []RunningIsTrue
<1>1. IInv => RunningIsTrue
  BY DEF IInv, Sound, RunningIsTrue
<1>2. QED
  BY <1>1, Invariance, PTL

\* Apart from the serial port's reception, no job is left on an endpoint that is
\* off or halted, where nothing would end it.
THEOREM JobsAlwaysUsable == Spec => []JobsUsable
<1>1. IInv => JobsUsable
  BY DEF IInv, Sound, JobsUsable
<1>2. QED
  BY <1>1, Invariance, PTL

\* The four together.
THEOREM NeverStranded == Spec => []NothingStranded
<1>1. IInv => NothingStranded
  BY Constants
     DEF IInv, Sound, CanRun, NothingStranded, UnconfiguredMeansOff, EndpointsTogether,
         RunningIsTrue, JobsUsable
<1>2. QED
  BY <1>1, Invariance, PTL

\* SET_INTERFACE moves the endpoints of the interfaces above, and leaves them and
\* their jobs as they were.
THEOREM OthersAlwaysKeepRunning == Spec => OthersKeepRunning
<1> DEFINE Kept(i) == /\ dev'.on \ EpsOf[i] = dev.on \ EpsOf[i]
                      /\ dev'.busy \ EpsOf[i] = dev.busy \ EpsOf[i]
           A == \A i \in Ifaces :
                  (SetBadSetting(i) \/ \E b \in BOOLEAN : SetInterface(i, b)) => Kept(i)
<1>1. IInv /\ [Next]_vars => [A]_vars
  BY SetInterfaceIs, SetBadSettingIs
<1>2. QED
  BY <1>1, Invariance, PTL DEF Spec, OthersKeepRunning

\* A SET_CONFIGURATION that is accepted leaves every endpoint on and none halted,
\* the port running and every reception under way.
THEOREM AlwaysAcceptedWhole == Spec => AcceptedIsWhole
<1> DEFINE A == (\E b \in BOOLEAN : SetConfiguration(b)) /\ ok' =>
                  /\ EpsIn(Ifaces) \subseteq dev'.on /\ dev'.halt = {}
                  /\ dev'.running
                  /\ Listens \subseteq dev'.busy
<1>1. IInv /\ [Next]_vars => [A]_vars
  BY SetConfigurationIs
<1>2. QED
  BY <1>1, Invariance, PTL DEF Spec, AcceptedIsWhole

\* What earlier configurations, settings, halts and resets left behind never makes
\* the device refuse SET_CONFIGURATION or SET_INTERFACE, but for the reception the
\* main loop claimed while no configuration was set.
THEOREM AlwaysTakesRequests == Spec => NeverRefused
<1> DEFINE A == /\ (\E b \in BOOLEAN : SetConfiguration(b))
                     => ok' \/ (dev.cfg = 0 /\ RxEp \in dev.busy)
                /\ \A i \in Ifaces, b \in BOOLEAN : SetInterface(i, b) => ok'
<1>1. IInv /\ [Next]_vars => [A]_vars
  BY SetConfigurationIs, SetInterfaceIs
<1>2. QED
  BY <1>1, Invariance, PTL DEF Spec, NeverRefused
=============================================================================
