--------------------------- MODULE BiosDiskProofs ---------------------------
(***************************************************************************)
(* Theorems about BiosDisk, for any set of drives, formats, records and    *)
(* data, and for a diskette driver that may fail at any transfer:          *)
(* type correctness, the format of a dirty buffer, the warm-boot image,    *)
(* and the refinement of CpmDisk.                                          *)
(***************************************************************************)
EXTENDS BiosDisk, TLAPS

(***************************************************************************)
(* Lemmas on the operators of Deblock: what each C function does to the    *)
(* state of a call, for every geometry in the format tables.               *)
(***************************************************************************)
\* The state of a call.
CallType == [db : DeblockType, media : [Rec -> Data], rc : {0, 1}]

\* A host sector is a triple like a record, and a record's offset fits its
\* sector: the shift and mask of deblock.c stay inside the buffer.
LEMMA Geometry ==
    ASSUME NEW r \in Addr, NEW m \in Masks
    PROVE  /\ HostSector(r, m) \in Addr
           /\ HostSector(r, m)[1] = r[1]
           /\ RecOffset(r, m) \in 0 .. m
PROOF
<1>1. r[3] \in Nat
  BY DEF Addr
<1>2. CASE m = 0
  BY <1>1, <1>2 DEF Addr, HostSector, RecOffset
<1>3. CASE m = 1
  BY <1>1, <1>3 DEF Addr, HostSector, RecOffset
<1>4. CASE m = 3
  BY <1>1, <1>4 DEF Addr, HostSector, RecOffset
<1>5. QED
  BY <1>2, <1>3, <1>4 DEF Masks

\* The host sector and the offset identify the record.
LEMMA SlotIdentifies ==
    ASSUME NEW r \in Addr, NEW h \in Addr, NEW m \in Masks, NEW k \in 0 .. m
    PROVE  (HostSector(r, m) = h /\ RecOffset(r, m) = k)
             <=> r = <<h[1], h[2], h[3] * (m + 1) + k>>
PROOF
<1>1. r[3] \in Nat /\ h[3] \in Nat /\ k \in Nat /\ k <= m
  BY DEF Addr, Masks
<1>2. (r[3] \div (m + 1) = h[3] /\ r[3] % (m + 1) = k)
        <=> r[3] = h[3] * (m + 1) + k
  <2>1. CASE m = 0
    BY <1>1, <2>1
  <2>2. CASE m = 1
    BY <1>1, <2>2
  <2>3. CASE m = 3
    BY <1>1, <2>3
  <2>4. QED
    BY <2>1, <2>2, <2>3 DEF Masks
<1>3. QED
  BY <1>2 DEF Addr, HostSector, RecOffset

LEMMA MovedType ==
    ASSUME NEW io \in Outcome, NEW step
    PROVE  Moved(io, step) \subseteq Slots
PROOF
  BY DeblockAssumption DEF Outcome, AllWell, Moved

-----------------------------------------------------------------------------
(***************************************************************************)
(* Type correctness of the C functions.                                    *)
(***************************************************************************)
LEMMA InitType == deblock_init \in DeblockType
PROOF
  BY DeblockAssumption DEF deblock_init, DeblockType, Addr, Masks, Slots

LEMMA FlushType ==
    ASSUME NEW c \in CallType, NEW io \in Outcome, NEW step
    PROVE  deblock_flush(c, io, step) \in CallType
PROOF
<1>1. Transferred(c, Moved(io, step)) \in [Rec -> Data]
  BY MovedType DEF Transferred, CallType, DeblockType
<1>2. QED
  BY <1>1 DEF deblock_flush, CallType, DeblockType

LEMMA RetagType ==
    ASSUME NEW c \in CallType, NEW r \in Rec
    PROVE  Retag(c, r) \in CallType
PROOF
<1>1. HostSector(r, c.db.secmsk) \in Addr
  BY Geometry, DeblockAssumption DEF CallType, DeblockType
<1>2. QED
  BY <1>1 DEF Retag, CallType, DeblockType

LEMMA PrereadType ==
    ASSUME NEW c \in CallType, NEW io \in Outcome
    PROVE  Preread(c, io) \in CallType
PROOF
<1>1. Fetched(c, Moved(io, "preread")) \in [Slots -> Data]
  BY DEF Fetched, CallType, DeblockType
<1>2. QED
  BY <1>1 DEF Preread, CallType, DeblockType

LEMMA EnsureType ==
    ASSUME NEW c \in CallType, NEW r \in Rec, NEW pre,
           NEW io \in Outcome
    PROVE  ensure_host_sector(c, r, pre, io) \in CallType
PROOF
<1>1. [c EXCEPT !.rc = 0] \in CallType
  BY DEF CallType
<1>2. QED
  BY <1>1, FlushType, RetagType, PrereadType DEF ensure_host_sector

LEMMA ReadType ==
    ASSUME NEW c \in CallType, NEW r \in Rec, NEW io \in Outcome
    PROVE  deblock_read(c, r, io) \in CallType
PROOF
<1>1. [c EXCEPT !.db.erflag = FALSE] \in CallType
  BY DEF CallType, DeblockType
<1>2. QED
  BY <1>1, EnsureType DEF deblock_read

LEMMA StartRunType ==
    ASSUME NEW d \in DeblockType, NEW r \in Rec, NEW wrtyp \in WrTypes
    PROVE  StartRun(d, r, wrtyp) \in DeblockType
PROOF
<1>1. r \in Addr
  BY DeblockAssumption
<1>2. d.secmsk + 1 \in 0 .. HSTRECS
  BY DeblockAssumption DEF DeblockType, Slots, Masks
<1>3. QED
  BY <1>1, <1>2 DEF StartRun, DeblockType

LEMMA AdvanceRunType ==
    ASSUME NEW d \in DeblockType, NEW r \in Rec
    PROVE  AdvanceRun(d, r) \in DeblockType
PROOF
<1>1. r \in Addr
  BY DeblockAssumption
<1>2. CASE InRun(d, r)
  <2>1. d.unacnt \in 0 .. HSTRECS /\ d.unacnt > 0
    BY <1>2 DEF InRun, DeblockType
  <2>2. d.unacnt - 1 \in 0 .. HSTRECS
    BY <2>1, DeblockAssumption
  <2>3. <<r[1], r[2], r[3] + 1>> \in Addr
    BY <1>1 DEF Addr
  <2>4. QED
    BY <1>2, <2>2, <2>3 DEF AdvanceRun, DeblockType
<1>3. CASE ~InRun(d, r)
  <2>1. 0 \in 0 .. HSTRECS
    BY DeblockAssumption
  <2>2. QED
    BY <1>3, <2>1 DEF AdvanceRun, DeblockType
<1>4. QED
  BY <1>2, <1>3

LEMMA PutType ==
    ASSUME NEW c \in CallType, NEW r \in Rec, NEW v \in Data
    PROVE  PutRecord(c, r, v) \in CallType
PROOF
  BY DEF PutRecord, CallType, DeblockType

LEMMA WriteType ==
    ASSUME NEW c \in CallType, NEW r \in Rec, NEW v \in Data,
           NEW wrtyp \in WrTypes, NEW io \in Outcome
    PROVE  deblock_write(c, r, v, wrtyp, io) \in CallType
PROOF
<1> DEFINE begun == StartRun([c.db EXCEPT !.erflag = FALSE], r, wrtyp)
           ready == ensure_host_sector([c EXCEPT !.db = AdvanceRun(begun, r)],
                                       r, ~InRun(begun, r), io)
           put   == PutRecord(ready, r, v)
<1>1. begun \in DeblockType
  <2>1. [c.db EXCEPT !.erflag = FALSE] \in DeblockType
    BY DEF CallType, DeblockType
  <2>2. QED
    BY <2>1, StartRunType
<1>2. ready \in CallType
  <2>1. AdvanceRun(begun, r) \in DeblockType
    BY <1>1, AdvanceRunType
  <2>2. [c EXCEPT !.db = AdvanceRun(begun, r)] \in CallType
    BY <2>1 DEF CallType
  <2>3. QED
    BY <2>2, EnsureType
<1> HIDE DEF begun, ready
<1>3. FlushIfDirectory(put, wrtyp, io) \in CallType
  <2>1. put \in CallType
    BY <1>2, PutType
  <2>2. QED
    BY <2>1, FlushType DEF FlushIfDirectory
<1>4. QED
  BY <1>2, <1>3 DEF deblock_write, begun, ready

-----------------------------------------------------------------------------
(***************************************************************************)
(* The state of a call as CpmDisk sees it.                                 *)
(***************************************************************************)
V(c) == ViewOf(c.db, c.media)
P(c) == PendingOf(c.db)
D(c) == DoubtOf(c.db, c.media)

\* A dirty buffer was filled under the format and geometry in force.
CallInv(c) ==
    /\ c \in CallType
    /\ c.db.hstwrt => /\ c.db.hstact
                      /\ c.db.hst[1] \in Drive
                      /\ c.db.secmsk = MaskOf(c.db.hst[1])
                      /\ last_format = fd0[c.db.hst[1]]

\* The three things a call can do to the value last buffered.
Keeps(c, e) == V(e) = V(c) /\ P(e) = P(c) /\ D(e) = D(c)
Settles(c, e) ==
    /\ \A q \in Rec \ D(c) : V(e)[q] = V(c)[q]
    /\ P(e) = {} /\ D(e) = {}
Drops(c, e) == V(e) = V(c) /\ P(e) = {} /\ D(e) \subseteq P(c)

-----------------------------------------------------------------------------
(***************************************************************************)
(* Geometry of the mounted diskettes.                                      *)
(***************************************************************************)
LEMMA MaskRange ==
    ASSUME NEW fmt \in Nat
    PROVE  sector_mask(fmt) \in Masks
PROOF
<1> DEFINE idx == (fmt \div 8) % 4
<1>1. CASE idx = 0
  BY <1>1 DEF sector_mask, Masks
<1>2. CASE idx = 1
  BY <1>2 DEF sector_mask, Masks
<1>3. CASE idx = 2
  BY <1>3 DEF sector_mask, Masks
<1>4. CASE idx # 0 /\ idx # 1 /\ idx # 2
  BY <1>4 DEF sector_mask, Masks
<1>5. QED
  BY <1>1, <1>2, <1>3, <1>4

LEMMA RecGeometry ==
    ASSUME NEW q \in Rec
    PROVE  /\ q \in Addr
           /\ q[1] \in Drive
           /\ MaskOf(q[1]) \in Masks \cap Slots
           /\ SectorOf(q) \in Addr
           /\ SectorOf(q)[1] = q[1]
           /\ RecOffset(q, MaskOf(q[1])) \in Slots
PROOF
<1>1. q \in Addr /\ q[1] \in Drive /\ Selectable(q[1])
  BY DeblockAssumption, BiosAssumption
<1>2. MaskOf(q[1]) \in Masks
  <2>1. fd0[q[1]] \in 0 .. 255
    BY <1>1, BiosAssumption
  <2>2. QED
    BY <2>1, MaskRange DEF MaskOf
<1>3. MaskOf(q[1]) \in Slots
  <2>1. MaskOf(q[1]) < HSTRECS
    BY <1>1, BiosAssumption DEF MaskOf
  <2>2. QED
    BY <1>2, <2>1, DeblockAssumption DEF Slots, Masks
<1>4. RecOffset(q, MaskOf(q[1])) \in Slots
  BY <1>1, <1>2, <1>3, Geometry, DeblockAssumption DEF Slots, Masks
<1>5. QED
  BY <1>1, <1>2, <1>3, <1>4, Geometry DEF SectorOf

\* Two records of one host sector have different offsets.
LEMMA SameSlot ==
    ASSUME NEW q \in Rec, NEW r \in Rec,
           SectorOf(q) = SectorOf(r),
           RecOffset(q, MaskOf(q[1])) = RecOffset(r, MaskOf(r[1]))
    PROVE  q = r
PROOF
<1>1. q[1] = r[1]
  BY RecGeometry
<1> DEFINE m == MaskOf(q[1])
           k == RecOffset(q, m)
<1>2. m \in Masks /\ q \in Addr /\ r \in Addr /\ SectorOf(q) \in Addr
  BY RecGeometry
<1>3. k \in 0 .. m
  BY <1>2, Geometry
<1>4. /\ HostSector(q, m) = SectorOf(q) /\ HostSector(r, m) = SectorOf(q)
      /\ RecOffset(q, m) = k /\ RecOffset(r, m) = k
  BY <1>1 DEF SectorOf
<1>5. QED
  BY <1>2, <1>3, <1>4, SlotIdentifies

\* Under the geometry of its own diskette, a record is in the buffered
\* sector for deblock.c exactly when it is for the refinement mapping.
LEMMA SameGeometry ==
    ASSUME NEW c \in CallType, NEW q \in Rec, c.db.hst[1] \in Drive,
           c.db.secmsk = MaskOf(c.db.hst[1])
    PROVE  /\ HostSector(q, c.db.secmsk) = c.db.hst <=> SectorOf(q) = c.db.hst
           /\ SectorOf(q) = c.db.hst => MaskOf(q[1]) = c.db.secmsk
PROOF
<1>1. HostSector(q, c.db.secmsk)[1] = q[1] /\ SectorOf(q)[1] = q[1]
  BY DeblockAssumption, RecGeometry, Geometry DEF CallType, DeblockType
<1>2. QED
  BY <1>1 DEF SectorOf

-----------------------------------------------------------------------------
(***************************************************************************)
(* Contracts of the C functions.                                           *)
(***************************************************************************)
LEMMA ViewType ==
    ASSUME NEW c \in CallType
    PROVE  V(c) \in [Rec -> Data]
PROOF
  BY RecGeometry DEF V, ViewOf, InBufferAt, CallType, DeblockType

\* deblock_flush leaves every value as it was and nothing pending; it fails
\* only on a dirty buffer, whose value is then in doubt.
FlushSpec(c, f) ==
    /\ CallInv(f)
    /\ ~f.db.hstwrt
    /\ V(f) = V(c)
    /\ P(f) = {}
    /\ f.rc = 0 /\ ~c.db.hstwrt => D(f) = D(c)
    /\ f.rc = 0 /\ c.db.hstwrt => D(f) = {}
    /\ f.rc = 1 => c.db.hstwrt
    /\ c.db.hstwrt => D(c) = {} /\ D(f) \subseteq P(c)
    /\ ~c.db.hstwrt => f.db = c.db /\ f.media = c.media /\ f.rc = 0
    /\ f.db.secmsk = c.db.secmsk /\ f.db.hst = c.db.hst
    /\ f.db.hstact = c.db.hstact /\ f.db.hstbuf = c.db.hstbuf
    /\ f.db.una = c.db.una /\ f.db.unacnt = c.db.unacnt

LEMMA FlushContract ==
    ASSUME NEW c, CallInv(c), NEW io \in Outcome, NEW step \in Steps,
           NEW f, f = deblock_flush(c, io, step)
    PROVE  FlushSpec(c, f)
PROOF
<1>0. c \in CallType
  BY DEF CallInv
<1>1. f \in CallType
  BY <1>0, FlushType
<1>2. CASE ~c.db.hstwrt
  <2>1. f = [c EXCEPT !.rc = 0]
    BY <1>2 DEF deblock_flush
  <2>2. f.db = c.db /\ f.media = c.media /\ f.rc = 0
    BY <1>0, <2>1 DEF CallType
  <2>3. V(f) = V(c) /\ P(f) = {} /\ D(f) = D(c)
    BY <1>2, <2>2 DEF V, P, D, PendingOf
  <2>4. CallInv(f)
    BY <1>1, <1>2, <2>2 DEF CallInv
  <2>5. QED
    BY <1>2, <2>2, <2>3, <2>4 DEF FlushSpec
<1>3. CASE c.db.hstwrt
  <2> DEFINE done == Moved(io, step)
  <2>1. /\ f.db = [c.db EXCEPT !.hstwrt = FALSE, !.erflag = @ \/ io.fails = step]
        /\ f.media = Transferred(c, done)
        /\ f.rc = IF io.fails = step THEN 1 ELSE 0
    BY <1>3 DEF deblock_flush
  <2>2. /\ f.db.hstwrt = FALSE /\ f.db.hst = c.db.hst
        /\ f.db.hstact = c.db.hstact /\ f.db.hstbuf = c.db.hstbuf
        /\ f.db.secmsk = c.db.secmsk
        /\ f.db.una = c.db.una /\ f.db.unacnt = c.db.unacnt
    BY <1>0, <2>1 DEF CallType, DeblockType
  <2>3. ASSUME NEW q \in Rec
        PROVE  /\ ~InBuffer(c.db, q) => f.media[q] = c.media[q]
               /\ InBuffer(c.db, q) =>
                     f.media[q] = IF RecOffset(q, MaskOf(q[1])) \in done
                                  THEN InBufferAt(c.db, q) ELSE c.media[q]
    <3>1. c.db.hstact /\ c.db.hst[1] \in Drive
            /\ c.db.secmsk = MaskOf(c.db.hst[1])
      BY <1>3 DEF CallInv
    <3>2. QED
      BY <1>0, <2>1, <3>1, SameGeometry DEF Transferred, InBuffer, InBufferAt
  <2>4. \A q \in Rec : InBuffer(f.db, q) <=> InBuffer(c.db, q)
    BY <2>2 DEF InBuffer
  <2>5. \A q \in Rec : InBufferAt(f.db, q) = InBufferAt(c.db, q)
    BY <2>2 DEF InBufferAt
  <2>6. V(f) = V(c)
    BY <2>3, <2>4, <2>5 DEF V, ViewOf
  <2>7. P(f) = {} /\ D(c) = {}
    BY <1>3, <2>2 DEF P, D, PendingOf, DoubtOf
  <2>8. D(f) \subseteq P(c)
    BY <1>3, <2>3, <2>4, <2>6 DEF D, P, V, DoubtOf, PendingOf, ViewOf
  <2>9. ASSUME f.rc = 0 PROVE D(f) = {}
    <3>1. done = Slots
      BY <2>1, <2>9 DEF Moved
    <3>2. QED
      BY <2>3, <2>4, <2>5, <3>1, RecGeometry DEF D, DoubtOf, ViewOf
  <2>10. CallInv(f)
    BY <1>1, <2>2 DEF CallInv
  <2>11. QED
    BY <1>3, <2>1, <2>2, <2>6, <2>7, <2>8, <2>9, <2>10 DEF FlushSpec
<1>4. QED
  BY <1>2, <1>3

\* Retagging a clean buffer for the sector of r changes no other sector.
LEMMA RetagContract ==
    ASSUME NEW c, CallInv(c), ~c.db.hstwrt, NEW r \in Rec,
           c.db.secmsk = MaskOf(r[1])
    PROVE  LET n == Retag(c, r)
           IN  /\ CallInv(n)
               /\ ~n.db.hstwrt /\ n.db.hstact /\ n.db.hst = SectorOf(r)
               /\ \A q \in Rec : InBuffer(n.db, q) <=> SectorOf(q) = SectorOf(r)
               /\ \A q \in Rec : SectorOf(q) # SectorOf(r) => V(n)[q] = c.media[q]
               /\ n.db.secmsk = c.db.secmsk
               /\ n.db.una = c.db.una /\ n.db.unacnt = c.db.unacnt
               /\ n.media = c.media /\ n.rc = c.rc
PROOF
<1> DEFINE n == Retag(c, r)
<1>0. c \in CallType
  BY DEF CallInv
<1>1. n \in CallType
  BY <1>0, RetagType
<1>2. /\ n.db.hst = SectorOf(r) /\ n.db.hstact = TRUE /\ n.db.hstwrt = FALSE
      /\ n.db.secmsk = c.db.secmsk
      /\ n.db.una = c.db.una /\ n.db.unacnt = c.db.unacnt
      /\ n.media = c.media /\ n.rc = c.rc
  BY <1>0 DEF Retag, SectorOf, CallType, DeblockType
<1>3. \A q \in Rec : InBuffer(n.db, q) <=> SectorOf(q) = SectorOf(r)
  BY <1>2 DEF InBuffer
<1>4. \A q \in Rec : SectorOf(q) # SectorOf(r) => V(n)[q] = c.media[q]
  BY <1>2, <1>3 DEF V, ViewOf
<1>5. QED
  BY <1>1, <1>2, <1>3, <1>4 DEF CallInv

\* A pre-read that succeeds makes the retagged buffer show the diskette; one
\* that fails forgets the buffer, which shows the diskette as well.
LEMMA PrereadContract ==
    ASSUME NEW c, CallInv(c), ~c.db.hstwrt, c.db.hstact, NEW r \in Rec,
           c.db.hst = SectorOf(r), c.db.secmsk = MaskOf(r[1]),
           NEW io \in Outcome
    PROVE  LET e == Preread(c, io)
           IN  /\ CallInv(e)
               /\ P(e) = {} /\ D(e) = {}
               /\ \A q \in Rec : V(e)[q] = c.media[q]
               /\ e.rc = 0 => e.db.hstact
               /\ e.db.hst = c.db.hst /\ e.db.secmsk = c.db.secmsk
               /\ e.db.una = c.db.una /\ e.db.unacnt = c.db.unacnt
               /\ e.media = c.media
PROOF
<1> DEFINE e == Preread(c, io)
           done == Moved(io, "preread")
<1>0. c \in CallType
  BY DEF CallInv
<1>1. e \in CallType
  BY <1>0, PrereadType
<1>2. /\ e.db.hst = c.db.hst /\ e.db.hstwrt = FALSE
      /\ e.db.hstact <=> io.fails # "preread"
      /\ e.db.hstbuf = Fetched(c, done)
      /\ e.db.secmsk = c.db.secmsk
      /\ e.db.una = c.db.una /\ e.db.unacnt = c.db.unacnt
      /\ e.media = c.media
      /\ e.rc = IF io.fails = "preread" THEN 1 ELSE 0
  BY <1>0 DEF Preread, CallType, DeblockType
<1>3. ASSUME NEW q \in Rec, InBuffer(e.db, q)
      PROVE  InBufferAt(e.db, q) = c.media[q]
  <2> DEFINE k == RecOffset(q, MaskOf(q[1]))
  <2>1. done = Slots
    BY <1>2, <1>3 DEF InBuffer, Moved
  <2>2. SectorOf(q) = c.db.hst
    BY <1>2, <1>3 DEF InBuffer
  <2>3. MaskOf(q[1]) = c.db.secmsk
    BY <2>2, RecGeometry
  <2>4. k \in Slots /\ k \in 0 .. c.db.secmsk
    BY <2>3, RecGeometry, Geometry
  <2>5. q = InSlot(c, k)
    <3>1. q \in Addr /\ c.db.hst \in Addr /\ c.db.secmsk \in Masks
      BY <1>0, RecGeometry DEF CallType, DeblockType
    <3>2. HostSector(q, c.db.secmsk) = c.db.hst /\ RecOffset(q, c.db.secmsk) = k
      BY <2>2, <2>3 DEF SectorOf
    <3>3. QED
      BY <2>4, <3>1, <3>2, SlotIdentifies DEF InSlot
  <2>6. Fetched(c, done)[k] = c.media[q]
    <3>1. k <= c.db.secmsk
      BY <2>4
    <3>2. QED
      BY <2>1, <2>4, <2>5, <3>1 DEF Fetched
  <2>7. QED
    BY <1>2, <2>6 DEF InBufferAt
<1>4. \A q \in Rec : V(e)[q] = c.media[q]
  BY <1>2, <1>3 DEF V, ViewOf
<1>5. P(e) = {} /\ D(e) = {}
  BY <1>2, <1>4 DEF P, D, V, PendingOf, DoubtOf
<1>6. CallInv(e)
  BY <1>1, <1>2 DEF CallInv
<1>7. QED
  BY <1>2, <1>4, <1>5, <1>6

\* ensure_host_sector: on success the sector of r is buffered.  With a
\* pre-read, or on a hit, no value changes except what was in doubt; without
\* one, the other records of the sector may.  On failure nothing changes
\* except what was in doubt, or what was pending is now in doubt.
EnsureSpec(c, r, pre, e) ==
    /\ CallInv(e)
    /\ e.rc = 0 => e.db.hstact /\ e.db.hst = SectorOf(r)
    /\ e.rc = 0 /\ pre => (Keeps(c, e) \/ Settles(c, e)) /\ V(e)[r] = V(c)[r]
    /\ e.rc = 0 => \A q \in Rec \ D(c) :
                      SectorOf(q) # SectorOf(r) => V(e)[q] = V(c)[q]
    /\ e.rc = 1 => Settles(c, e) \/ Drops(c, e)
    /\ e.db.secmsk = c.db.secmsk
    /\ e.db.una = c.db.una /\ e.db.unacnt = c.db.unacnt
    /\ ~c.db.hstwrt => e.media = c.media /\ ~e.db.hstwrt

LEMMA EnsureContract ==
    ASSUME NEW c, CallInv(c), NEW r \in Rec, c.db.secmsk = MaskOf(r[1]),
           NEW pre \in BOOLEAN, NEW io \in Outcome,
           NEW e, e = ensure_host_sector(c, r, pre, io)
    PROVE  EnsureSpec(c, r, pre, e)
PROOF
<1>9. PICK f : f = deblock_flush(c, io, "flush")
  OBVIOUS
<1> DEFINE n == Retag(f, r)
<1>0. c \in CallType /\ HostSector(r, c.db.secmsk) = SectorOf(r)
  BY DEF CallInv, SectorOf
<1>1. CASE Buffered(c.db, r)
  <2>1. e = [c EXCEPT !.rc = 0]
    BY <1>1 DEF ensure_host_sector
  <2>2. e.db = c.db /\ e.media = c.media /\ e.rc = 0 /\ e \in CallType
    BY <1>0, <2>1 DEF CallType
  <2>3. V(e) = V(c) /\ P(e) = P(c) /\ D(e) = D(c)
    BY <2>2 DEF V, P, D
  <2>4. e.db.hstact /\ e.db.hst = SectorOf(r)
    BY <1>0, <1>1, <2>2 DEF Buffered
  <2>5. CallInv(e)
    BY <2>2 DEF CallInv
  <2>6. QED
    BY <2>2, <2>3, <2>4, <2>5 DEF Keeps, EnsureSpec
<1>2. CASE ~Buffered(c.db, r)
  <2>1. FlushSpec(c, f)
    BY <1>9, FlushContract DEF Steps
  <2>2. f.rc \in {0, 1} /\ f \in CallType
    BY <2>1 DEF FlushSpec, CallInv, CallType
  <2>3. CASE f.rc = 1
    <3>1. e = f
      BY <1>9, <1>2, <2>3 DEF ensure_host_sector
    <3>2. Drops(c, e)
      BY <2>1, <2>3, <3>1 DEF FlushSpec, Drops
    <3>3. QED
      BY <2>1, <2>3, <3>1, <3>2 DEF FlushSpec, EnsureSpec
  <2>4. CASE f.rc = 0
    <3>1. D(f) \subseteq D(c)
      BY <2>1, <2>4 DEF FlushSpec
    <3>2. \A q \in Rec \ D(c) : f.media[q] = V(c)[q]
      BY <2>1, <3>1 DEF FlushSpec, D, V, DoubtOf
    <3>3. /\ CallInv(n)
          /\ ~n.db.hstwrt /\ n.db.hstact /\ n.db.hst = SectorOf(r)
          /\ \A q \in Rec : SectorOf(q) # SectorOf(r) => V(n)[q] = f.media[q]
          /\ n.db.secmsk = c.db.secmsk
          /\ n.db.una = c.db.una /\ n.db.unacnt = c.db.unacnt
          /\ n.media = f.media /\ n.rc = 0
      BY <2>1, <2>4, RetagContract DEF FlushSpec
    <3>4. CASE ~pre
      <4>1. e = n
        BY <1>9, <1>2, <2>4, <3>4 DEF ensure_host_sector
      <4>2. QED
        BY <2>1, <3>2, <3>3, <3>4, <4>1 DEF FlushSpec, EnsureSpec
    <3>5. CASE pre
      <4> DEFINE p == Preread(n, io)
      <4>1. e = p
        BY <1>9, <1>2, <2>4, <3>5 DEF ensure_host_sector
      <4>2. /\ CallInv(p) /\ P(p) = {} /\ D(p) = {}
            /\ \A q \in Rec : V(p)[q] = n.media[q]
            /\ p.rc = 0 => p.db.hstact
            /\ p.db.hst = n.db.hst /\ p.db.secmsk = n.db.secmsk
            /\ p.db.una = n.db.una /\ p.db.unacnt = n.db.unacnt
            /\ p.media = n.media
        BY <3>3, PrereadContract
      <4>3. Settles(c, p)
        BY <3>2, <3>3, <4>2 DEF Settles
      <4>4. r \notin D(c)
        BY <1>0, <1>2 DEF D, DoubtOf, ViewOf, InBuffer, Buffered
      <4>5. V(p)[r] = V(c)[r]
        BY <4>3, <4>4 DEF Settles
      <4>6. ~p.db.hstwrt
        BY <3>3, <4>2 DEF Preread, CallInv, CallType, DeblockType
      <4>7. QED
        BY <2>1, <3>2, <3>3, <4>1, <4>2, <4>3, <4>5, <4>6 DEF FlushSpec, EnsureSpec
    <3>6. QED
      BY <3>4, <3>5
  <2>5. QED
    BY <2>2, <2>3, <2>4
<1>3. QED
  BY <1>1, <1>2

\* deblock_read returns the value of r.
ReadSpec(c, r, e) ==
    /\ CallInv(e)
    /\ e.rc = 0 => /\ Keeps(c, e) \/ Settles(c, e)
                   /\ V(e)[r] = V(c)[r]
                   /\ e.db.hstbuf[RecOffset(r, e.db.secmsk)] = V(c)[r]
    /\ e.rc = 1 => Settles(c, e) \/ Drops(c, e)
    /\ e.db.secmsk = c.db.secmsk
    /\ e.db.una = c.db.una /\ e.db.unacnt = c.db.unacnt
    /\ ~c.db.hstwrt => e.media = c.media /\ ~e.db.hstwrt

\* erflag and the unallocated run are no part of what a READ finds.
SameBuffer(b, c) ==
    /\ b.db.hstbuf = c.db.hstbuf /\ b.db.hstact = c.db.hstact
    /\ b.db.hstwrt = c.db.hstwrt /\ b.db.hst = c.db.hst
    /\ b.db.secmsk = c.db.secmsk /\ b.media = c.media

LEMMA SameBufferSameView ==
    ASSUME NEW c, CallInv(c), NEW b, b \in CallType, SameBuffer(b, c)
    PROVE  /\ CallInv(b)
           /\ V(b) = V(c) /\ P(b) = P(c) /\ D(b) = D(c)
PROOF
<1>1. \A q \in Rec : /\ InBuffer(b.db, q) <=> InBuffer(c.db, q)
                     /\ InBufferAt(b.db, q) = InBufferAt(c.db, q)
  BY DEF SameBuffer, InBuffer, InBufferAt
<1>2. V(b) = V(c)
  BY <1>1 DEF SameBuffer, V, ViewOf
<1>3. P(b) = P(c)
  BY <1>1 DEF SameBuffer, P, PendingOf
<1>4. D(b) = D(c)
  BY <1>2 DEF SameBuffer, D, DoubtOf, V
<1>5. CallInv(b)
  BY DEF SameBuffer, CallInv
<1>6. QED
  BY <1>2, <1>3, <1>4, <1>5

LEMMA ReadContract ==
    ASSUME NEW c, CallInv(c), NEW r \in Rec, c.db.secmsk = MaskOf(r[1]),
           NEW io \in Outcome,
           NEW e, e = deblock_read(c, r, io)
    PROVE  ReadSpec(c, r, e)
PROOF
<1>1. PICK b : b = [c EXCEPT !.db.erflag = FALSE]
  OBVIOUS
<1>0. /\ b \in CallType /\ SameBuffer(b, c)
      /\ b.db.una = c.db.una /\ b.db.unacnt = c.db.unacnt
  <2>1. c \in CallType
    BY DEF CallInv
  <2>2. QED
    BY <1>1, <2>1 DEF CallType, DeblockType, SameBuffer
<1>2. /\ CallInv(b) /\ V(b) = V(c) /\ P(b) = P(c) /\ D(b) = D(c)
      /\ b.db.secmsk = c.db.secmsk /\ b.db.hstwrt = c.db.hstwrt
      /\ b.media = c.media
  BY <1>0, SameBufferSameView DEF SameBuffer
<1>3. EnsureSpec(b, r, TRUE, e)
  <2>1. e = ensure_host_sector(b, r, TRUE, io)
    BY <1>1 DEF deblock_read
  <2>2. b.db.secmsk = MaskOf(r[1])
    BY <1>2
  <2>3. QED
    BY <1>2, <2>1, <2>2, EnsureContract
<1>4. /\ Keeps(b, e) => Keeps(c, e)
      /\ Settles(b, e) => Settles(c, e)
      /\ Drops(b, e) => Drops(c, e)
  BY <1>2 DEF Keeps, Settles, Drops
<1>5. ASSUME e.rc = 0
      PROVE  e.db.hstbuf[RecOffset(r, e.db.secmsk)] = V(c)[r]
  <2>1. e.db.hstact /\ e.db.hst = SectorOf(r) /\ V(e)[r] = V(b)[r]
          /\ e.db.secmsk = MaskOf(r[1])
    BY <1>2, <1>3, <1>5 DEF EnsureSpec
  <2>2. V(e)[r] = InBufferAt(e.db, r)
    BY <2>1 DEF V, ViewOf, InBuffer
  <2>3. QED
    BY <1>2, <2>1, <2>2 DEF InBufferAt
<1>6. QED
  BY <1>0, <1>2, <1>3, <1>4, <1>5 DEF EnsureSpec, ReadSpec

\* Copying a record into its buffered sector changes that record only, and
\* the whole sector is pending from then on.
PutSpec(c, r, v, p) ==
    /\ CallInv(p)
    /\ V(p)[r] = v
    /\ \A q \in Rec \ {r} : V(p)[q] = V(c)[q]
    /\ P(p) = SectorMap[r] /\ D(p) = {}
    /\ p.db.secmsk = c.db.secmsk /\ p.rc = c.rc
    /\ p.db.una = c.db.una /\ p.db.unacnt = c.db.unacnt

LEMMA PutContract ==
    ASSUME NEW c, CallInv(c), NEW r \in Rec, c.db.secmsk = MaskOf(r[1]),
           last_format = fd0[r[1]],
           c.db.hstact, c.db.hst = SectorOf(r), NEW v \in Data,
           NEW p, p = PutRecord(c, r, v)
    PROVE  PutSpec(c, r, v, p)
PROOF
<1> DEFINE k == RecOffset(r, c.db.secmsk)
<1>0. c \in CallType /\ k \in Slots /\ k = RecOffset(r, MaskOf(r[1]))
  BY RecGeometry DEF CallInv
<1>1. p \in CallType
  BY <1>0, PutType
<1>2. /\ p.db.hst = SectorOf(r) /\ p.db.hstact = TRUE /\ p.db.hstwrt = TRUE
      /\ p.db.hstbuf = [c.db.hstbuf EXCEPT ![k] = v]
      /\ p.db.secmsk = c.db.secmsk /\ p.media = c.media /\ p.rc = c.rc
      /\ p.db.una = c.db.una /\ p.db.unacnt = c.db.unacnt
  BY <1>0 DEF PutRecord, CallType, DeblockType
<1>3. c.db.hstbuf \in [Slots -> Data]
  BY <1>0 DEF CallType, DeblockType
<1>4. \A q \in Rec : /\ InBuffer(p.db, q) <=> SectorOf(q) = SectorOf(r)
                     /\ InBuffer(c.db, q) <=> SectorOf(q) = SectorOf(r)
  BY <1>2 DEF InBuffer
<1>5. InBufferAt(p.db, r) = v
  BY <1>0, <1>2, <1>3 DEF InBufferAt
<1>6. ASSUME NEW q \in Rec \ {r}, SectorOf(q) = SectorOf(r)
      PROVE  InBufferAt(p.db, q) = InBufferAt(c.db, q)
  <2>1. RecOffset(q, MaskOf(q[1])) \in Slots /\ RecOffset(q, MaskOf(q[1])) # k
    BY <1>0, <1>6, SameSlot, RecGeometry
  <2>2. QED
    BY <1>2, <1>3, <2>1 DEF InBufferAt
<1>7. V(p)[r] = v
  BY <1>4, <1>5 DEF V, ViewOf
<1>8. \A q \in Rec \ {r} : V(p)[q] = V(c)[q]
  BY <1>2, <1>4, <1>6 DEF V, ViewOf
<1>9. P(p) = SectorMap[r] /\ D(p) = {}
  BY <1>2, <1>4 DEF P, D, PendingOf, DoubtOf, SectorMap
<1>10. CallInv(p)
  BY <1>1, <1>2, RecGeometry DEF CallInv
<1>11. QED
  BY <1>2, <1>7, <1>8, <1>9, <1>10 DEF PutSpec

\* The unallocated run: a write that is not of type UNALLOC only shortens
\* it, and takes the record written out of it.
LEMMA RunContract ==
    ASSUME NEW d \in DeblockType, NEW r \in Rec, NEW wrtyp \in WrTypes,
           NEW g, g = AdvanceRun(StartRun(d, r, wrtyp), r)
    PROVE  /\ FreshOf(g) \subseteq
                 IF wrtyp = WRTYP_UNALLOC THEN Rec ELSE FreshOf(d) \ {r}
           /\ InRun(StartRun(d, r, wrtyp), r) =>
                 wrtyp = WRTYP_UNALLOC \/ r \in FreshOf(d)
PROOF
<1>1. CASE wrtyp = WRTYP_UNALLOC
  BY <1>1 DEF FreshOf
<1>2. CASE wrtyp # WRTYP_UNALLOC
  <2>1. StartRun(d, r, wrtyp) = d
    BY <1>2 DEF StartRun
  <2>2. d.una \in Addr /\ d.unacnt \in Nat /\ r \in Addr /\ Rec \subseteq Addr
    BY DeblockAssumption DEF DeblockType
  <2>3. CASE InRun(d, r)
    <3>1. d.unacnt > 0 /\ d.una = r
      BY <2>3 DEF InRun
    <3>2. g.una = <<r[1], r[2], r[3] + 1>> /\ g.unacnt = d.unacnt - 1
      BY <2>1, <2>3 DEF AdvanceRun, DeblockType
    <3>3. r \in FreshOf(d)
      BY <2>2, <3>1 DEF FreshOf, Addr
    <3>4. FreshOf(g) \subseteq FreshOf(d) \ {r}
      BY <2>2, <3>1, <3>2 DEF FreshOf, Addr
    <3>5. QED
      BY <1>2, <3>3, <3>4
  <2>4. CASE ~InRun(d, r)
    <3>1. g.una = d.una /\ g.unacnt = 0
      BY <2>1, <2>4 DEF AdvanceRun, DeblockType
    <3>2. FreshOf(g) = {}
      BY <2>2, <3>1 DEF FreshOf, Addr
    <3>3. QED
      BY <2>1, <2>4, <3>2
  <2>5. QED
    BY <2>3, <2>4
<1>3. QED
  BY <1>1, <1>2

\* deblock_write stores v in r.  Only a write to a record declared
\* unallocated may change other records, and only of the same sector.
StoresIn(c, r, v, unalloc, e) ==
    /\ V(e)[r] = v
    /\ \A q \in Rec \ ({r} \cup D(c) \cup
                      (IF unalloc \/ r \in FreshOf(c.db) THEN SectorMap[r] ELSE {})) :
          V(e)[q] = V(c)[q]

WriteSpec(c, r, v, wrtyp, e) ==
    LET unalloc   == wrtyp = WRTYP_UNALLOC
        directory == wrtyp = WRTYP_DIRECTORY
    IN  /\ CallInv(e)
        /\ e.db.secmsk = c.db.secmsk
        /\ e.rc = 0 => /\ P(e) = IF directory THEN {} ELSE SectorMap[r]
                       /\ D(e) = {}
                       /\ StoresIn(c, r, v, unalloc, e)
        /\ e.rc = 1 => \/ Settles(c, e)
                       \/ Drops(c, e)
                       \/ /\ directory
                          /\ P(e) = {} /\ D(e) \subseteq SectorMap[r]
                          /\ StoresIn(c, r, v, unalloc, e)
        /\ FreshOf(e.db) \subseteq IF unalloc THEN Rec ELSE FreshOf(c.db) \ {r}

LEMMA WriteContract ==
    ASSUME NEW c, CallInv(c), NEW r \in Rec, c.db.secmsk = MaskOf(r[1]),
           last_format = fd0[r[1]],
           NEW v \in Data, NEW wrtyp \in WrTypes, NEW io \in Outcome,
           NEW e, e = deblock_write(c, r, v, wrtyp, io)
    PROVE  WriteSpec(c, r, v, wrtyp, e)
PROOF
<1>0. c \in CallType
  BY DEF CallInv
<1>1. PICK d : d = [c.db EXCEPT !.erflag = FALSE]
  OBVIOUS
<1>2. PICK g : g = AdvanceRun(StartRun(d, r, wrtyp), r)
  OBVIOUS
<1>3. PICK pre : pre = ~InRun(StartRun(d, r, wrtyp), r)
  OBVIOUS
<1>4. PICK b : b = [c EXCEPT !.db = g]
  OBVIOUS
<1>5. PICK n : n = ensure_host_sector(b, r, pre, io)
  OBVIOUS
<1>6. PICK p : p = PutRecord(n, r, v)
  OBVIOUS
<1>7. e = IF n.rc # 0 THEN n ELSE FlushIfDirectory(p, wrtyp, io)
  BY <1>1, <1>2, <1>3, <1>4, <1>5, <1>6 DEF deblock_write
<1>8. d \in DeblockType /\ g \in DeblockType
  <2>1. d \in DeblockType
    BY <1>0, <1>1 DEF CallType, DeblockType
  <2>2. QED
    BY <1>2, <2>1, StartRunType, AdvanceRunType
<1>9. /\ b \in CallType /\ SameBuffer(b, c) /\ b.db = g
      /\ FreshOf(d) = FreshOf(c.db)
  <2>1. b \in CallType /\ b.db = g /\ b.media = c.media
    BY <1>0, <1>4, <1>8 DEF CallType
  <2>2. /\ d.hstbuf = c.db.hstbuf /\ d.hstact = c.db.hstact
        /\ d.hstwrt = c.db.hstwrt /\ d.hst = c.db.hst
        /\ d.secmsk = c.db.secmsk
        /\ d.una = c.db.una /\ d.unacnt = c.db.unacnt
    BY <1>0, <1>1 DEF CallType, DeblockType
  <2>3. /\ g.hstbuf = d.hstbuf /\ g.hstact = d.hstact
        /\ g.hstwrt = d.hstwrt /\ g.hst = d.hst /\ g.secmsk = d.secmsk
    BY <1>2, <1>8 DEF AdvanceRun, StartRun, DeblockType
  <2>4. QED
    BY <2>1, <2>2, <2>3 DEF SameBuffer, FreshOf
<1>10. /\ CallInv(b) /\ V(b) = V(c) /\ P(b) = P(c) /\ D(b) = D(c)
       /\ b.db.secmsk = MaskOf(r[1])
  BY <1>9, SameBufferSameView DEF SameBuffer
<1>11. EnsureSpec(b, r, pre, n)
  <2>1. pre \in BOOLEAN
    BY <1>3
  <2>2. QED
    BY <1>5, <1>10, <2>1, EnsureContract
<1>12. /\ FreshOf(g) \subseteq
             IF wrtyp = WRTYP_UNALLOC THEN Rec ELSE FreshOf(c.db) \ {r}
       /\ pre \/ wrtyp = WRTYP_UNALLOC \/ r \in FreshOf(c.db)
  BY <1>2, <1>3, <1>8, <1>9, RunContract
<1>13. n.rc \in {0, 1}
  BY <1>11 DEF EnsureSpec, CallInv, CallType
<1>14. CASE n.rc = 1
  <2>1. e = n /\ FreshOf(n.db) = FreshOf(g)
    BY <1>7, <1>9, <1>11, <1>14 DEF EnsureSpec, FreshOf
  <2>2. Settles(c, n) \/ Drops(c, n)
    BY <1>10, <1>11, <1>14 DEF EnsureSpec, Settles, Drops
  <2>3. CallInv(n) /\ n.db.secmsk = c.db.secmsk
    BY <1>10, <1>11 DEF EnsureSpec
  <2>4. QED
    BY <1>12, <1>14, <2>1, <2>2, <2>3 DEF WriteSpec
<1>15. CASE n.rc = 0
  <2>1. PutSpec(n, r, v, p)
    <3>1. CallInv(n) /\ n.db.secmsk = MaskOf(r[1])
            /\ n.db.hstact /\ n.db.hst = SectorOf(r)
      BY <1>10, <1>11, <1>15 DEF EnsureSpec
    <3>2. QED
      BY <1>6, <3>1, PutContract
  <2>2. StoresIn(c, r, v, wrtyp = WRTYP_UNALLOC, p)
    <3>1. CASE pre
      <4>1. \A q \in Rec \ D(c) : V(n)[q] = V(c)[q]
        BY <1>10, <1>11, <1>15, <3>1 DEF EnsureSpec, Keeps, Settles
      <4>2. QED
        BY <2>1, <4>1 DEF PutSpec, StoresIn
    <3>2. CASE ~pre
      <4>1. \A q \in Rec \ D(c) :
               SectorOf(q) # SectorOf(r) => V(n)[q] = V(c)[q]
        BY <1>10, <1>11, <1>15 DEF EnsureSpec
      <4>2. wrtyp = WRTYP_UNALLOC \/ r \in FreshOf(c.db)
        BY <1>12, <3>2
      <4>3. QED
        BY <2>1, <4>1, <4>2 DEF PutSpec, StoresIn, SectorMap
    <3>3. QED
      BY <3>1, <3>2
  <2>3. FreshOf(p.db) = FreshOf(g) /\ p.db.secmsk = c.db.secmsk /\ p.rc = 0
    BY <1>9, <1>10, <1>11, <1>15, <2>1 DEF EnsureSpec, PutSpec, FreshOf
  <2>4. CASE wrtyp # WRTYP_DIRECTORY
    <3>1. e = p
      BY <1>7, <1>15, <2>4 DEF FlushIfDirectory
    <3>2. QED
      BY <1>12, <2>1, <2>2, <2>3, <2>4, <3>1 DEF WriteSpec, PutSpec
  <2>5. CASE wrtyp = WRTYP_DIRECTORY
    <3>1. e = deblock_flush(p, io, "directory")
      BY <1>7, <1>15, <2>5 DEF FlushIfDirectory
    <3>2. CallInv(p) /\ P(p) = SectorMap[r] /\ D(p) = {}
      BY <2>1 DEF PutSpec
    <3>3. FlushSpec(p, e)
      BY <3>1, <3>2, FlushContract DEF Steps
    <3>4. FreshOf(e.db) = FreshOf(p.db)
      BY <3>3 DEF FlushSpec, FreshOf
    <3>5. StoresIn(c, r, v, wrtyp = WRTYP_UNALLOC, e)
      BY <2>2, <3>3 DEF FlushSpec, StoresIn
    <3>6. e.rc = 0 => D(e) = {}
      BY <3>2, <3>3 DEF FlushSpec
    <3>7. D(e) \subseteq SectorMap[r]
      BY <3>2, <3>3 DEF FlushSpec, CallInv, CallType
    <3>8. QED
      BY <1>12, <2>3, <2>5, <3>3, <3>4, <3>5, <3>6, <3>7 DEF FlushSpec, WriteSpec
  <2>6. QED
    BY <2>4, <2>5
<1>16. QED
  BY <1>13, <1>14, <1>15

-----------------------------------------------------------------------------
(***************************************************************************)
(* The inductive invariant.                                                *)
(***************************************************************************)
LEMMA CallOfState ==
    ASSUME IInv
    PROVE  /\ CallInv(Call)
           /\ Call.db = db /\ Call.media = media /\ Call.rc = rc
           /\ V(Call) = View /\ P(Call) = PendingOf(db)
           /\ D(Call) = DoubtOf(db, media)
PROOF
<1>1. Call.db = db /\ Call.media = media /\ Call.rc = rc
  BY DEF Call
<1>2. Call \in CallType
  BY DEF IInv, TypeOK, Call, CallType
<1>3. CallInv(Call)
  BY <1>1, <1>2 DEF IInv, DirtyHasFormat, CallInv
<1>4. QED
  BY <1>1, <1>3 DEF V, P, D, View

\* The part of SELDSK that touches the buffer, as WBOOT uses it too.
SelectSpec(c, d, s) ==
    /\ s \in CallType
    /\ s.db.secmsk = MaskOf(d)
    /\ s.db.hstwrt => /\ c.db.hstwrt
                      /\ fd0[d] = last_format
    /\ s.db.hst = c.db.hst /\ s.db.hstact = c.db.hstact
    /\ s.db.una = c.db.una /\ s.db.unacnt = c.db.unacnt
    /\ V(s) = V(c)
    /\ \/ P(s) = P(c) /\ D(s) = D(c)
       \/ P(s) = {} /\ D(s) = D(c)
       \/ P(s) = {} /\ D(s) \subseteq P(c)

LEMMA SelectContract ==
    ASSUME NEW c, CallInv(c), NEW d \in Drive, Selectable(d),
           NEW io \in Outcome, NEW s, s = Select(c, d, io)
    PROVE  SelectSpec(c, d, s)
PROOF
<1>1. PICK f : f = FlushOnSwitch(c, fd0[d], io)
  OBVIOUS
<1>2. /\ f \in CallType
      /\ f.db.hstwrt => c.db.hstwrt /\ fd0[d] = last_format
      /\ f.db.hst = c.db.hst /\ f.db.hstact = c.db.hstact
      /\ f.db.una = c.db.una /\ f.db.unacnt = c.db.unacnt
      /\ V(f) = V(c)
      /\ \/ P(f) = P(c) /\ D(f) = D(c)
         \/ P(f) = {} /\ D(f) = D(c)
         \/ P(f) = {} /\ D(f) \subseteq P(c)
  <2>1. CASE fd0[d] = last_format
    <3>1. f = c
      BY <1>1, <2>1 DEF FlushOnSwitch
    <3>2. QED
      BY <2>1, <3>1 DEF CallInv
  <2>2. CASE fd0[d] # last_format
    <3>1. FlushSpec(c, f)
      BY <1>1, <2>2, FlushContract DEF FlushOnSwitch, Steps
    <3>2. f \in CallType /\ f.rc \in {0, 1}
      BY <3>1 DEF FlushSpec, CallInv, CallType
    <3>3. QED
      BY <3>1, <3>2 DEF FlushSpec
  <2>3. QED
    BY <2>1, <2>2
<1>3. s = [f EXCEPT !.db.secmsk = MaskOf(d)]
  BY <1>1 DEF Select, MaskOf
<1>4. MaskOf(d) \in Masks \cap Slots
  <2>1. fd0[d] \in 0 .. 255
    BY BiosAssumption
  <2>2. MaskOf(d) \in Masks
    BY <2>1, MaskRange DEF MaskOf
  <2>3. MaskOf(d) < HSTRECS
    BY BiosAssumption DEF MaskOf
  <2>4. QED
    BY <2>2, <2>3, DeblockAssumption DEF Slots, Masks
<1>5. /\ s \in CallType /\ s.media = f.media
      /\ s.db.secmsk = MaskOf(d)
      /\ s.db.hstwrt = f.db.hstwrt /\ s.db.hstbuf = f.db.hstbuf
      /\ s.db.hst = f.db.hst /\ s.db.hstact = f.db.hstact
      /\ s.db.una = f.db.una /\ s.db.unacnt = f.db.unacnt
  BY <1>2, <1>3, <1>4 DEF CallType, DeblockType
<1>6. V(s) = V(f) /\ P(s) = P(f) /\ D(s) = D(f)
  <2>1. \A q \in Rec : /\ InBuffer(s.db, q) <=> InBuffer(f.db, q)
                       /\ InBufferAt(s.db, q) = InBufferAt(f.db, q)
    BY <1>5 DEF InBuffer, InBufferAt
  <2>2. V(s) = V(f)
    BY <1>5, <2>1 DEF V, ViewOf
  <2>3. P(s) = P(f)
    BY <1>5, <2>1 DEF P, PendingOf
  <2>4. D(s) = D(f)
    BY <1>5, <2>2 DEF D, DoubtOf, V
  <2>5. QED
    BY <2>2, <2>3, <2>4
<1>7. QED
  BY <1>2, <1>5, <1>6 DEF SelectSpec
-----------------------------------------------------------------------------
(***************************************************************************)
(* Every step keeps the inductive invariant and is a step, or a stutter,   *)
(* of CpmDisk: one lemma per action.                                       *)
(***************************************************************************)
LEMMA InitStep ==
    ASSUME Init
    PROVE  IInv /\ CD!Init
PROOF
<1>1. /\ db \in DeblockType
      /\ db.hstact = FALSE /\ db.hstwrt = FALSE /\ db.unacnt = 0
      /\ db.una = <<0, 0, 0>>
  BY InitType DEF Init, ColdBoot, deblock_init
<1>2. TypeOK
  BY <1>1, BiosAssumption, DeblockAssumption
  DEF Init, ColdBoot, TypeOK, FMT_NONE
<1>3. IInv
  BY <1>1, <1>2
  DEF IInv, Init, ColdBoot, DirtyHasFormat, FormatInForce, LoadingClean, ImageIsOnDisk
<1>4. View = media /\ PendingOf(db) = {} /\ DoubtOf(db, media) = {}
  BY <1>1, <1>2
  DEF View, ViewOf, PendingOf, DoubtOf, InBuffer, TypeOK
<1>5. Fresh = {}
  <2>1. \A r \in Rec : r[3] \in Nat
    BY DeblockAssumption DEF Addr
  <2>2. QED
    BY <1>1, <2>1 DEF Fresh, FreshOf
<1>6. QED
  BY <1>2, <1>3, <1>4, <1>5 DEF CD!Init, TypeOK, Init

LEMMA ReadStep ==
    ASSUME IInv, bios_read
    PROVE  IInv' /\ CD!Read
PROOF
<1>1. PICK io \in Outcome :
         \E e : /\ e = deblock_read(Call, Seek, io)
                /\ Returns(e)
                /\ dma' = IF e.rc = 0
                          THEN e.db.hstbuf[RecOffset(Seek, e.db.secmsk)]
                          ELSE dma
  BY DEF bios_read
<1>2. PICK e : /\ e = deblock_read(Call, Seek, io)
               /\ Returns(e)
               /\ dma' = IF e.rc = 0
                         THEN e.db.hstbuf[RecOffset(Seek, e.db.secmsk)]
                         ELSE dma
  BY <1>1
<1>3. /\ mode = "run" /\ Seek \in Rec
      /\ UNCHANGED <<cur_disk, cur_track, cur_sector, last_format, mode, image>>
      /\ Seek' = Seek /\ Seek[1] = cur_disk
  BY DEF bios_read, Seek
<1>4. Call.db.secmsk = MaskOf(Seek[1])
  BY <1>3, CallOfState DEF IInv, FormatInForce
<1>5. ReadSpec(Call, Seek, e)
  BY <1>2, <1>3, <1>4, CallOfState, ReadContract
<1>6. /\ e \in CallType /\ db' = e.db /\ media' = e.media /\ rc' = e.rc
  BY <1>2, <1>5 DEF ReadSpec, CallInv, Returns
<1>7. /\ View' = V(e) /\ PendingOf(db)' = P(e) /\ DoubtOf(db, media)' = D(e)
      /\ Fresh' = Fresh
  BY <1>5, <1>6, CallOfState DEF ReadSpec, View, V, P, D, Fresh, FreshOf
<1>8. V(Call) \in [Rec -> Data] /\ V(e) \in [Rec -> Data]
  BY <1>6, CallOfState, ViewType DEF CallInv
<1>9. dma' \in Data
  <2>1. CASE e.rc = 0
    BY <1>2, <1>3, <1>5, <1>8, <2>1 DEF ReadSpec
  <2>2. CASE e.rc # 0
    BY <1>2, <2>2 DEF IInv, TypeOK
  <2>3. QED
    BY <2>1, <2>2
<1>10. IInv'
  <2>1. TypeOK'
    BY <1>3, <1>6, <1>9 DEF IInv, TypeOK, CallType
  <2>2. DirtyHasFormat'
    BY <1>3, <1>5, <1>6 DEF ReadSpec, CallInv, DirtyHasFormat, MaskOf
  <2>3. FormatInForce'
    BY <1>3, <1>4, <1>5, <1>6 DEF ReadSpec, IInv, FormatInForce, MaskOf
  <2>4. LoadingClean' /\ ImageIsOnDisk'
    BY <1>3 DEF LoadingClean, ImageIsOnDisk
  <2>5. QED
    BY <2>1, <2>2, <2>3, <2>4 DEF IInv
<1>11. CASE e.rc = 0
  <2>1. (Keeps(Call, e) \/ Settles(Call, e)) /\ V(e)[Seek] = View[Seek]
    BY <1>5, <1>11, CallOfState DEF ReadSpec
  <2>2. dma' = View[Seek] /\ rc' = 0
    BY <1>2, <1>5, <1>6, <1>11, CallOfState DEF ReadSpec
  <2>3. CD!Kept \/ CD!Settled
    BY <1>7, <1>8, <2>1, CallOfState
    DEF CD!Kept, CD!Settled, CD!ChangesWithin, Keeps, Settles
  <2>4. QED
    BY <1>3, <1>7, <1>10, <2>1, <2>2, <2>3 DEF CD!Read
<1>12. CASE e.rc = 1
  <2>1. Settles(Call, e) \/ Drops(Call, e)
    BY <1>5, <1>12 DEF ReadSpec
  <2>2. CD!Settled \/ CD!Dropped
    BY <1>7, <1>8, <2>1, CallOfState
    DEF CD!Dropped, CD!Settled, CD!ChangesWithin, Drops, Settles
  <2>3. rc' = 1 /\ dma' = dma
    BY <1>2, <1>6, <1>12
  <2>4. QED
    BY <1>3, <1>7, <1>10, <2>2, <2>3 DEF CD!Read
<1>13. QED
  BY <1>6, <1>11, <1>12 DEF CallType
LEMMA WriteStep ==
    ASSUME IInv, NEW v \in Data, NEW wrtyp \in WrTypes, bios_write(v, wrtyp)
    PROVE  IInv' /\ CD!Write(v, wrtyp = WRTYP_UNALLOC, wrtyp = WRTYP_DIRECTORY)
PROOF
<1> DEFINE unalloc == wrtyp = WRTYP_UNALLOC
           directory == wrtyp = WRTYP_DIRECTORY
<1>1. PICK io \in Outcome : Returns(deblock_write(Call, Seek, v, wrtyp, io))
  BY DEF bios_write
<1>2. PICK e : e = deblock_write(Call, Seek, v, wrtyp, io)
  OBVIOUS
<1>3. /\ mode = "run" /\ Seek \in Rec
      /\ UNCHANGED <<cur_disk, cur_track, cur_sector, last_format, mode, image>>
      /\ Seek' = Seek /\ Seek[1] = cur_disk /\ dma' = v
  BY DEF bios_write, Seek
<1>4. Call.db.secmsk = MaskOf(Seek[1]) /\ last_format = fd0[Seek[1]]
  BY <1>3, CallOfState DEF IInv, FormatInForce
<1>5. WriteSpec(Call, Seek, v, wrtyp, e)
  BY <1>2, <1>3, <1>4, CallOfState, WriteContract
<1>6. e \in CallType /\ db' = e.db /\ media' = e.media /\ rc' = e.rc
  BY <1>1, <1>2, <1>5 DEF WriteSpec, CallInv, Returns
<1>7. /\ View' = V(e) /\ PendingOf(db)' = P(e) /\ DoubtOf(db, media)' = D(e)
      /\ Fresh' = FreshOf(e.db) /\ Fresh = FreshOf(Call.db)
  BY <1>6, CallOfState DEF View, V, P, D, Fresh
<1>8. V(e) \in [Rec -> Data]
  BY <1>6, ViewType
<1>9. IInv'
  <2>1. TypeOK'
    BY <1>3, <1>6 DEF IInv, TypeOK, CallType
  <2>2. DirtyHasFormat'
    BY <1>3, <1>5, <1>6 DEF WriteSpec, CallInv, DirtyHasFormat, MaskOf
  <2>3. FormatInForce'
    BY <1>3, <1>4, <1>5, <1>6 DEF WriteSpec, IInv, FormatInForce, MaskOf
  <2>4. LoadingClean' /\ ImageIsOnDisk'
    BY <1>3 DEF LoadingClean, ImageIsOnDisk
  <2>5. QED
    BY <2>1, <2>2, <2>3, <2>4 DEF IInv
<1>10. StoresIn(Call, Seek, v, unalloc, e) => CD!Stored(v, unalloc)
  BY <1>7, <1>8, CallOfState DEF StoresIn, CD!Stored, CD!ChangesWithin
<1>11. Fresh' \subseteq (IF unalloc THEN Rec ELSE Fresh \ {Seek})
  BY <1>5, <1>7 DEF WriteSpec
<1>12. CASE e.rc = 0
  <2>1. /\ P(e) = (IF directory THEN {} ELSE SectorMap[Seek]) /\ D(e) = {}
        /\ StoresIn(Call, Seek, v, unalloc, e)
    BY <1>5, <1>12 DEF WriteSpec
  <2>2. QED
    BY <1>3, <1>6, <1>7, <1>9, <1>10, <1>11, <1>12, <2>1 DEF CD!Write
<1>13. CASE e.rc = 1
  <2>1. \/ Settles(Call, e)
        \/ Drops(Call, e)
        \/ /\ directory
           /\ P(e) = {} /\ D(e) \subseteq SectorMap[Seek]
           /\ StoresIn(Call, Seek, v, unalloc, e)
    BY <1>5, <1>13 DEF WriteSpec
  <2>2. \/ CD!Settled
        \/ CD!Dropped
        \/ /\ directory
           /\ PendingOf(db)' = {} /\ DoubtOf(db, media)' \subseteq SectorMap[Seek]
           /\ CD!Stored(v, unalloc)
    BY <1>7, <1>8, <1>10, <2>1, CallOfState
    DEF CD!Dropped, CD!Settled, CD!ChangesWithin, Drops, Settles
  <2>3. QED
    BY <1>3, <1>6, <1>9, <1>11, <1>13, <2>2 DEF CD!Write
<1>14. QED
  BY <1>6, <1>12, <1>13 DEF CallType

LEMMA SeldskStep ==
    ASSUME IInv, NEW d \in Drive, bios_seldsk(d)
    PROVE  IInv' /\ CD!Select
PROOF
<1>1. PICK io \in Outcome : LET c == Select(Call, d, io)
                            IN  db' = c.db /\ media' = c.media
  BY DEF bios_seldsk
<1>2. PICK s : s = Select(Call, d, io)
  OBVIOUS
<1>3. /\ mode = "run" /\ Selectable(d) /\ db' = s.db /\ media' = s.media
      /\ last_format' = fd0[d] /\ cur_disk' = d
      /\ UNCHANGED <<cur_track, cur_sector, mode, image, dma, rc>>
  BY <1>1, <1>2 DEF bios_seldsk
<1>4. SelectSpec(Call, d, s)
  BY <1>2, <1>3, CallOfState, SelectContract
<1>5. /\ View' = V(s) /\ PendingOf(db)' = P(s) /\ DoubtOf(db, media)' = D(s)
      /\ Fresh' = Fresh
  BY <1>3, <1>4, CallOfState DEF SelectSpec, View, V, P, D, Fresh, FreshOf
<1>6. IInv'
  <2>1. TypeOK'
    <3>1. fd0[d] \in 0 .. 255
      BY BiosAssumption
    <3>2. QED
      BY <1>3, <1>4, <3>1 DEF IInv, TypeOK, SelectSpec, CallType
  <2>2. DirtyHasFormat'
    <3>1. ASSUME s.db.hstwrt
          PROVE  /\ s.db.hstact /\ s.db.hst[1] \in Drive
                 /\ fd0[d] = fd0[s.db.hst[1]]
      BY <1>4, <3>1, CallOfState DEF SelectSpec, CallInv
    <3>2. QED
      BY <1>3, <1>4, <3>1 DEF DirtyHasFormat, SelectSpec, MaskOf
  <2>3. FormatInForce'
    BY <1>3, <1>4 DEF SelectSpec, FormatInForce, MaskOf, Selectable
  <2>4. LoadingClean' /\ ImageIsOnDisk'
    BY <1>3 DEF LoadingClean, ImageIsOnDisk
  <2>5. QED
    BY <2>1, <2>2, <2>3, <2>4 DEF IInv
<1>7. CD!Select
  BY <1>3, <1>4, <1>5, CallOfState DEF SelectSpec, CD!Select
<1>8. QED
  BY <1>6, <1>7

LEMMA PositionStep ==
    ASSUME IInv,
           \/ bios_home
           \/ \E r \in Rec : bios_settrk(r[2]) \/ bios_setsec(r[3])
    PROVE  IInv' /\ CD!Position
PROOF
<1>1. /\ UNCHANGED <<db, media, cur_disk, last_format, mode, image, dma, rc>>
      /\ mode = "run"
  BY DEF bios_home, bios_settrk, bios_setsec
<1>2. cur_track' \in Nat /\ cur_sector' \in Nat
  <2>1. \A r \in Rec : r[2] \in Nat /\ r[3] \in Nat
    BY DeblockAssumption DEF Addr
  <2>2. QED
    BY <2>1 DEF IInv, TypeOK, bios_home, bios_settrk, bios_setsec
<1>3. TypeOK' /\ DirtyHasFormat' /\ FormatInForce'
  BY <1>1, <1>2 DEF IInv, TypeOK, DirtyHasFormat, FormatInForce
<1>4. LoadingClean' /\ ImageIsOnDisk'
  BY <1>1 DEF LoadingClean, ImageIsOnDisk
<1>5. CD!Position
  BY <1>1 DEF CD!Position, View, Fresh
<1>6. QED
  BY <1>3, <1>4, <1>5 DEF IInv
LEMMA WbootStep ==
    ASSUME IInv, bios_wboot
    PROVE  IInv' /\ CD!Restart
PROOF
<1>1. PICK io \in Outcome :
         LET selected == Select(Call, 0, io)
             c == ForgetBuffer(deblock_flush(
                    [selected EXCEPT !.db.unacnt = 0], io, "flush"))
         IN  db' = c.db /\ media' = c.media
  BY DEF bios_wboot
<1>2. PICK s : s = Select(Call, 0, io)
  OBVIOUS
<1>3. PICK b : b = [s EXCEPT !.db.unacnt = 0]
  OBVIOUS
<1>4. PICK f : f = deblock_flush(b, io, "flush")
  OBVIOUS
<1>5. /\ db' = ForgetBuffer(f).db /\ media' = ForgetBuffer(f).media
      /\ last_format' = fd0[0] /\ cur_disk' = 0 /\ cur_track' = 1
      /\ mode' = "load" /\ image' = << >>
      /\ UNCHANGED <<cur_sector, dma, rc>>
  BY <1>1, <1>2, <1>3, <1>4 DEF bios_wboot
<1>6. SelectSpec(Call, 0, s)
  BY <1>2, BiosAssumption, CallOfState, SelectContract
<1>7. /\ b \in CallType /\ b.db.unacnt = 0 /\ SameBuffer(b, s)
  <2>1. s \in CallType /\ 0 \in 0 .. HSTRECS
    BY <1>6, DeblockAssumption DEF SelectSpec
  <2>2. QED
    BY <1>3, <2>1 DEF CallType, DeblockType, SameBuffer
<1>8. CallInv(s)
  <2>1. ASSUME s.db.hstwrt
        PROVE  /\ s.db.hstact /\ s.db.hst[1] \in Drive
               /\ s.db.secmsk = MaskOf(s.db.hst[1])
               /\ last_format = fd0[s.db.hst[1]]
    BY <1>6, <2>1, CallOfState DEF SelectSpec, CallInv, MaskOf
  <2>2. QED
    BY <1>6, <2>1 DEF SelectSpec, CallInv
<1>9. CallInv(b) /\ V(b) = V(s) /\ P(b) = P(s) /\ D(b) = D(s)
  BY <1>7, <1>8, SameBufferSameView
<1>10. FlushSpec(b, f)
  BY <1>4, <1>9, FlushContract DEF Steps
<1>11. f \in CallType /\ f.rc \in {0, 1}
  BY <1>10 DEF FlushSpec, CallInv, CallType
<1>12. /\ db' \in DeblockType /\ media' = f.media /\ media' \in [Rec -> Data]
       /\ db'.hstact = FALSE /\ db'.hstwrt = FALSE /\ db'.unacnt = 0
       /\ db'.una \in Addr
       /\ db'.secmsk = MaskOf(0)
  <2>1. f.db.hstwrt = FALSE /\ f.db.unacnt = 0 /\ f.db.secmsk = MaskOf(0)
    BY <1>6, <1>7, <1>10, <1>11
    DEF FlushSpec, SelectSpec, SameBuffer, CallType, DeblockType
  <2>2. QED
    BY <1>5, <1>11, <2>1 DEF ForgetBuffer, CallType, DeblockType
<1>13. View' = media' /\ PendingOf(db)' = {} /\ DoubtOf(db, media)' = {}
  BY <1>12 DEF View, ViewOf, PendingOf, DoubtOf, InBuffer
<1>14. Fresh' = {}
  <2>1. \A q \in Rec : q[3] \in Nat
    BY DeblockAssumption DEF Addr
  <2>2. QED
    BY <1>12, <2>1 DEF Fresh, FreshOf, Addr
<1>15. IInv'
  <2>1. TypeOK'
    <3>1. fd0[0] \in 0 .. 255
      BY BiosAssumption
    <3>2. QED
      BY <1>5, <1>12, <3>1, BiosAssumption DEF IInv, TypeOK
  <2>2. DirtyHasFormat'
    BY <1>12 DEF DirtyHasFormat
  <2>3. FormatInForce'
    BY <1>5, <1>12, BiosAssumption DEF FormatInForce, MaskOf, Selectable
  <2>4. LoadingClean'
    BY <1>5, <1>12, <1>13, BiosAssumption DEF LoadingClean
  <2>5. ImageIsOnDisk'
    BY <1>5 DEF ImageIsOnDisk
  <2>6. QED
    BY <2>1, <2>2, <2>3, <2>4, <2>5 DEF IInv
<1>16. ASSUME NEW q \in Rec \ (PendingOf(db) \cup DoubtOf(db, media))
       PROVE  media'[q] = View[q]
  <2>1. q \notin P(s) /\ q \notin D(s) /\ V(s)[q] = View[q]
    BY <1>6, <1>16, CallOfState DEF SelectSpec
  <2>2. q \notin D(f)
    BY <1>9, <1>10, <1>11, <2>1 DEF FlushSpec
  <2>3. V(f)[q] = View[q]
    BY <1>9, <1>10, <2>1 DEF FlushSpec
  <2>4. V(f)[q] = f.media[q]
    BY <1>10, <2>2 DEF FlushSpec, D, V, DoubtOf
  <2>5. QED
    BY <1>12, <2>3, <2>4
<1>17. CD!Restart
  BY <1>5, <1>12, <1>13, <1>14, <1>16 DEF CD!Restart, CD!ChangesWithin
<1>18. QED
  BY <1>15, <1>17

\* The load loop reads through a clean buffer: nothing CpmDisk sees changes.
LEMMA LoadStep ==
    ASSUME IInv, LoadRecord
    PROVE  IInv' /\ UNCHANGED CD!vars
PROOF
<1>1. PICK r : r = <<cur_disk, cur_track, Len(image)>>
  OBVIOUS
<1>2. PICK io \in Outcome :
         LET c == deblock_read(Call, r, io)
         IN  /\ db' = c.db /\ media' = c.media
             /\ IF c.rc = 0
                THEN /\ image' = Append(image,
                                  c.db.hstbuf[RecOffset(r, c.db.secmsk)])
                     /\ mode' = mode
                ELSE UNCHANGED image /\ mode' = "halt"
  BY <1>1 DEF LoadRecord
<1>3. PICK e : e = deblock_read(Call, r, io)
  OBVIOUS
<1>4. /\ mode = "load" /\ Len(image) < NSECTS
      /\ UNCHANGED <<cur_disk, cur_track, cur_sector, last_format, dma, rc>>
  BY DEF LoadRecord
<1>5. /\ cur_disk = 0 /\ cur_track = 1 /\ ~db.hstwrt
      /\ DoubtOf(db, media) = {}
      /\ db.secmsk = MaskOf(0)
      /\ image \in Seq(Data)
  BY <1>4 DEF IInv, LoadingClean, FormatInForce, TypeOK
<1>6. r \in Rec /\ r = BootRec(Len(image)) /\ r[1] = 0 /\ Len(image) \in Nat
  <2>1. Len(image) \in 0 .. (NSECTS - 1)
    BY <1>4, <1>5, BiosAssumption
  <2>2. r = BootRec(Len(image))
    BY <1>1, <1>5 DEF BootRec
  <2>3. QED
    BY <2>1, <2>2, BiosAssumption DEF BootRec
<1>7. ReadSpec(Call, r, e)
  BY <1>3, <1>5, <1>6, CallOfState, ReadContract
<1>8. /\ e \in CallType /\ db' = e.db /\ media' = e.media
      /\ e.media = media /\ ~e.db.hstwrt
  BY <1>2, <1>3, <1>5, <1>7, CallOfState DEF ReadSpec, CallInv
<1>9. P(Call) = {} /\ D(Call) = {}
  BY <1>5, CallOfState DEF PendingOf
<1>10. /\ View' = V(e) /\ PendingOf(db)' = P(e) /\ DoubtOf(db, media)' = D(e)
       /\ Fresh' = Fresh
  BY <1>7, <1>8, CallOfState DEF ReadSpec, View, V, P, D, Fresh, FreshOf
<1>11. /\ V(Call) \in [Rec -> Data] /\ V(e) \in [Rec -> Data]
       /\ V(Call)[r] = media[r]
  <2>1. V(Call) \in [Rec -> Data] /\ V(e) \in [Rec -> Data]
    BY <1>8, CallOfState, ViewType DEF CallInv
  <2>2. r \notin D(Call)
    BY <1>9
  <2>3. V(Call)[r] = media[r]
    BY <1>5, <1>6, <2>2, CallOfState DEF D, DoubtOf, V
  <2>4. QED
    BY <2>1, <2>3
<1>12. e.rc \in {0, 1}
  BY <1>8 DEF CallType
<1>13. P(e) = {} /\ D(e) = {} /\ V(e) = V(Call)
  <2>1. Keeps(Call, e) \/ Settles(Call, e) \/ Drops(Call, e)
    BY <1>7, <1>12 DEF ReadSpec
  <2>2. CASE Keeps(Call, e)
    BY <1>9, <2>2 DEF Keeps
  <2>3. CASE Settles(Call, e)
    BY <1>9, <1>11, <2>3 DEF Settles
  <2>4. CASE Drops(Call, e)
    BY <1>9, <2>4 DEF Drops
  <2>5. QED
    BY <2>1, <2>2, <2>3, <2>4
<1>14. UNCHANGED CD!vars
  BY <1>4, <1>9, <1>10, <1>13, CallOfState DEF CD!vars, Seek
<1>15. CASE e.rc = 0
  <2>1. /\ image' = Append(image, media[r]) /\ mode' = mode
    BY <1>2, <1>3, <1>7, <1>11, <1>15 DEF ReadSpec
  <2>2. media \in [Rec -> Data] /\ media[r] \in Data
    BY <1>6 DEF IInv, TypeOK
  <2>3. /\ image' \in Seq(Data) /\ Len(image') = Len(image) + 1
        /\ \A i \in 1 .. Len(image) : image'[i] = image[i]
        /\ image'[Len(image) + 1] = media[r]
    BY <1>5, <2>1, <2>2
  <2>4. TypeOK' /\ DirtyHasFormat'
    BY <1>4, <1>8, <2>1, <2>3 DEF IInv, TypeOK, DirtyHasFormat, CallType
  <2>5. FormatInForce'
    BY <1>4, <1>5, <1>7, <1>8, <2>1, CallOfState
    DEF ReadSpec, IInv, FormatInForce, MaskOf
  <2>6. LoadingClean'
    BY <1>4, <1>5, <1>6, <1>8, <1>10, <1>13, <2>3, BiosAssumption DEF LoadingClean
  <2>7. ImageIsOnDisk'
    <3>1. ASSUME NEW i \in 1 .. Len(image')
          PROVE  image'[i] = media'[BootRec(i - 1)]
      <4>1. CASE i = Len(image) + 1
        <5>1. i - 1 = Len(image)
          BY <1>6, <4>1
        <5>2. QED
          BY <1>6, <1>8, <2>3, <4>1, <5>1
      <4>2. CASE i # Len(image) + 1
        <5>1. i \in 1 .. Len(image)
          BY <1>6, <2>3, <4>2
        <5>2. QED
          BY <1>4, <1>8, <2>3, <5>1 DEF IInv, ImageIsOnDisk
      <4>3. QED
        BY <4>1, <4>2
    <3>2. QED
      BY <3>1 DEF ImageIsOnDisk
  <2>8. QED
    BY <1>14, <2>4, <2>5, <2>6, <2>7 DEF IInv
<1>16. CASE e.rc = 1
  <2>1. UNCHANGED image /\ mode' = "halt"
    BY <1>2, <1>3, <1>16
  <2>2. TypeOK' /\ DirtyHasFormat'
    BY <1>4, <1>8, <2>1 DEF IInv, TypeOK, DirtyHasFormat, CallType
  <2>3. FormatInForce'
    BY <1>4, <1>5, <1>7, <1>8, CallOfState
    DEF ReadSpec, IInv, FormatInForce, MaskOf
  <2>4. LoadingClean' /\ ImageIsOnDisk'
    BY <2>1 DEF LoadingClean, ImageIsOnDisk
  <2>5. QED
    BY <1>14, <2>2, <2>3, <2>4 DEF IInv
<1>17. QED
  BY <1>12, <1>15, <1>16
LEMMA EnterStep ==
    ASSUME IInv, EnterCcp
    PROVE  IInv' /\ UNCHANGED CD!vars
PROOF
<1>1. /\ UNCHANGED <<db, media, cur_disk, cur_track, cur_sector, last_format, dma, rc>>
      /\ mode = "load" /\ mode' = "run" /\ image' = << >>
  BY DEF EnterCcp
<1>2. TypeOK' /\ DirtyHasFormat' /\ FormatInForce'
  BY <1>1 DEF IInv, TypeOK, DirtyHasFormat, FormatInForce
<1>3. LoadingClean' /\ ImageIsOnDisk'
  BY <1>1 DEF LoadingClean, ImageIsOnDisk
<1>4. UNCHANGED CD!vars
  BY <1>1 DEF CD!vars, View, Fresh, Seek
<1>5. QED
  BY <1>2, <1>3, <1>4 DEF IInv

LEMMA ResetStep ==
    ASSUME IInv, Reset
    PROVE  IInv' /\ CD!Restart
PROOF
<1>1. /\ UNCHANGED <<media, dma, rc>>
      /\ cur_disk' = 0 /\ cur_track' = 0 /\ cur_sector' = 0
      /\ last_format' = FMT_NONE /\ mode' = "boot" /\ image' = << >>
      /\ db' = deblock_init
  BY DEF Reset
<1>2. /\ db' \in DeblockType
      /\ db'.hstact = FALSE /\ db'.hstwrt = FALSE
      /\ db'.unacnt = 0 /\ db'.una = <<0, 0, 0>>
  BY <1>1, InitType DEF deblock_init
<1>3. TypeOK'
  BY <1>1, <1>2, BiosAssumption DEF IInv, TypeOK, FMT_NONE
<1>4. DirtyHasFormat' /\ FormatInForce' /\ LoadingClean' /\ ImageIsOnDisk'
  BY <1>1, <1>2 DEF DirtyHasFormat, FormatInForce, LoadingClean, ImageIsOnDisk
<1>5. View' = media /\ PendingOf(db)' = {} /\ DoubtOf(db, media)' = {}
  BY <1>1, <1>2 DEF View, ViewOf, PendingOf, DoubtOf, InBuffer, IInv, TypeOK
<1>6. Fresh' = {}
  <2>1. \A q \in Rec : q[3] \in Nat
    BY DeblockAssumption DEF Addr
  <2>2. QED
    BY <1>2, <2>1 DEF Fresh, FreshOf
<1>7. ASSUME NEW q \in Rec \ (PendingOf(db) \cup DoubtOf(db, media))
      PROVE  media[q] = View[q]
  BY <1>7 DEF View, ViewOf, PendingOf, DoubtOf
<1>8. CD!Restart
  BY <1>1, <1>5, <1>6, <1>7 DEF CD!Restart, CD!ChangesWithin, IInv, TypeOK
<1>9. QED
  BY <1>3, <1>4, <1>8 DEF IInv

LEMMA NextStep ==
    ASSUME IInv, [Next]_vars
    PROVE  IInv' /\ [CD!Next]_CD!vars
PROOF
<1>1. CASE \E d \in Drive : bios_seldsk(d)
  BY <1>1, SeldskStep DEF CD!Next
<1>2. CASE bios_home \/ \E r \in Rec : bios_settrk(r[2]) \/ bios_setsec(r[3])
  BY <1>2, PositionStep DEF CD!Next
<1>3. CASE bios_read
  BY <1>3, ReadStep DEF CD!Next
<1>4. CASE \E v \in Data, wrtyp \in WrTypes : bios_write(v, wrtyp)
  <2>1. PICK v \in Data, wrtyp \in WrTypes : bios_write(v, wrtyp)
    BY <1>4
  <2>2. IInv' /\ CD!Write(v, wrtyp = WRTYP_UNALLOC, wrtyp = WRTYP_DIRECTORY)
    BY <2>1, WriteStep
  <2>3. /\ (wrtyp = WRTYP_UNALLOC) \in BOOLEAN
        /\ (wrtyp = WRTYP_DIRECTORY) \in BOOLEAN
    OBVIOUS
  <2>4. QED
    BY <2>2, <2>3 DEF CD!Next
<1>5. CASE bios_wboot
  BY <1>5, WbootStep DEF CD!Next
<1>6. CASE LoadRecord
  BY <1>6, LoadStep
<1>7. CASE EnterCcp
  BY <1>7, EnterStep
<1>8. CASE Reset
  BY <1>8, ResetStep DEF CD!Next
<1>9. CASE UNCHANGED vars
  <2>1. UNCHANGED <<db, media, cur_disk, cur_track, cur_sector, last_format,
                    mode, image, dma, rc>>
    BY <1>9 DEF vars
  <2>2. TypeOK' /\ DirtyHasFormat' /\ FormatInForce'
    BY <2>1 DEF IInv, TypeOK, DirtyHasFormat, FormatInForce
  <2>3. LoadingClean' /\ ImageIsOnDisk'
    BY <2>1 DEF IInv, LoadingClean, ImageIsOnDisk
  <2>4. UNCHANGED CD!vars
    BY <2>1 DEF CD!vars, View, Fresh, Seek
  <2>5. QED
    BY <2>2, <2>3, <2>4 DEF IInv
<1>10. QED
  BY <1>1, <1>2, <1>3, <1>4, <1>5, <1>6, <1>7, <1>8, <1>9 DEF Next

-----------------------------------------------------------------------------
(***************************************************************************)
(* The theorems.                                                           *)
(***************************************************************************)

\* The inductive invariant holds in every reachable state of main.c.
THEOREM Invariance == Spec => []IInv
PROOF
<1>1. Init => IInv
  BY InitStep
<1>2. IInv /\ [Next]_vars => IInv'
  BY NextStep
<1>3. QED
  BY <1>1, <1>2, PTL DEF Spec

\* The variables of main.c and deblock.c stay in their ranges: no index
\* leaves hstbuf, the run counter never passes a sector.
THEOREM TypeCorrect == Spec => []TypeOK
PROOF
<1>1. IInv => TypeOK
  BY DEF IInv
<1>2. QED
  BY <1>1, Invariance, PTL

\* A dirty buffer is always written back under the format it was filled
\* with, whatever drives are selected in between.
THEOREM DirtyFormat == Spec => []DirtyHasFormat
PROOF
<1>1. IInv => DirtyHasFormat
  BY DEF IInv
<1>2. QED
  BY <1>1, Invariance, PTL

\* The records WBOOT has loaded are those on the diskette.
THEOREM ImageCorrect == Spec => []ImageIsOnDisk
PROOF
<1>1. IInv => ImageIsOnDisk
  BY DEF IInv
<1>2. QED
  BY <1>1, Invariance, PTL

\* The disk entry points implement CpmDisk, whatever the formats, the calls
\* and the transfers that fail.
THEOREM Refinement == Spec => ImplementsCpmDisk
PROOF
<1>1. Init => CD!Init
  BY InitStep
<1>2. IInv /\ [Next]_vars => [CD!Next]_CD!vars
  BY NextStep
<1>3. QED
  BY <1>1, <1>2, Invariance, PTL DEF Spec, ImplementsCpmDisk, CD!Spec
=============================================================================
