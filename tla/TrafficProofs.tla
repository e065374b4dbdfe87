--------------------------- MODULE TrafficProofs ---------------------------
(***************************************************************************)
(* Theorems about Traffic, for every setting of the patterns, every size   *)
(* of a session and every pool.  What a generator may return is settled    *)
(* first, one lemma for each kind; the invariants follow from that.        *)
(***************************************************************************)
EXTENDS Traffic, TLAPS

\* Settings under which a query may be too long for its frame.
OverLimit == \/ "TXT" \in Records /\ ExoMax > StringMax + 1
             \/ "NULL" \in Records /\ ExoMax > RdataMax + 1
             \/ knobs.dgaMin < 1
             \/ DgaMax > LabelMax + 1
             \/ ~ZoneShort

\* Settings under which a generator may panic.
BadKnobs == ~knobs.alphaOver1 \/ knobs.dgaMin < 0 \/ knobs.exoMin < 0

\* A query that carries nothing of the exfil session.
Plain(q) == q \in QueryType /\ q.seq = 0 /\ (Packs(q) \/ OverLimit)

-----------------------------------------------------------------------------
LEMMA KnobsTyped == ASSUME knobs \in KnobSpace PROVE knobs \in KnobType
BY TrafficAssumption

\* A length that is drawn lies between its bounds, and there is one to draw.
LEMMA DgaLengths ==
    ASSUME knobs \in KnobType, NEW f \in FamiliesDrawn
    PROVE  /\ LengthsOf(f) # {} /\ LengthsOf(f) \subseteq Int
           /\ \A n \in LengthsOf(f) : /\ knobs.dgaMin >= 0 => n >= 0
                                      /\ knobs.dgaMin >= 1 => n >= 1
                                      /\ DgaMax <= LabelMax + 1 => n <= LabelMax
<1>1. knobs.dgaMin \in Int /\ knobs.dgaMax \in Int /\ knobs.family \in Families
  BY DEF KnobType
<1>2. DgaMax \in Int /\ DgaMax > knobs.dgaMin
  BY <1>1 DEF DgaMax
<1>3. f \in {"suppobox", "necurs", "pykspa", "conficker"}
  BY <1>1 DEF FamiliesDrawn, Families
<1>4. CASE f = "suppobox"
  <2>1. LengthsOf(f) = 10 .. 20
    BY <1>4 DEF LengthsOf
  <2> QED
    BY <2>1 DEF LabelMax
<1>5. CASE f = "necurs"
  <2>1. LengthsOf(f) = NecursMin .. NecursMax - 1
    BY <1>5 DEF LengthsOf, Draw
  <2>2. NecursMin \in Int /\ NecursMin >= 16 /\ NecursMin >= knobs.dgaMin
        /\ (NecursMin = 16 \/ NecursMin = knobs.dgaMin)
    BY <1>1 DEF NecursMin, Atleast
  <2>3. NecursMax \in Int /\ NecursMax > NecursMin
        /\ (NecursMax = DgaMax \/ NecursMax = 20)
    BY <1>2, <2>2 DEF NecursMax
  <2>4. LengthsOf(f) \subseteq Int /\ NecursMin \in LengthsOf(f)
    BY <2>1, <2>2, <2>3
  <2>5. ASSUME NEW n \in LengthsOf(f) PROVE n \in Int /\ n >= NecursMin /\ n < NecursMax
    BY <2>1, <2>2, <2>3
  <2>6. ASSUME NEW n \in LengthsOf(f)
        PROVE  /\ knobs.dgaMin >= 0 => n >= 0
               /\ knobs.dgaMin >= 1 => n >= 1
               /\ DgaMax <= LabelMax + 1 => n <= LabelMax
    BY <2>2, <2>3, <2>5, <1>1, <1>2 DEF LabelMax
  <2> QED
    BY <2>4, <2>6
<1>6. CASE f \in {"pykspa", "conficker"}
  <2>1. LengthsOf(f) = knobs.dgaMin .. DgaMax - 1
    BY <1>6 DEF LengthsOf, Draw
  <2> QED
    BY <2>1, <1>1, <1>2 DEF LabelMax
<1> QED
  BY <1>3, <1>4, <1>5, <1>6

\* A label that is one makes no name too long when the zones are short.
LEMMA ShortNames ==
    ASSUME knobs \in KnobType, ZoneShort, NEW q, q.labels \subseteq 1 .. LabelMax
    PROVE  NamesFit(q)
BY DEF KnobType, ZoneShort, NamesFit, LabelMax, NameMax

LEMMA PlainQuery ==
    ASSUME knobs \in KnobType, NEW L \in SUBSET Nat, NEW n \in Nat, NEW a \in BOOLEAN,
           OverLimit \/ (L \subseteq 1 .. LabelMax /\ n <= StringMax)
    PROVE  Plain(Query(L, n, a))
<1> DEFINE q == Query(L, n, a)
<1>1. q \in QueryType /\ q.seq = 0 /\ q.labels = L /\ q.txt = n /\ q.rdata = 0
  BY DEF Query, QueryType, NoSize
<1>2. ~OverLimit => Fits(q)
  BY <1>1 DEF Fits, RdataMax
<1>3. ~OverLimit => NamesFit(q)
  BY <1>1, ShortNames DEF OverLimit
<1> QED
  BY <1>1, <1>2, <1>3 DEF Plain, Packs

LEMMA PlainLabel ==
    ASSUME knobs \in KnobType, NEW n \in Nat, NEW a \in BOOLEAN,
           n \in 1 .. LabelMax \/ OverLimit
    PROVE  Plain(Query({n}, NoSize, a))
BY PlainQuery DEF NoSize, StringMax

LEMMA PlainTxt ==
    ASSUME knobs \in KnobType, NEW n \in Nat, NEW a \in BOOLEAN,
           n <= StringMax \/ OverLimit
    PROVE  Plain(Query({}, n, a))
BY PlainQuery

LEMMA PlainNull ==
    ASSUME knobs \in KnobType, NEW n \in Nat, n <= RdataMax \/ OverLimit
    PROVE  Plain(NullQuery(n))
<1> DEFINE q == NullQuery(n)
<1>1. q \in QueryType /\ q.seq = 0 /\ q.labels = {} /\ q.txt = 0 /\ q.rdata = n
  BY DEF NullQuery, QueryType, NoSize
<1>2. ~OverLimit => Fits(q)
  BY <1>1 DEF Fits, StringMax
<1>3. ~OverLimit => NamesFit(q)
  BY <1>1, ShortNames DEF OverLimit
<1> QED
  BY <1>1, <1>2, <1>3 DEF Plain, Packs

\* The names in background's answers, and wellknown's before them.
LEMMA PlainAnswer ==
    ASSUME knobs \in KnobType, NEW qt, NEW L \in {{}, {12}}, NEW a \in BOOLEAN
    PROVE  /\ Plain(Query(AnswerLabels(qt), NoSize, a))
           /\ Plain(Query(L \cup AnswerLabels(qt), NoSize, a))
<1>1. AnswerLabels(qt) \subseteq {3, 4, 5}
  BY DEF AnswerLabels
<1>2. /\ AnswerLabels(qt) \in SUBSET Nat /\ AnswerLabels(qt) \subseteq 1 .. LabelMax
      /\ L \cup AnswerLabels(qt) \in SUBSET Nat
      /\ L \cup AnswerLabels(qt) \subseteq 1 .. LabelMax
  BY <1>1 DEF LabelMax
<1>3. NoSize \in Nat /\ NoSize <= StringMax
  BY DEF NoSize, StringMax
<1> QED
  BY <1>2, <1>3, PlainQuery

\* What dga does, called by itself or by evasion.
LEMMA DgaQuery ==
    ASSUME knobs \in KnobType, DgaCall
    PROVE  (Panics /\ BadKnobs) \/ \E q : Plain(q) /\ Returns(q)
<1>1. PICK f \in FamiliesDrawn :
         IF LengthsOf(f) = {} THEN Panics ELSE \E n \in LengthsOf(f) : Generated(n)
  BY DEF DgaCall
<1>2. PICK n \in LengthsOf(f) : Generated(n)
  BY <1>1, DgaLengths
<1>3. n \in Int /\ knobs.dgaMin \in Int /\ DgaMax \in Int
  BY DgaLengths DEF KnobType, DgaMax
<1>4. CASE n < 0
  BY <1>2, <1>3, <1>4, DgaLengths DEF Generated, BadKnobs
<1>5. CASE n >= 0
  <2>1. Returns(Query({n}, NoSize, TRUE))
    <3>1. ~(n < 0)
      BY <1>3, <1>5
    <3> QED
      BY <1>2, <3>1, Zenon DEF Generated
  <2>2. n \in 1 .. LabelMax \/ OverLimit
    BY <1>3, DgaLengths DEF OverLimit, LabelMax
  <2>3. Plain(Query({n}, NoSize, TRUE))
    <3>1. n \in Nat /\ TRUE \in BOOLEAN
      BY <1>3, <1>5
    <3> QED
      BY <3>1, <2>2, PlainLabel, Zenon
  <2> QED
    BY <2>1, <2>3
<1> QED
  BY <1>3, <1>4, <1>5

\* The remainder of Go is within the divisor, on either side of zero.
LEMMA ModRange == ASSUME NEW n \in Int PROVE Mod(n, 63) \in -62 .. 62
BY DEF Mod

\* What exotic does, likewise.
LEMMA ExoticQuery ==
    ASSUME knobs \in KnobType, ExoticCall
    PROVE  (Panics /\ BadKnobs) \/ \E q : Plain(q) /\ Returns(q)
<1>1. knobs.exoMin \in Int /\ knobs.exoMax \in Int /\ ExoMax \in Int
      /\ Records \subseteq {"TXT", "CNAME", "NULL"}
  BY DEF KnobType, ExoMax, Records
<1>2. PICK t \in Records, n \in Draw(knobs.exoMin, ExoMax) :
        CASE t = "CNAME" -> Returns(Query({RandLabel(Mod(n, 63) + 1)}, NoSize, TRUE))
          [] t = "NULL" -> IF n < 0 THEN Panics ELSE Returns(NullQuery(n))
          [] t = "TXT" -> Returns(Query({}, RandLabel(n), TRUE))
  BY DEF ExoticCall
<1>3. n \in Int /\ knobs.exoMin <= n /\ n < ExoMax
  BY <1>1 DEF Draw
<1>4. CASE t = "CNAME"
  <2>1. RandLabel(Mod(n, 63) + 1) \in 1 .. LabelMax
    BY <1>3, ModRange DEF RandLabel, Atleast, LabelMax
  <2>2. Plain(Query({RandLabel(Mod(n, 63) + 1)}, NoSize, TRUE))
    <3>1. RandLabel(Mod(n, 63) + 1) \in Nat /\ TRUE \in BOOLEAN
      BY <2>1 DEF LabelMax
    <3> QED
      BY <2>1, <3>1, PlainLabel, Zenon
  <2> QED
    BY <1>2, <1>4, <2>2
<1>5. CASE t = "NULL"
  <2>1. ~(n < 0) => Plain(NullQuery(n))
    <3>1. n <= RdataMax \/ OverLimit
      BY <1>1, <1>3, <1>5 DEF OverLimit, RdataMax
    <3> QED
      BY <1>3, <3>1, PlainNull
  <2> QED
    <3>1. n < 0 => BadKnobs
      BY <1>1, <1>3 DEF BadKnobs
    <3>2. IF n < 0 THEN Panics ELSE Returns(NullQuery(n))
      BY <1>2, <1>5, Zenon
    <3> QED
      BY <2>1, <3>1, <3>2, Zenon
<1>6. CASE t = "TXT"
  <2>1. RandLabel(n) \in Nat /\ (RandLabel(n) <= StringMax \/ OverLimit)
    BY <1>1, <1>3, <1>6 DEF RandLabel, Atleast, OverLimit, StringMax
  <2>2. Plain(Query({}, RandLabel(n), TRUE))
    BY <2>1, PlainTxt
  <2> QED
    BY <1>2, <1>6, <2>2
<1> QED
  BY <1>1, <1>4, <1>5, <1>6

\* A call of any generator panics for a bad setting, makes a plain query, or
\* takes the exfil session on.
LEMMA NextCases ==
    ASSUME knobs \in KnobType, NextCall
    PROVE  \/ Panics /\ BadKnobs
           \/ \E q : Plain(q) /\ Returns(q)
           \/ ExfilCall
<1>1. ASSUME NEW b \in BOOLEAN PROVE Plain(Query({}, NoSize, b))
  BY PlainTxt DEF NoSize, StringMax
<1>2. ASSUME NEW b \in BOOLEAN PROVE Plain(Query({8}, NoSize, b))
  BY PlainLabel DEF LabelMax
<1>3. CASE BackgroundNext
  BY <1>3, PlainAnswer DEF BackgroundNext, BadKnobs
<1>4. CASE WellKnownNext
  BY <1>4, PlainAnswer DEF WellKnownNext, BadKnobs
<1>5. CASE FastFluxNext
  BY <1>1, <1>5 DEF FastFluxNext
<1>6. CASE DynDnsNext
  BY <1>2, <1>6 DEF DynDnsNext
<1>7. CASE DgaNext \/ ExoticNext \/ ExfilNext \/ EvasionNext
  BY <1>7, DgaQuery, ExoticQuery DEF DgaNext, ExoticNext, ExfilNext, EvasionNext
<1> QED
  BY <1>3, <1>4, <1>5, <1>6, <1>7 DEF NextCall

-----------------------------------------------------------------------------
\* The numbers of the session: every chunk but its last one is full.
Chunks == /\ cursor <= size
          /\ ChunkSize * (seq - 1) <= cursor /\ cursor <= ChunkSize * seq
          /\ seq > 0 => ChunkSize * (seq - 1) < cursor
          /\ cursor < size => cursor = ChunkSize * seq

\* What was queued of the session lags behind it by the query at hand.
Level(total) == /\ last = seq
                /\ knobs.tool # "iodine" => carried = total
                /\ knobs.tool = "iodine" =>
                     IF total < size THEN carried = 0 ELSE carried < ChunkSize

Queued ==
    /\ ZoneShort /\ pc \in {"new", "pick", "next"} => Level(cursor)
    /\ ZoneShort /\ pc \in {"build", "queue"} =>
         IF query.seq = 0 THEN Level(cursor)
         ELSE /\ query.seq = seq /\ seq = last + 1 /\ Packs(query)
              /\ query.chunk \in 1 .. ChunkSize
              /\ cursor < size => query.chunk = ChunkSize
              /\ knobs.tool # "iodine" => carried + query.chunk = cursor
              /\ knobs.tool = "iodine" => carried = 0

SessionInv == Chunks /\ Queued

LEMMA ChunkSize30 == ChunkSize = 30
BY DEF ChunkSize

\* A new session has at least one byte and no more than the cap.
LEMMA SessionSizeRange ==
    ASSUME knobs \in KnobType PROVE SessionSize \in 1 .. SessionCap
BY TrafficAssumption DEF KnobType, SessionSize, Atmost

\* The label of a chunk is neither empty nor too long, with every tool.
LEMMA LabelRange ==
    ASSUME knobs \in KnobType, NEW n \in 1 .. 30
    PROVE  Label(n) \in 1 .. LabelMax
<1>1. knobs.tool \in {"dnscat2", "iodine", "raw-b32"}
  BY DEF KnobType, Tools
<1>2. Encoded(n) \in Nat /\ Encoded(n) >= 1
  BY <1>1 DEF Encoded, Base32, Gzip
<1> QED
  BY <1>2 DEF Label, Atmost, LabelMax

\* Hex and base32 of a chunk fit the label; iodine's coding of a full one does not.
LEMMA CarriedRange ==
    ASSUME knobs \in KnobType, NEW n \in 1 .. 30
    PROVE  /\ Carried(n) \in {0, n}
           /\ knobs.tool # "iodine" => Carried(n) = n
           /\ knobs.tool = "iodine" /\ n = 30 => Carried(n) = 0
<1>1. knobs.tool \in {"dnscat2", "iodine", "raw-b32"}
  BY DEF KnobType, Tools
<1>2. knobs.tool = "dnscat2" => Encoded(n) <= LabelMax
  BY DEF Encoded, LabelMax
<1>3. knobs.tool = "raw-b32" => Encoded(n) <= LabelMax
  BY DEF Encoded, Base32, LabelMax
<1>4. knobs.tool = "iodine" /\ n = 30 => ~(Encoded(n) <= LabelMax)
  BY DEF Encoded, Base32, Gzip, LabelMax
<1> QED
  BY <1>1, <1>2, <1>3, <1>4 DEF Carried

\* A chunk of the bytes from start to end, the k-th of a session of total bytes.
LEMMA ExfilSends ==
    ASSUME knobs \in KnobType, knobs' = knobs, NEW k \in Nat \ {0},
           NEW start \in Nat, NEW end \in Nat, NEW total \in 0 .. SessionCap,
           start = 30 * (k - 1), start < end, end <= start + 30, end <= total,
           end < total => end = start + 30,
           size' = total, cursor' = end, seq' = k, carried' \in Nat, last' \in Nat,
           ZoneShort => /\ last' = k - 1
                        /\ knobs.tool # "iodine" => carried' = start
                        /\ knobs.tool = "iodine" => carried' = 0,
           query' = ExfilQuery(end - start, k), pc' = "build"
    PROVE  /\ size' \in 0 .. SessionCap /\ cursor' \in Nat /\ seq' \in Nat
           /\ query' \in QueryType /\ (ZoneShort => Packs(query')) /\ SessionInv'
<1>1. Label(end - start) \in 1 .. LabelMax /\ end - start \in 1 .. 30
  BY LabelRange
<1>2. /\ query'.seq = k /\ query'.chunk = end - start /\ query'.txt = 0 /\ query'.rdata = 0
      /\ query'.labels = {Label(end - start)} /\ query' \in QueryType
  BY <1>1 DEF ExfilQuery, QueryType, NoSize, LabelMax
<1>3. ZoneShort => Packs(query')
  <2>1. query'.labels \subseteq 1 .. LabelMax
    BY <1>1, <1>2
  <2>2. ZoneShort => NamesFit(query')
    BY <2>1, ShortNames
  <2>3. Fits(query')
    BY <1>2, <2>1 DEF Fits, StringMax, RdataMax
  <2> QED
    BY <2>2, <2>3 DEF Packs
<1>4. Chunks'
  BY ChunkSize30 DEF Chunks
<1>5. Queued'
  <2>1. ZoneShort' <=> ZoneShort
    BY DEF ZoneShort
  <2>2. Packs(query)' <=> Packs(query')
    BY DEF Packs, Fits, NamesFit
  <2>3. ZoneShort => /\ query'.seq = seq' /\ seq' = last' + 1 /\ Packs(query)'
                     /\ query'.chunk \in 1 .. 30
                     /\ cursor' < size' => query'.chunk = 30
    BY <1>1, <1>2, <1>3, <2>2
  <2>4. ZoneShort => /\ knobs'.tool # "iodine" => carried' + query'.chunk = cursor'
                     /\ knobs'.tool = "iodine" => carried' = 0
    BY <1>2
  <2> QED
    BY <1>2, <2>1, <2>3, <2>4, ChunkSize30 DEF Queued
<1> QED
  BY <1>2, <1>3, <1>4, <1>5 DEF SessionInv

\* One call of exfil: the next bytes of the session, or the first of a new one.
LEMMA ExfilChunk ==
    ASSUME TypeOK, SessionInv, ExfilCall, pc = "next"
    PROVE  /\ size' \in 0 .. SessionCap /\ cursor' \in Nat /\ seq' \in Nat
           /\ carried' \in Nat /\ last' \in Nat
           /\ query' \in QueryType /\ (ZoneShort => Packs(query')) /\ pc' = "build"
           /\ SessionInv'
<1>1. knobs \in KnobType /\ knobs' = knobs
  BY KnobsTyped DEF TypeOK, ExfilCall
<1>2. SessionSize \in 1 .. SessionCap /\ SessionCap \in Nat
  BY <1>1, SessionSizeRange, TrafficAssumption
<1>3. /\ size \in 0 .. SessionCap /\ cursor \in Nat /\ seq \in Nat
      /\ carried \in Nat /\ last \in Nat
      /\ ZoneShort => Level(cursor)
  BY DEF TypeOK, SessionInv, Queued
<1>4. CASE cursor >= size
  <2>1. PICK end \in Nat : end = Atmost(30, SessionSize)
    BY <1>2 DEF Atmost
  <2>2. 1 \in Nat \ {0} /\ 0 \in Nat /\ SessionSize \in 0 .. SessionCap /\ 0 = 30 * (1 - 1)
        /\ 0 < end /\ end <= 0 + 30 /\ end <= SessionSize
        /\ (end < SessionSize => end = 0 + 30)
    BY <1>2, <2>1 DEF Atmost
  <2>3. Atmost(0 + ChunkSize, SessionSize) = end /\ 0 + 1 = 1 /\ 0 = 1 - 1
    BY <2>1, ChunkSize30
  <2>4. /\ size' = SessionSize /\ cursor' = end /\ seq' = 1
        /\ carried' = 0 /\ last' = 0
        /\ query' = ExfilQuery(end - 0, 1) /\ pc' = "build"
    BY <1>4, <2>3 DEF ExfilCall
  <2>5. /\ carried' \in Nat /\ last' \in Nat /\ last' = 1 - 1
        /\ carried' = 0
    BY <2>3, <2>4
  <2>6. /\ size' \in 0 .. SessionCap /\ cursor' \in Nat /\ seq' \in Nat
        /\ query' \in QueryType /\ (ZoneShort => Packs(query')) /\ SessionInv'
    BY <1>1, <2>2, <2>4, <2>5, ExfilSends, Zenon
  <2> QED
    BY <2>4, <2>5, <2>6
<1>5. CASE cursor < size
  <2>1. PICK end \in Nat : end = Atmost(cursor + 30, size)
    BY <1>3 DEF Atmost
  <2>2. PICK k \in Nat \ {0} : k = seq + 1
    BY <1>3
  <2>3. cursor = 30 * (k - 1) /\ cursor < end /\ end <= cursor + 30 /\ end <= size
        /\ (end < size => end = cursor + 30)
    BY <1>3, <1>5, <2>1, <2>2, ChunkSize30 DEF SessionInv, Chunks, Atmost
  <2>4. ~(cursor >= size) /\ Atmost(cursor + ChunkSize, size) = end /\ seq = k - 1
    BY <1>3, <1>5, <2>1, <2>2, ChunkSize30
  <2>5. /\ size' = size /\ cursor' = end /\ seq' = k
        /\ carried' = carried /\ last' = last
        /\ query' = ExfilQuery(end - cursor, k) /\ pc' = "build"
    BY <1>3, <2>2, <2>4 DEF ExfilCall, history
  <2>6. /\ carried' \in Nat /\ last' \in Nat
        /\ ZoneShort => /\ last' = k - 1
                        /\ knobs.tool # "iodine" => carried' = cursor
                        /\ knobs.tool = "iodine" => carried' = 0
    BY <1>3, <1>5, <2>4, <2>5 DEF Level
  <2>7. /\ size' \in 0 .. SessionCap /\ cursor' \in Nat /\ seq' \in Nat
        /\ query' \in QueryType /\ (ZoneShort => Packs(query')) /\ SessionInv'
    BY <1>1, <1>3, <2>3, <2>5, <2>6, ExfilSends, Zenon
  <2> QED
    BY <2>5, <2>6, <2>7
<1> QED
  BY <1>3, <1>4, <1>5

-----------------------------------------------------------------------------
\* The invariants.

IInv == TypeOK /\ SessionInv /\ LostOnlyOverLimit /\ PanicOnlyBadKnobs

LEMMA InitInvariant == Init => IInv
<1> SUFFICES ASSUME Init PROVE IInv
  OBVIOUS
<1>1. query \in QueryType /\ query.seq = 0
  BY DEF Init, NoQuery, Query, QueryType, NoSize
<1>2. TypeOK
  BY <1>1, TrafficAssumption DEF Init, TypeOK, PCs, Slots, Construction
<1>3. SessionInv
  BY ChunkSize30 DEF Init, SessionInv, Chunks, Queued, Level
<1> QED
  BY <1>2, <1>3 DEF Init, IInv, LostOnlyOverLimit, PanicOnlyBadKnobs

\* What the steps that make no query need, wherever the builder goes next.
LEMMA NoNewQuery ==
    ASSUME IInv, UNCHANGED <<knobs, session>>, pc' \in PCs,
           pc' # "panic", pc' = "build" => pc = "build" /\ query' = query,
           gen' \in Slots, which' \in 1 .. Len(Construction), pool' \in 0 .. Hosts,
           query' \in QueryType, carried' \in Nat, last' \in Nat, Queued'
    PROVE  IInv'
<1>1. TypeOK'
  BY DEF IInv, TypeOK, session
<1>2. SessionInv'
  BY DEF IInv, SessionInv, Chunks, session
<1>3. LostOnlyOverLimit'
  BY DEF IInv, LostOnlyOverLimit, Packs, Fits, NamesFit, Records, ExoMax, DgaMax, ZoneShort
<1> QED
  BY <1>1, <1>2, <1>3 DEF IInv, PanicOnlyBadKnobs

LEMMA NewKeeps == ASSUME IInv, NewStep PROVE IInv'
<1> USE DEF IInv, TypeOK, SessionInv
<1>1. CASE PoolDraw
  <2>1. pool' \in 0 .. Hosts
    BY <1>1, TrafficAssumption DEF PoolDraw
  <2>2. Queued'
    BY <1>1 DEF PoolDraw, Queued, Level, ZoneShort, session, history
  <2> QED
    BY <1>1, <2>1, <2>2, NoNewQuery DEF PoolDraw, session, history
<1>2. CASE PoolEnough \/ FluxPool
  <2>1. /\ UNCHANGED <<knobs, gen, query, session, history>>
        /\ pc = "new" /\ pc' \in {"new", "pick", "failed"}
        /\ which' \in 1 .. Len(Construction) /\ pool' \in 0 .. Hosts
    BY <1>2, TrafficAssumption DEF PoolEnough, FluxPool, NextUnder, Construction
  <2>2. Queued'
    BY <2>1 DEF Queued, Level, ZoneShort, session, history
  <2> QED
    BY <2>1, <2>2, NoNewQuery DEF PCs, session, history
<1> QED
  BY <1>1, <1>2 DEF NewStep

LEMMA NextKeeps == ASSUME IInv, NextCall PROVE IInv'
<1>1. pc = "next" /\ knobs \in KnobType
  <2>1. pc = "next"
    BY DEF NextCall, BackgroundNext, WellKnownNext, FastFluxNext, DynDnsNext,
           DgaNext, ExfilNext, ExoticNext, EvasionNext, At
  <2> QED
    BY <2>1, KnobsTyped DEF IInv, TypeOK
<1>2. CASE Panics /\ BadKnobs
  <2>1. TypeOK'
    BY <1>2 DEF IInv, TypeOK, Panics, PCs, session, history
  <2>2. SessionInv'
    BY <1>2 DEF IInv, SessionInv, Chunks, Queued, Level, ZoneShort, history, Panics, session
  <2>3. LostOnlyOverLimit' /\ PanicOnlyBadKnobs'
    BY <1>2 DEF Panics, BadKnobs, LostOnlyOverLimit, PanicOnlyBadKnobs
  <2> QED
    BY <2>1, <2>2, <2>3 DEF IInv
<1>3. ASSUME NEW q, Plain(q), Returns(q) PROVE IInv'
  <2>1. TypeOK'
    BY <1>3 DEF IInv, TypeOK, Returns, Plain, PCs, session, history
  <2>2. SessionInv'
    BY <1>1, <1>3 DEF IInv, SessionInv, Chunks, Queued, Level, ZoneShort, Returns, Plain, session,
                     history
  <2>3. LostOnlyOverLimit'
    BY <1>3 DEF Returns, Plain, OverLimit, Packs, Fits, NamesFit, LostOnlyOverLimit, Records,
                ExoMax, DgaMax, ZoneShort
  <2> QED
    BY <1>3, <2>1, <2>2, <2>3 DEF IInv, Returns, PanicOnlyBadKnobs
<1>4. CASE ExfilCall
  <2>1. /\ size' \in 0 .. SessionCap /\ cursor' \in Nat /\ seq' \in Nat
        /\ carried' \in Nat /\ last' \in Nat
        /\ query' \in QueryType /\ (ZoneShort => Packs(query')) /\ pc' = "build" /\ SessionInv'
    BY <1>1, <1>4, ExfilChunk DEF IInv
  <2>2. UNCHANGED <<knobs, which, pool, gen>>
    BY <1>4 DEF ExfilCall
  <2>3. TypeOK'
    BY <2>1, <2>2 DEF IInv, TypeOK, PCs
  <2>4. LostOnlyOverLimit' /\ PanicOnlyBadKnobs'
    BY <2>1, <2>2 DEF LostOnlyOverLimit, PanicOnlyBadKnobs, Packs, Fits, NamesFit, ZoneShort
  <2> QED
    BY <2>1, <2>3, <2>4 DEF IInv
<1> QED
  BY <1>1, <1>2, <1>3, <1>4, NextCases

LEMMA FrameKeeps ==
    ASSUME IInv, BuildOk \/ BuildFails \/ Queue \/ Cancelled PROVE IInv'
<1> USE DEF IInv, TypeOK, PCs, SessionInv
<1>1. NoQuery \in QueryType
  BY DEF NoQuery, Query, QueryType, NoSize
<1>2. CASE BuildOk
  <2>1. Queued'
    BY <1>2 DEF BuildOk, Queued, Level, Packs, Fits, NamesFit, ZoneShort, session, history
  <2> QED
    BY <1>2, <2>1, NoNewQuery DEF BuildOk, session, history
<1>3. CASE BuildFails
  <2>1. Queued'
    BY <1>3 DEF BuildFails, Queued, Level, Packs, Fits, NamesFit, ZoneShort, NoQuery, Query,
                session, history
  <2> QED
    BY <1>1, <1>3, <2>1, NoNewQuery DEF BuildFails, session, history
<1>4. CASE Queue
  <2>1. query.chunk \in Nat /\ query.seq \in Nat
    BY DEF QueryType
  <2>2. pc = "queue" /\ pc' = "pick" /\ query' = NoQuery /\ UNCHANGED <<knobs, which, pool, gen, session>>
    BY <1>4 DEF Queue
  <2>3. IF query.seq > 0 THEN carried' = carried + Carried(query.chunk) /\ last' = query.seq
        ELSE carried' = carried /\ last' = last
    BY <1>4 DEF Queue, history
  <2>4. Carried(query.chunk) \in Nat
    BY <2>1 DEF Carried
  <2>5. carried' \in Nat /\ last' \in Nat
    BY <2>1, <2>3, <2>4
  <2>6. ASSUME ZoneShort, query.seq > 0 PROVE Level(cursor)'
    <3>1. /\ query.seq = seq /\ query.chunk \in 1 .. 30
          /\ cursor < size => query.chunk = 30
          /\ knobs.tool # "iodine" => carried + query.chunk = cursor
          /\ knobs.tool = "iodine" => carried = 0
      BY <2>1, <2>2, <2>6, ChunkSize30 DEF Queued
    <3>2. /\ Carried(query.chunk) \in {0, query.chunk}
          /\ knobs.tool # "iodine" => Carried(query.chunk) = query.chunk
          /\ knobs.tool = "iodine" /\ query.chunk = 30 => Carried(query.chunk) = 0
      BY <3>1, KnobsTyped, CarriedRange
    <3>3. last' = seq /\ carried' = carried + Carried(query.chunk)
      BY <2>3, <2>6, <3>1
    <3>4. knobs' = knobs /\ size' = size /\ cursor' = cursor /\ seq' = seq
      BY <2>2 DEF session
    <3>5. knobs.tool # "iodine" => carried' = cursor
      BY <3>1, <3>2, <3>3
    <3>6. knobs.tool = "iodine" => IF cursor < size THEN carried' = 0 ELSE carried' < 30
      <4> SUFFICES ASSUME knobs.tool = "iodine" PROVE (cursor < size => carried' = 0) /\ carried' < 30
        BY Zenon
      <4>1. carried' = 0 + Carried(query.chunk)
        BY <3>1, <3>3
      <4>2. carried' = Carried(query.chunk) /\ carried' \in {0, query.chunk}
        BY <2>4, <3>2, <4>1
      <4>3. query.chunk = 30 => carried' = 0
        BY <3>2, <4>2
      <4>4. \A q \in 1 .. 30 : \A x \in {0, q} : (q = 30 => x = 0) => x < 30
        OBVIOUS
      <4>5. carried' < 30
        BY <3>1, <4>2, <4>3, <4>4, Zenon
      <4> QED
        BY <3>1, <4>3, <4>5, Zenon
    <3> QED
      BY <3>3, <3>4, <3>5, <3>6, ChunkSize30 DEF Level
  <2>7. ASSUME ZoneShort, ~(query.seq > 0) PROVE Level(cursor)'
    BY <2>1, <2>2, <2>3, <2>7 DEF Queued, Level, session
  <2>8. Queued'
    BY <2>2, <2>6, <2>7 DEF Queued, ZoneShort, session
  <2> QED
    BY <1>1, <2>2, <2>5, <2>8, NoNewQuery DEF session
<1>5. CASE Cancelled
  <2>1. Queued'
    BY <1>5 DEF Cancelled, Queued, Level, ZoneShort
  <2> QED
    BY <1>5, <2>1, NoNewQuery DEF Cancelled, session, history
<1> QED
  BY <1>2, <1>3, <1>4, <1>5

LEMMA NextInvariant == IInv /\ [Next]_vars => IInv'
<1> SUFFICES ASSUME IInv, [Next]_vars PROVE IInv'
  OBVIOUS
<1>1. ASSUME NEW g \in Slots, Pick(g) PROVE IInv'
  <2>1. Queued'
    BY <1>1 DEF IInv, SessionInv, Pick, Queued, Level, ZoneShort, session, history
  <2> QED
    BY <1>1, <2>1, NoNewQuery DEF IInv, TypeOK, Pick, PCs, session, history
<1>2. CASE UNCHANGED vars
  BY <1>2 DEF vars, session, history, IInv, TypeOK, SessionInv, Chunks, Queued,
              Level, LostOnlyOverLimit, PanicOnlyBadKnobs, Packs, Fits, NamesFit, ZoneShort,
              Records, ExoMax, DgaMax
<1> QED
  BY <1>1, <1>2, NewKeeps, NextKeeps, FrameKeeps DEF Next

LEMMA Invariant == Spec => []IInv
BY InitInvariant, NextInvariant, PTL DEF Spec

\* Every variable keeps its type; a session stays within its cap, whatever
\* payload_bytes is (exfil.go makePayload).
THEOREM TypeCorrect == Spec => []TypeOK
<1>1. IInv => TypeOK
  BY DEF IInv
<1> QED
  BY <1>1, Invariant, PTL

\* The session that exfil and evasion share is queued once, in order and numbered
\* without a gap, for every size, profile and mix of the two: all of it with
\* dnscat2 and raw-b32, and with iodine, whose labels are cut, at most a short
\* last chunk, as long as no label makes a name too long.
THEOREM SessionDelivered == Spec => []SessionSent
<1>1. IInv => SessionSent
  <2> SUFFICES ASSUME IInv PROVE SessionSent
    OBVIOUS
  <2>1. query.seq \in Nat
    BY DEF IInv, TypeOK, QueryType
  <2> QED
    BY <2>1 DEF IInv, SessionInv, Chunks, Queued, Level, SessionSent
<1> QED
  BY <1>1, Invariant, PTL

\* A frame is lost in a builder only for a TXT string over 255 bytes, a NULL
\* record over 65535, DGA lengths below 1, which may make an empty label, or over
\* 63, or names that a label makes longer than 255 (producer.go buildLoop drops
\* it in silence).
THEOREM LossExplained == Spec => []LostOnlyOverLimit
<1>1. IInv => LostOnlyOverLimit
  BY DEF IInv
<1> QED
  BY <1>1, Invariant, PTL

\* A generator panics only for a Zipf skew of 1 or less or a negative length;
\* empty and reversed ranges are put right in time (dga.go, exotic.go).
THEOREM PanicExplained == Spec => []PanicOnlyBadKnobs
<1>1. IInv => PanicOnlyBadKnobs
  BY DEF IInv
<1> QED
  BY <1>1, Invariant, PTL
=============================================================================
