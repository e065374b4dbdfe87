------------------------------ MODULE Traffic ------------------------------
(***************************************************************************)
(* internal/pattern, with internal/dns and internal/dnstap: what one       *)
(* builder sends.  Its mixer's generators are constructed, one of them is  *)
(* picked for each frame (Mixer says which), its query is packed, and the  *)
(* frame is queued or silently given up.  The exfil generator and its      *)
(* session are shared with evasion.  A name is the length of the label that*)
(* is put before a name of the lists or the settings, and the length of    *)
(* that name.                                                              *)
(***************************************************************************)
EXTENDS Integers, Sequences

CONSTANTS
    KnobSpace,       \* the settings a start may find in State
    DefaultSession,  \* bytes of a session when payload_bytes is not positive
    SessionCap,      \* the most a session has, 1 MiB in the code
    PoolSizes,       \* how many clients background, dga and exotic ask for
    Hosts,           \* how many there are, 255 in the code
    PoolStop         \* a pool above this size stops at a duplicate

Families == {"suppobox", "necurs", "pykspa", "conficker", "mixed"}
Tools    == {"dnscat2", "iodine", "raw-b32"}
Profiles == {"off", "light", "medium", "heavy"}
Qtypes   == {"A", "AAAA", "NS", "CNAME", "PTR", "MX", "TXT", "SRV", "SVCB",
             "HTTPS", "NULL"}
KnobType == [alphaOver1 : BOOLEAN, qtypes : SUBSET Qtypes, cidrOk : BOOLEAN,
             family : Families, dgaMin : Int, dgaMax : Int,
             tool : Tools, payload : Int,
             records : SUBSET {"TXT", "CNAME", "NULL"}, exoMin : Int, exoMax : Int,
             profile : Profiles, zone : Nat]

ASSUME TrafficAssumption ==
    /\ KnobSpace \subseteq KnobType
    /\ DefaultSession \in Nat \ {0} /\ SessionCap \in Nat \ {0}
    /\ PoolSizes \in [{"background", "dga", "exotic"} -> Nat \ {0}]
    /\ Hosts \in Nat /\ PoolStop \in Nat /\ PoolStop < Hosts

\* The slots of NewWithPatterns.
Slots == {"background", "wellknown", "dga", "fastflux", "dyndns", "exfil",
          "exotic", "evasion"}
\* What has to be built for them, in that order, when it can fail or take time.
Construction == <<"background", "dga", "fastflux", "exotic">>

ChunkSize == 30
LabelMax  == 63     \* of a DNS label
NameMax   == 255    \* of a DNS name
StringMax == 255    \* of a string in a TXT record
RdataMax  == 65535  \* of the data of a record
NoSize    == 0

VARIABLES
    \* State's settings of the patterns; "zone" is the length of the names in the
    \* lists and settings, over NameMax when they are no names at all
    knobs,
    pc,           \* where the builder is
    which, pool,  \* the generator under construction, its clients so far
    gen,          \* the slot that was picked
    query,        \* what its Next returned
    size, cursor, seq,  \* the exfil session: its bytes, those used, the chunks
    carried, last       \* history: its bytes that were queued in a label that
                        \* was not cut, and the last chunk that was queued

session == <<size, cursor, seq>>
history == <<carried, last>>
vars == <<knobs, pc, which, pool, gen, query, session, history>>

\* A query: the labels put before a name in it, its TXT string, the data of its
\* NULL record, whether it has an answer; the bytes and the number of the chunk
\* when it is exfil's.
Query(labels, txt, answered) ==
    [labels |-> labels, txt |-> txt, rdata |-> NoSize, answered |-> answered,
     chunk |-> 0, seq |-> 0]
NullQuery(n) ==
    [labels |-> {}, txt |-> NoSize, rdata |-> n, answered |-> TRUE, chunk |-> 0, seq |-> 0]
NoQuery == Query({}, NoSize, FALSE)

Init ==
    /\ knobs \in KnobSpace
    /\ pc = "new" /\ which = 1 /\ pool = 0 /\ gen = "background" /\ query = NoQuery
    /\ size = 0 /\ cursor = 0 /\ seq = 0 /\ carried = 0 /\ last = 0

Atmost(a, b) == IF a <= b THEN a ELSE b
Atleast(a, b) == IF a >= b THEN a ELSE b

\* lo + IntN(hi - lo), which panics when there is nothing to draw from.
Draw(lo, hi) == lo .. hi - 1

-----------------------------------------------------------------------------
(* Construction: NewWithPatterns.                                          *)

Under == Construction[which]
NextUnder ==
    IF which < Len(Construction)
      THEN which' = which + 1 /\ pool' = 0 /\ UNCHANGED pc
      ELSE pc' = "pick" /\ UNCHANGED <<which, pool>>

\* mutant: only the size that was asked for ends the loop
PoolEnoughExact == pool >= PoolSizes[Under]

PoolIsEnough == pool >= PoolSizes[Under] \/ pool > PoolStop

\* makeClientPool: a random address that is not in the pool yet...
PoolDraw ==
    /\ pc = "new" /\ Under # "fastflux"
    /\ pool < PoolSizes[Under] /\ pool < Hosts
    /\ pool' = pool + 1
    /\ UNCHANGED <<knobs, pc, which, gen, query, session, history>>

\* ...or one that is, which ends the loop when the pool is large; otherwise the
\* draw changes nothing.
PoolEnough ==
    /\ pc = "new" /\ Under # "fastflux"
    /\ PoolIsEnough
    /\ NextUnder
    /\ UNCHANGED <<knobs, gen, query, session, history>>

\* NewFastFlux: no CIDR, or none with IPv4 addresses in it, and there is no mixer.
FluxPool ==
    /\ pc = "new" /\ Under = "fastflux"
    /\ IF knobs.cidrOk THEN NextUnder ELSE pc' = "failed" /\ UNCHANGED <<which, pool>>
    /\ UNCHANGED <<knobs, gen, query, session, history>>

-----------------------------------------------------------------------------
(* The generators.                                                         *)

Pick(g) ==
    /\ pc = "pick"
    /\ gen' = g /\ pc' = "next"
    /\ UNCHANGED <<knobs, which, pool, query, session, history>>

Returns(q) ==
    /\ query' = q /\ pc' = "build"
    /\ UNCHANGED <<knobs, which, pool, gen, session, history>>

Panics ==
    /\ pc' = "panic"
    /\ UNCHANGED <<knobs, which, pool, gen, query, session, history>>

At(slots) == pc = "next" /\ gen \in slots

\* NewZipf answers nil for a skew of 1 or less, and Next calls it; synthAnswer
\* knows no answer for NULL, and puts "alias", "mail", "host" or "ns1" before the
\* name in some.
AnswerLabels(qt) ==
    CASE qt = "CNAME" -> {5} [] qt \in {"MX", "PTR"} -> {4} [] qt = "NS" -> {3}
      [] OTHER -> {}
QtypeBag == IF knobs.qtypes = {} THEN {"A"} ELSE knobs.qtypes
BackgroundNext ==
    /\ At({"background"})
    /\ IF knobs.alphaOver1
         THEN \E qt \in QtypeBag : Returns(Query(AnswerLabels(qt), NoSize, qt # "NULL"))
         ELSE Panics

\* Twelve hex digits are put before the name, or are not.
WellKnownNext ==
    /\ At({"wellknown"})
    /\ IF knobs.alphaOver1
         THEN \E qt \in QtypeBag, labels \in {{}, {12}} :
                Returns(Query(labels \cup AnswerLabels(qt), NoSize, qt # "NULL"))
         ELSE Panics

FastFluxNext == At({"fastflux"}) /\ Returns(Query({}, NoSize, TRUE))
DynDnsNext   == At({"dyndns"}) /\ Returns(Query({8}, NoSize, TRUE))

\* The lengths of a family's labels: necurs has a least length of its own,
\* suppobox puts two of its words together.
\* mutant: a range without a length in it is left as it is
DgaMaxAsGiven == knobs.dgaMax

NecursMin == Atleast(knobs.dgaMin, 16)
DgaMax    == IF knobs.dgaMax <= knobs.dgaMin THEN knobs.dgaMin + 1 ELSE knobs.dgaMax
NecursMax == IF DgaMax <= NecursMin THEN NecursMin + 4 ELSE DgaMax
LengthsOf(family) ==
    CASE family = "suppobox" -> 10 .. 20
      [] family = "necurs" -> Draw(NecursMin, NecursMax)
      [] family \in {"pykspa", "conficker"} -> Draw(knobs.dgaMin, DgaMax)
FamiliesDrawn == IF knobs.family = "mixed" THEN Families \ {"mixed"} ELSE {knobs.family}

\* make([]byte, n) panics for a negative n.
Generated(n) == IF n < 0 THEN Panics ELSE Returns(Query({n}, NoSize, TRUE))
DgaCall ==
    \E f \in FamiliesDrawn :
        IF LengthsOf(f) = {} THEN Panics ELSE \E n \in LengthsOf(f) : Generated(n)

\* mutant: a size below one is used as it is
RandLabelAsGiven(n) == n

\* randLabel, and % of Go, whose sign is that of the dividend.
RandLabel(n) == Atleast(n, 1)
Mod(a, n) == IF a >= 0 THEN a % n ELSE -((-a) % n)

ExoMax == IF knobs.exoMax <= knobs.exoMin THEN knobs.exoMin + 1 ELSE knobs.exoMax
Records == IF knobs.records = {} THEN {"TXT"} ELSE knobs.records
ExoticCall ==
    \E t \in Records, n \in Draw(knobs.exoMin, ExoMax) :
        CASE t = "CNAME" -> Returns(Query({RandLabel(Mod(n, 63) + 1)}, NoSize, TRUE))
          [] t = "NULL" -> IF n < 0 THEN Panics ELSE Returns(NullQuery(n))
          [] t = "TXT" -> Returns(Query({}, RandLabel(n), TRUE))

\* The label of a chunk of n bytes: hex, base32, or base32 of a four byte number
\* and the compressed chunk, which is longer; never more than a label holds.
Base32(n) == (8 * n + 4) \div 5
Gzip(n)   == n + 28
Encoded(n) ==
    CASE knobs.tool = "dnscat2" -> 2 * n
      [] knobs.tool = "raw-b32" -> Base32(n)
      [] knobs.tool = "iodine" -> Base32(4 + Gzip(n))

\* mutant: the label is not cut
LabelUncut(n) == Encoded(n)

Label(n) == Atmost(Encoded(n), LabelMax)

\* What of a chunk is counted as queued: all of it, or nothing if its label was
\* cut.
Carried(n) == IF Encoded(n) <= LabelMax THEN n ELSE 0

\* makePayload
SessionSize == Atmost(IF knobs.payload <= 0 THEN DefaultSession ELSE knobs.payload,
                      SessionCap)

ExfilQuery(n, number) ==
    [labels |-> {Label(n)}, txt |-> NoSize, rdata |-> NoSize, answered |-> TRUE,
     chunk |-> n, seq |-> number]

\* mutant: a session is over only when more than all of it was used
ExfilCallLate ==
    LET fresh == cursor > size
        total == IF fresh THEN SessionSize ELSE size
        start == IF fresh THEN 0 ELSE cursor
        end   == Atmost(start + ChunkSize, total)
    IN /\ size' = total /\ cursor' = end
       /\ seq' = (IF fresh THEN 0 ELSE seq) + 1
       /\ query' = ExfilQuery(end - start, seq') /\ pc' = "build"
       /\ IF fresh THEN carried' = 0 /\ last' = 0 ELSE UNCHANGED history
       /\ UNCHANGED <<knobs, which, pool, gen>>

\* A session that is used up is replaced and the count starts again.
ExfilCall ==
    LET fresh == cursor >= size
        total == IF fresh THEN SessionSize ELSE size
        start == IF fresh THEN 0 ELSE cursor
        end   == Atmost(start + ChunkSize, total)
    IN /\ size' = total /\ cursor' = end
       /\ seq' = (IF fresh THEN 0 ELSE seq) + 1
       /\ query' = ExfilQuery(end - start, seq') /\ pc' = "build"
       /\ IF fresh THEN carried' = 0 /\ last' = 0 ELSE UNCHANGED history
       /\ UNCHANGED <<knobs, which, pool, gen>>

DgaNext    == At({"dga"}) /\ DgaCall
ExfilNext  == At({"exfil"}) /\ ExfilCall
ExoticNext == At({"exotic"}) /\ ExoticCall

\* evasionWeights: all three have a weight unless the profile is off; then the
\* sum is zero and dga is called.
EvasionNext ==
    /\ At({"evasion"})
    /\ DgaCall \/ (knobs.profile # "off" /\ (ExfilCall \/ ExoticCall))

-----------------------------------------------------------------------------
(* The frame.                                                              *)

\* dns.Builder.Response fails for a label that is empty or too long and for a
\* string or data that does not fit; the dnstap envelope, IPv4 throughout, does
\* not.
Fits(q) == /\ q.labels \subseteq 1 .. LabelMax
           /\ q.txt <= StringMax /\ q.rdata <= RdataMax

\* A name that is too long as a whole may be refused or not: it is the packer's.
NamesFit(q) == /\ knobs.zone <= NameMax
               /\ \A n \in q.labels : n + 1 + knobs.zone <= NameMax

Packs(q) == Fits(q) /\ NamesFit(q)

BuildOk ==
    /\ pc = "build" /\ Fits(query) /\ pc' = "queue"
    /\ UNCHANGED <<knobs, which, pool, gen, query, session, history>>

\* The error is nobody's: the buffer goes back, and the next one is picked.
BuildFails ==
    /\ pc = "build" /\ ~Packs(query) /\ pc' = "pick" /\ query' = NoQuery
    /\ UNCHANGED <<knobs, which, pool, gen, session, history>>

Queue ==
    /\ pc = "queue" /\ pc' = "pick" /\ query' = NoQuery
    /\ IF query.seq > 0
         THEN carried' = carried + Carried(query.chunk) /\ last' = query.seq
         ELSE UNCHANGED history
    /\ UNCHANGED <<knobs, which, pool, gen, session>>

\* ctx is done instead, here or before the pick.
Cancelled ==
    /\ pc \in {"pick", "queue"} /\ pc' = "ended"
    /\ UNCHANGED <<knobs, which, pool, gen, query, session, history>>

NewStep  == PoolDraw \/ PoolEnough \/ FluxPool
NextCall == \/ BackgroundNext \/ WellKnownNext \/ DgaNext \/ FastFluxNext
            \/ DynDnsNext \/ ExfilNext \/ ExoticNext \/ EvasionNext
Next == \/ NewStep \/ (\E g \in Slots : Pick(g)) \/ NextCall
        \/ BuildOk \/ BuildFails \/ Queue \/ Cancelled

Spec == Init /\ [][Next]_vars

\* A random address is new in the end when there are new ones left.
FairSpec == Spec /\ WF_vars(PoolDraw) /\ WF_vars(PoolEnough) /\ WF_vars(FluxPool)

-----------------------------------------------------------------------------
(* Properties.                                                             *)

PCs == {"new", "failed", "pick", "next", "build", "queue", "panic", "ended"}

QueryType == [labels : SUBSET Nat, txt : Nat, rdata : Nat, answered : BOOLEAN, chunk : Nat, seq : Nat]

\* The variables have their types; a session is never longer than the cap.
TypeOK ==
    /\ knobs \in KnobSpace /\ pc \in PCs /\ gen \in Slots
    /\ which \in 1 .. Len(Construction) /\ pool \in 0 .. Hosts
    /\ query \in QueryType
    /\ size \in 0 .. SessionCap /\ cursor \in Nat /\ seq \in Nat
    /\ carried \in Nat /\ last \in Nat

\* No label can make a name too long.
ZoneShort == knobs.zone + 1 + LabelMax <= NameMax

\* A session is queued chunk by chunk, each once, in order and numbered from one
\* without a gap, whichever of exfil and evasion takes the next one: the cursor
\* and the number belong to the generator they share, and no chunk of it is a
\* frame that does not pack.  With hex and base32 every byte is queued; iodine's
\* labels are cut, and only the last chunk of a session, if short, is in one that
\* is not (exfil.go Next, evasion.go Next).
SessionSent ==
    /\ cursor <= size
    /\ ChunkSize * (seq - 1) <= cursor /\ cursor <= ChunkSize * seq
    /\ seq > 0 => ChunkSize * (seq - 1) < cursor
    /\ ZoneShort /\ pc = "pick" =>
         /\ last = seq
         /\ knobs.tool # "iodine" => carried = cursor
         /\ knobs.tool = "iodine" =>
              IF cursor < size THEN carried = 0 ELSE carried < ChunkSize
    /\ ZoneShort /\ pc \in {"build", "queue"} /\ query.seq > 0 =>
         /\ Packs(query) /\ query.seq = last + 1
         /\ knobs.tool # "iodine" => carried + query.chunk = cursor

\* A frame is lost in the builder only when the settings allow a TXT string over
\* 255 bytes, a NULL record over 65535, a generated label that is empty or over
\* 63, or names that a label makes longer than 255: what wellknown, dyndns,
\* fastflux, exfil and the CNAMEs of exotic make fits otherwise (producer.go
\* buildLoop drops what does not build, and counts it nowhere).
LostOnlyOverLimit ==
    pc = "build" /\ ~Packs(query) =>
        \/ "TXT" \in Records /\ ExoMax > StringMax + 1
        \/ "NULL" \in Records /\ ExoMax > RdataMax + 1
        \/ knobs.dgaMin < 1
        \/ DgaMax > LabelMax + 1
        \/ ~ZoneShort

\* A generator panics, and the program with it, only for a Zipf skew of 1 or less
\* or a negative length: ranges that are empty or upside down are put right
\* before anything is drawn from them (dga.go Next, necursLike, exotic.go Next).
PanicOnlyBadKnobs ==
    pc = "panic" => ~knobs.alphaOver1 \/ knobs.dgaMin < 0 \/ knobs.exoMin < 0

\* Every mixer is constructed or refused: the pool of 256 clients that background
\* asks for among 255 addresses does not loop (background.go makeClientPool).
Constructed == <>(pc # "new")

(* Promises that the code does not keep.                                   *)

\* exotic.go:14-16, configs/README.md:115-121: "TXT, CNAME, or NULL records of
\* configurable size"; every query that the generators make becomes a frame.
EveryQueryPacks == pc = "build" => Packs(query)

\* background.go:152-154: "real responses always have at least one answer [...]
\* we follow the convention".
AlwaysAnswered == pc = "build" => query.answered

\* evasion.go:55: "off" disables evasion entirely.
OffIsOff == gen = "evasion" /\ knobs.profile = "off" => pc # "build"

\* exfil.go:18-19: "subdomain labels carry encoded payload bytes"; none is cut.
ChunkCarried == pc = "build" /\ query.seq > 0 => Encoded(query.chunk) <= LabelMax
=============================================================================
