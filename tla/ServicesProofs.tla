---------------------------- MODULE ServicesProofs ----------------------------
(***************************************************************************)
(* Proofs about the services a worker and the queue are built on, for any  *)
(* number of callers, keys, uploads, jobs and finalizers.  Each service    *)
(* has an inductive invariant of its own; they share no state, so the      *)
(* invariants hold side by side.                                           *)
(***************************************************************************)
EXTENDS MCServices, FiniteSetTheorems, FunctionTheorems, SequenceTheorems, TLAPS

\* The numbers up to n are n.
LEMMA CountUpTo ==
  ASSUME NEW n \in Nat
  PROVE  IsFiniteSet(1..n) /\ Cardinality(1..n) = n
<1>1. n \in Int /\ 1 \in Int
  OBVIOUS
<1>2. IsFiniteSet(1..n) /\ Cardinality(1..n) = IF 1 > n THEN 0 ELSE n - 1 + 1
  BY <1>1, FS_Interval
<1> QED
  BY <1>2

\* A sequence and one element more.
LEMMA OneMore ==
  ASSUME NEW S, NEW s \in Seq(S), NEW e \in S, NEW more, more = Append(s, e)
  PROVE  /\ more \in Seq(S) /\ Len(more) = Len(s) + 1 /\ more[Len(s) + 1] = e
         /\ \A k \in 1..Len(s) : more[k] = s[k]
         /\ \A k \in 1..Len(more) : k \in 1..Len(s) \/ k = Len(more)
         /\ more[Len(more)] = e
OBVIOUS

-----------------------------------------------------------------------------
(* The cache of the worker *)

LeadPcs == {"download", "fetch", "warm", "share"}
ByteOnlyPcs == {"heap", "touch", "fetch", "warm", "share"}
Carried == {"good", "unproven"}
CallType ==
  [pc : {"idle", "lookup", "recall", "install", "follow", "heap", "touch"} \cup LeadPcs,
   op : {"none", "path", "get", "file", "put", "again"}, key : Keys \cup {"none"},
   lead : CacheCalls \cup {NoFlight}, bytes : {"none"} \cup Carried]

\* A call in progress has a key, and one about to write has bytes; of a streaming backend,
\* bytes nobody has compared are those of a video PutFile copies.
WellFormed(r) ==
  /\ r \in CallType
  /\ r.pc # "idle" => r.key \in Keys /\ (r.op = "file" => r.key \in Media)
  /\ r.pc \in {"install", "touch", "warm", "share"} => r.bytes \in Carried
  /\ streaming => r.pc \notin ByteOnlyPcs
  /\ streaming /\ r.pc = "install" /\ r.bytes = "unproven" => r.op = "file"

CallsTyped ==
  /\ cacheCall \in [CacheCalls -> CallType] /\ flight \in [Keys -> CacheCalls \cup {NoFlight}]
  /\ \A c \in CacheCalls : WellFormed(cacheCall[c])

\* The flight of a key is led by the one call that downloads it, and whoever follows
\* points to a call that downloads its key.
FlightInv ==
  /\ \A c \in CacheCalls :
       /\ cacheCall[c].pc \in LeadPcs => flight[cacheCall[c].key] = c
       /\ cacheCall[c].pc = "follow" =>
            /\ cacheCall[c].lead \in CacheCalls /\ cacheCall[cacheCall[c].lead].pc \in LeadPcs
            /\ cacheCall[cacheCall[c].lead].key = cacheCall[c].key
  /\ \A k \in Keys : flight[k] # NoFlight => cacheCall[flight[k]].pc \in LeadPcs /\ cacheCall[flight[k]].key = k

\* Bytes a streaming backend keeps have been compared, but for the copies of PutFile.
CachedInv ==
  /\ l2 \in [Keys -> {"none"} \cup Carried]
  /\ streaming => \A k \in Keys : l2[k] = "unproven" => k \in Media
HeapInv ==
  /\ heap \in [Keys -> {"none"} \cup Carried]
  /\ streaming => \A k \in Keys : heap[k] # "unproven"

CacheInv == CallsTyped /\ FlightInv /\ CachedInv /\ HeapInv

LEMMA IdleIsCall == WellFormed(Idle) /\ Idle.pc = "idle" /\ Idle \in CallType
BY DEF Idle, CallType, WellFormed, LeadPcs, ByteOnlyPcs, Carried

LEMMA CacheInvInit == CacheInit => CacheInv
<1> SUFFICES ASSUME CacheInit
             PROVE  CacheInv
  OBVIOUS
<1>1. \A c \in CacheCalls : cacheCall[c] = Idle
  BY DEF CacheInit
<1>2. CallsTyped
  BY <1>1, IdleIsCall DEF CacheInit, CallsTyped
<1>3. FlightInv
  BY <1>1, IdleIsCall DEF CacheInit, FlightInv, LeadPcs
<1>4. CachedInv /\ HeapInv
  BY DEF CacheInit, CachedInv, HeapInv
<1> QED
  BY <1>2, <1>3, <1>4 DEF CacheInv

\* A call moves, and leads a download afterwards if and only if it led it before.
LEMMA CallSteps ==
  ASSUME CallsTyped, FlightInv, NEW c \in CacheCalls, NEW r, WellFormed(r), cacheCall' = [cacheCall EXCEPT ![c] = r],
         cacheCall[c].pc \in LeadPcs \/ r.pc \in LeadPcs =>
           cacheCall[c].pc \in LeadPcs /\ r.pc \in LeadPcs /\ r.key = cacheCall[c].key,
         r.pc = "follow" => r.lead \in CacheCalls /\ cacheCall[r.lead].pc \in LeadPcs /\ cacheCall[r.lead].key = r.key,
         flight' = flight, streaming' = streaming
  PROVE  CallsTyped' /\ FlightInv'
<1>0. r \in CallType
  BY DEF WellFormed
<1>1. cacheCall' \in [CacheCalls -> CallType] /\ cacheCall'[c] = r /\ \A d \in CacheCalls : d # c => cacheCall'[d] = cacheCall[d]
  BY <1>0 DEF CallsTyped
<1>2. CallsTyped'
  <2>1. \A d \in CacheCalls : WellFormed(cacheCall[d])
    BY DEF CallsTyped
  <2>2. \A d \in CacheCalls : cacheCall'[d] = r \/ cacheCall'[d] = cacheCall[d]
    BY <1>1
  <2>3. \A d \in CacheCalls : WellFormed(cacheCall[d])'
    BY <2>1, <2>2 DEF WellFormed
  <2> QED
    BY <1>1, <2>3 DEF CallsTyped
<1>3. \A d \in CacheCalls : cacheCall[d].pc \in LeadPcs => cacheCall'[d].pc \in LeadPcs /\ cacheCall'[d].key = cacheCall[d].key
  BY <1>1
<1>4. ASSUME NEW d \in CacheCalls
      PROVE  /\ cacheCall'[d].pc \in LeadPcs => flight'[cacheCall'[d].key] = d
             /\ cacheCall'[d].pc = "follow" =>
                  /\ cacheCall'[d].lead \in CacheCalls /\ cacheCall'[cacheCall'[d].lead].pc \in LeadPcs
                  /\ cacheCall'[cacheCall'[d].lead].key = cacheCall'[d].key
  <2>1. CASE d = c
    <3>1. r.pc \in LeadPcs => flight[r.key] = c
      BY DEF FlightInv
    <3> QED
      BY <1>1, <1>3, <2>1, <3>1
  <2>2. CASE d # c
    <3>1. cacheCall'[d] = cacheCall[d]
      BY <1>1, <2>2
    <3> QED
      BY <1>3, <3>1 DEF FlightInv
  <2> QED
    BY <2>1, <2>2
<1>5. \A k \in Keys : flight'[k] # NoFlight => cacheCall'[flight'[k]].pc \in LeadPcs /\ cacheCall'[flight'[k]].key = k
  <2> SUFFICES ASSUME NEW k \in Keys, flight[k] # NoFlight
               PROVE  cacheCall'[flight[k]].pc \in LeadPcs /\ cacheCall'[flight[k]].key = k
    OBVIOUS
  <2>1. flight[k] \in CacheCalls
    BY DEF CallsTyped
  <2> QED
    BY <1>3, <2>1 DEF FlightInv
<1> QED
  BY <1>2, <1>4, <1>5 DEF FlightInv

\* A call goes on with the bytes it has, or with others.
LEMMA CarriesMoves ==
  ASSUME CallsTyped, FlightInv, NEW c \in CacheCalls, cacheCall[c].pc # "idle",
         NEW pc \in {"recall", "install", "heap", "touch", "warm", "share"}, NEW bytes \in {"none"} \cup Carried,
         Carries(c, pc, bytes) \/ (Goto2(c, pc) /\ bytes = cacheCall[c].bytes),
         cacheCall[c].pc \in LeadPcs <=> pc \in LeadPcs,
         pc \notin {"recall", "heap"} => bytes \in Carried, streaming => pc \in {"recall", "install"},
         streaming /\ pc = "install" /\ bytes = "unproven" => cacheCall[c].op = "file",
         flight' = flight, streaming' = streaming
  PROVE  CallsTyped' /\ FlightInv'
<1>1. PICK r : r = [cacheCall[c] EXCEPT !.pc = pc, !.bytes = bytes]
  OBVIOUS
<1>2. cacheCall[c] \in CallType /\ WellFormed(cacheCall[c])
  BY DEF CallsTyped
<1>3. r \in CallType /\ r.pc = pc /\ r.bytes = bytes /\ r.key = cacheCall[c].key /\ r.op = cacheCall[c].op
  BY <1>1, <1>2 DEF CallType, LeadPcs
<1>4. WellFormed(r)
  BY <1>2, <1>3 DEF WellFormed, ByteOnlyPcs, LeadPcs
<1>5. cacheCall' = [cacheCall EXCEPT ![c] = r]
  <2>1. CASE Carries(c, pc, bytes)
    BY <1>1, <2>1 DEF Carries
  <2>2. CASE Goto2(c, pc) /\ bytes = cacheCall[c].bytes
    <3>1. [cacheCall[c] EXCEPT !.pc = pc] = r
      BY <1>1, <1>2, <2>2 DEF CallType
    <3> QED
      BY <2>2, <3>1 DEF Goto2
  <2> QED
    BY <2>1, <2>2
<1> QED
  BY <1>3, <1>4, <1>5, CallSteps

LEMMA ReturnsMoves ==
  ASSUME CallsTyped, FlightInv, NEW c \in CacheCalls, Returns(c), cacheCall[c].pc \notin LeadPcs,
         flight' = flight, streaming' = streaming
  PROVE  CallsTyped' /\ FlightInv'
BY IdleIsCall, CallSteps DEF Returns, LeadPcs

\* What LocalPath does with the bytes of Get.
LEMMA GotIsCall ==
  ASSUME NEW r, WellFormed(r), r.pc # "idle", ~streaming, NEW bytes \in Carried
  PROVE  WellFormed(Got(r, bytes)) /\ Got(r, bytes).pc \in {"idle", "install"}
<1>1. CASE r.op = "get"
  BY <1>1, IdleIsCall DEF Got
<1>2. CASE r.op # "get"
  <2>1. PICK q : q = [r EXCEPT !.op = "again", !.pc = "install", !.lead = NoFlight, !.bytes = bytes]
    OBVIOUS
  <2>2. q \in CallType /\ q.op = "again" /\ q.pc = "install" /\ q.bytes = bytes /\ q.key = r.key
    BY <2>1 DEF WellFormed, CallType, Carried
  <2>3. WellFormed(q)
    BY <2>2 DEF WellFormed
  <2>4. Got(r, bytes) = q
    BY <1>2, <2>1 DEF Got
  <2> QED
    BY <2>2, <2>3, <2>4
<1> QED
  BY <1>1, <1>2

LEMMA GotMoves ==
  ASSUME CallsTyped, FlightInv, NEW c \in CacheCalls, cacheCall[c].pc \notin LeadPcs \cup {"idle"}, ~streaming,
         NEW bytes \in Carried, GotBytes(c, bytes), flight' = flight, streaming' = streaming
  PROVE  CallsTyped' /\ FlightInv'
<1>1. PICK r : r = Got(cacheCall[c], bytes)
  OBVIOUS
<1>2. WellFormed(r) /\ r.pc \in {"idle", "install"}
  BY <1>1, GotIsCall DEF CallsTyped
<1>3. cacheCall' = [cacheCall EXCEPT ![c] = r]
  BY <1>1 DEF GotBytes
<1> QED
  BY <1>2, <1>3, CallSteps DEF LeadPcs

\* A call that misses leads the download of its key or follows who leads it.
LEMMA JoinMoves ==
  ASSUME CallsTyped, FlightInv, NEW c \in CacheCalls, Join(c, cacheCall[c].key),
         cacheCall[c].pc \notin LeadPcs \cup {"idle"}, streaming' = streaming
  PROVE  CallsTyped' /\ FlightInv'
<1>1. PICK k \in Keys : k = cacheCall[c].key
  BY DEF CallsTyped, WellFormed
<1>2. /\ cacheCall[c] \in CallType /\ cacheCall \in [CacheCalls -> CallType] /\ flight \in [Keys -> CacheCalls \cup {NoFlight}]
      /\ WellFormed(cacheCall[c]) /\ \A d \in CacheCalls : WellFormed(cacheCall[d])
  BY DEF CallsTyped
<1>a. cacheCall[c].pc \notin LeadPcs \cup {"idle"} /\ (cacheCall[c].op = "file" => k \in Media)
  BY <1>1, <1>2 DEF WellFormed
<1>3. CASE flight[k] = NoFlight
  <2>1. PICK r : r = [cacheCall[c] EXCEPT !.pc = IF streaming THEN "download" ELSE "fetch", !.lead = c]
    OBVIOUS
  <2>2. /\ r \in CallType /\ r.lead = c /\ r.key = k /\ r.op = cacheCall[c].op
        /\ r.pc = IF streaming THEN "download" ELSE "fetch"
    BY <1>1, <1>2, <2>1 DEF CallType, LeadPcs
  <2>a. WellFormed(r) /\ r.pc \in LeadPcs
    <3>1. r.pc \in LeadPcs /\ r.pc \notin {"install", "touch", "warm", "share"} /\ (streaming => r.pc \notin ByteOnlyPcs)
      BY <2>2 DEF LeadPcs, ByteOnlyPcs
    <3> QED
      BY <1>a, <2>2, <3>1 DEF WellFormed
  <2>3. cacheCall' = [cacheCall EXCEPT ![c] = r] /\ flight' = [flight EXCEPT ![k] = c]
    BY <1>1, <1>2, <1>3, <2>1 DEF Join, NobodyLeads
  <2>4. cacheCall' \in [CacheCalls -> CallType] /\ cacheCall'[c] = r /\ \A d \in CacheCalls : d # c => cacheCall'[d] = cacheCall[d]
    BY <1>2, <2>2, <2>3
  <2>5. /\ flight' \in [Keys -> CacheCalls \cup {NoFlight}] /\ flight'[k] = c
        /\ \A j \in Keys : j # k => flight'[j] = flight[j]
    BY <1>2, <2>3
  <2>6. CallsTyped'
    <3>1. \A d \in CacheCalls : cacheCall'[d] = r \/ cacheCall'[d] = cacheCall[d]
      BY <2>4
    <3>2. \A d \in CacheCalls : WellFormed(cacheCall[d])'
      BY <1>2, <2>a, <3>1 DEF WellFormed
    <3> QED
      BY <2>4, <2>5, <3>2 DEF CallsTyped
  <2>7. \A d \in CacheCalls : cacheCall[d].pc \in LeadPcs =>
          d # c /\ cacheCall'[d] = cacheCall[d] /\ cacheCall[d].key \in Keys /\ cacheCall[d].key # k
    <3>1. \A d \in CacheCalls : cacheCall[d].pc \in LeadPcs => flight[cacheCall[d].key] = d /\ cacheCall[d].key \in Keys
      BY <1>2 DEF FlightInv, WellFormed, LeadPcs
    <3> QED
      BY <1>3, <2>4, <3>1, CacheAssumption
  <2>8. ASSUME NEW d \in CacheCalls
        PROVE  /\ cacheCall'[d].pc \in LeadPcs => flight'[cacheCall'[d].key] = d
               /\ cacheCall'[d].pc = "follow" =>
                    /\ cacheCall'[d].lead \in CacheCalls /\ cacheCall'[cacheCall'[d].lead].pc \in LeadPcs
                    /\ cacheCall'[cacheCall'[d].lead].key = cacheCall'[d].key
    <3>1. CASE d = c
      <4>1. r.pc # "follow"
        BY <2>a DEF LeadPcs
      <4> QED
        BY <2>2, <2>4, <2>5, <3>1, <4>1
    <3>2. CASE d # c
      <4>1. cacheCall'[d] = cacheCall[d]
        BY <2>4, <3>2
      <4>2. cacheCall[d].pc \in LeadPcs => flight'[cacheCall[d].key] = d
        BY <2>5, <2>7 DEF FlightInv
      <4> QED
        BY <2>7, <4>1, <4>2 DEF FlightInv
    <3> QED
      BY <3>1, <3>2
  <2>9. ASSUME NEW j \in Keys, flight'[j] # NoFlight
        PROVE  cacheCall'[flight'[j]].pc \in LeadPcs /\ cacheCall'[flight'[j]].key = j
    <3>1. CASE j = k
      BY <2>2, <2>4, <2>5, <2>a, <3>1
    <3>2. CASE j # k
      <4>1. flight'[j] = flight[j] /\ flight[j] \in CacheCalls
        BY <1>2, <2>5, <2>9, <3>2
      <4> QED
        BY <2>7, <2>9, <4>1 DEF FlightInv
    <3> QED
      BY <3>1, <3>2
  <2> QED
    BY <2>6, <2>8, <2>9 DEF FlightInv
<1>4. CASE flight[k] # NoFlight
  <2>1. PICK r : r = [cacheCall[c] EXCEPT !.pc = "follow", !.lead = flight[k]]
    OBVIOUS
  <2>2. flight[k] \in CacheCalls /\ cacheCall[flight[k]].pc \in LeadPcs /\ cacheCall[flight[k]].key = k
    BY <1>2, <1>4 DEF FlightInv
  <2>3. r \in CallType /\ r.pc = "follow" /\ r.lead = flight[k] /\ r.key = k /\ r.op = cacheCall[c].op
    BY <1>1, <1>2, <2>1, <2>2 DEF CallType
  <2>a. WellFormed(r) /\ r.pc \notin LeadPcs
    <3>1. r.pc \notin LeadPcs /\ r.pc \notin {"install", "touch", "warm", "share"} /\ r.pc \notin ByteOnlyPcs
      BY <2>3 DEF LeadPcs, ByteOnlyPcs
    <3> QED
      BY <1>a, <2>3, <3>1 DEF WellFormed
  <2>4. cacheCall' = [cacheCall EXCEPT ![c] = r] /\ flight' = flight
    BY <1>1, <1>2, <1>4, <2>1 DEF Join, NobodyLeads
  <2> QED
    BY <2>2, <2>3, <2>4, <2>a, CallSteps
<1> QED
  BY <1>3, <1>4

\* The end of a download ends what follows it, or lets it go on with the bytes.
LEMMA DownloadEnds ==
  ASSUME CallsTyped, FlightInv, NEW c \in CacheCalls, cacheCall[c].pc \in LeadPcs, streaming' = streaming,
         flight' = [flight EXCEPT ![cacheCall[c].key] = NoFlight],
         cacheCall' = [d \in CacheCalls |-> cacheCall'[d]],
         \A d \in CacheCalls : IF d = c \/ Follows(d, c)
                               THEN WellFormed(cacheCall'[d]) /\ cacheCall'[d].pc \in {"idle", "install"}
                               ELSE cacheCall'[d] = cacheCall[d]
  PROVE  CallsTyped' /\ FlightInv'
<1>2. /\ cacheCall \in [CacheCalls -> CallType] /\ flight \in [Keys -> CacheCalls \cup {NoFlight}]
      /\ \A d \in CacheCalls : WellFormed(cacheCall[d])
  BY DEF CallsTyped
<1>1. PICK k \in Keys : k = cacheCall[c].key /\ flight[k] = c
  <2>1. cacheCall[c].pc # "idle" /\ WellFormed(cacheCall[c])
    BY <1>2 DEF LeadPcs
  <2> QED
    BY <2>1 DEF FlightInv, WellFormed
<1>3. /\ flight' \in [Keys -> CacheCalls \cup {NoFlight}] /\ flight'[k] = NoFlight
      /\ \A j \in Keys : j # k => flight'[j] = flight[j]
  BY <1>1, <1>2
<1>a. \A d \in CacheCalls : WellFormed(cacheCall'[d])
  BY <1>2
<1>b. \A d \in CacheCalls : cacheCall'[d] \in CallType /\ WellFormed(cacheCall[d])'
  BY <1>a DEF WellFormed
<1>5. cacheCall' \in [CacheCalls -> CallType]
  BY <1>b
<1>6. CallsTyped'
  BY <1>3, <1>5, <1>b DEF CallsTyped
<1>7. \A d \in CacheCalls : cacheCall[d].pc \in LeadPcs /\ d # c =>
        cacheCall'[d] = cacheCall[d] /\ cacheCall[d].key \in Keys /\ cacheCall[d].key # k
  <2>1. \A d \in CacheCalls : cacheCall[d].pc \in LeadPcs => flight[cacheCall[d].key] = d /\ cacheCall[d].key \in Keys /\ cacheCall[d].pc # "follow"
    BY <1>2 DEF FlightInv, WellFormed, LeadPcs
  <2> QED
    BY <1>1, <2>1 DEF Follows, At2
<1>8. ASSUME NEW d \in CacheCalls
      PROVE  /\ cacheCall'[d].pc \in LeadPcs => flight'[cacheCall'[d].key] = d
             /\ cacheCall'[d].pc = "follow" =>
                  /\ cacheCall'[d].lead \in CacheCalls /\ cacheCall'[cacheCall'[d].lead].pc \in LeadPcs
                  /\ cacheCall'[cacheCall'[d].lead].key = cacheCall'[d].key
  <2>1. CASE d = c \/ Follows(d, c)
    BY <2>1 DEF LeadPcs
  <2>2. CASE d # c /\ ~Follows(d, c)
    <3>1. cacheCall'[d] = cacheCall[d]
      BY <2>2
    <3>2. cacheCall[d].pc \in LeadPcs => flight'[cacheCall[d].key] = d
      BY <1>3, <1>7, <2>2 DEF FlightInv
    <3>3. cacheCall[d].pc = "follow" =>
            /\ cacheCall[d].lead \in CacheCalls /\ cacheCall'[cacheCall[d].lead].pc \in LeadPcs
            /\ cacheCall'[cacheCall[d].lead].key = cacheCall[d].key
      BY <1>7, <2>2 DEF FlightInv, Follows, At2
    <3> QED
      BY <3>1, <3>2, <3>3
  <2> QED
    BY <2>1, <2>2
<1>9. ASSUME NEW j \in Keys, flight'[j] # NoFlight
      PROVE  cacheCall'[flight'[j]].pc \in LeadPcs /\ cacheCall'[flight'[j]].key = j
  <2>1. j # k /\ flight'[j] = flight[j] /\ flight[j] \in CacheCalls
    BY <1>2, <1>3, <1>9
  <2>2. cacheCall[flight[j]].pc \in LeadPcs /\ cacheCall[flight[j]].key = j
    BY <1>9, <2>1 DEF FlightInv
  <2> QED
    BY <1>1, <1>7, <2>1, <2>2
<1> QED
  BY <1>6, <1>8, <1>9 DEF FlightInv

LEMMA FinishMoves ==
  ASSUME CallsTyped, FlightInv, NEW c \in CacheCalls, FinishPathFetch(c), cacheCall[c].pc \in LeadPcs, streaming' = streaming
  PROVE  CallsTyped' /\ FlightInv'
<1>1. \A d \in CacheCalls : IF d = c \/ Follows(d, c)
                            THEN WellFormed(cacheCall'[d]) /\ cacheCall'[d].pc \in {"idle", "install"}
                            ELSE cacheCall'[d] = cacheCall[d]
  BY IdleIsCall DEF FinishPathFetch
<1>2. cacheCall' = [d \in CacheCalls |-> cacheCall'[d]] /\ flight' = [flight EXCEPT ![cacheCall[c].key] = NoFlight]
  BY DEF FinishPathFetch
<1> QED
  BY <1>1, <1>2, DownloadEnds

LEMMA ShareMoves ==
  ASSUME CallsTyped, FlightInv, NEW c \in CacheCalls, ShareFetch(c)
  PROVE  CallsTyped' /\ FlightInv'
<1>1. /\ cacheCall[c].pc = "share" /\ streaming' = streaming /\ flight' = [flight EXCEPT ![cacheCall[c].key] = NoFlight]
      /\ cacheCall' = [d \in CacheCalls |->
                         IF d = c \/ Follows(d, c) THEN Got(cacheCall[d], cacheCall[c].bytes) ELSE cacheCall[d]]
  BY DEF ShareFetch, At2
<1>2. ~streaming /\ cacheCall[c].bytes \in Carried
  BY <1>1 DEF CallsTyped, WellFormed, ByteOnlyPcs
<1>3. \A d \in CacheCalls : IF d = c \/ Follows(d, c)
                            THEN WellFormed(cacheCall'[d]) /\ cacheCall'[d].pc \in {"idle", "install"}
                            ELSE cacheCall'[d] = cacheCall[d]
  <2>1. \A d \in CacheCalls : d = c \/ Follows(d, c) => WellFormed(cacheCall[d]) /\ cacheCall[d].pc # "idle"
    BY <1>1 DEF CallsTyped, Follows, At2
  <2> QED
    BY <1>1, <1>2, <2>1, GotIsCall
<1>4. cacheCall' = [d \in CacheCalls |-> cacheCall'[d]]
  BY <1>1
<1> QED
  BY <1>1, <1>3, <1>4, DownloadEnds DEF LeadPcs

\* A commit adds the bytes it is given.
LEMMA CommitKeeps ==
  ASSUME CachedInv, NEW k, NEW bytes \in Carried, streaming /\ bytes = "unproven" => k \in Media,
         Commit(k, bytes), streaming' = streaming
  PROVE  CachedInv'
<1>2. CASE Installed(k)
  BY <1>2 DEF Commit, CachedInv
<1>3. CASE ~Installed(k)
  <2> DEFINE s == Append(RemoveFirst(index, k), k)
  <2> DEFINE n == total + (IF k \in ToSetOf(index) THEN 0 ELSE 1)
  <2> DEFINE out == {s[i] : i \in 1..Victims(s, n)}
  <2>1. PICK stays \in SUBSET out : l2' = [j \in Keys |-> IF j \in out \ stays THEN "none" ELSE IF j = k THEN bytes ELSE l2[j]]
    BY <1>3 DEF Commit
  <2> HIDE DEF out
  <2>2. \A j \in Keys : /\ l2'[j] \in {"none"} \cup Carried
                        /\ l2'[j] = "none" \/ (j = k /\ l2'[j] = bytes) \/ l2'[j] = l2[j]
    BY <2>1 DEF CachedInv
  <2>3. l2' \in [Keys -> {"none"} \cup Carried]
    BY <2>1, <2>2
  <2> QED
    BY <2>2, <2>3 DEF CachedInv
<1> QED
  BY <1>2, <1>3

LEMMA L1PutKeeps ==
  ASSUME HeapInv, NEW k, NEW bytes \in Carried, streaming => bytes # "unproven",
         L1Put(k, bytes), streaming' = streaming
  PROVE  HeapInv'
<1>1. CASE heap' = heap
  BY <1>1 DEF HeapInv
<1>2. CASE heap' # heap
  <2>1. heap' = [j \in Keys |-> IF j = k THEN bytes ELSE IF Len(l1) >= L1Max /\ j = Head(l1) THEN "none" ELSE heap[j]]
    BY <1>2 DEF L1Put, memVars
  <2>2. \A j \in Keys : heap'[j] \in {bytes, "none", heap[j]}
    BY <2>1
  <2>3. heap' \in [Keys -> {"none"} \cup Carried]
    BY <2>1 DEF HeapInv
  <2> QED
    BY <2>2, <2>3 DEF HeapInv
<1> QED
  BY <1>1, <1>2

\* What a call about to write may write where.
LEMMA InHand ==
  ASSUME CallsTyped, NEW c \in CacheCalls, cacheCall[c].pc \in {"install", "touch", "warm", "share"}
  PROVE  /\ cacheCall[c].bytes \in Carried /\ cacheCall[c].key \in Keys
         /\ streaming /\ cacheCall[c].bytes = "unproven" => cacheCall[c].op = "file" /\ cacheCall[c].key \in Media
<1>1. WellFormed(cacheCall[c])
  BY DEF CallsTyped
<1> QED
  BY <1>1 DEF WellFormed, ByteOnlyPcs

\* Where a streaming backend keeps a call from going.
LEMMA OnlyBytes ==
  ASSUME CallsTyped, NEW c \in CacheCalls, cacheCall[c].pc \in ByteOnlyPcs
  PROVE  ~streaming
BY DEF CallsTyped, WellFormed

LEMMA StoreMoves ==
  ASSUME CallsTyped, FlightInv, NEW c \in CacheCalls, FromStore(c), cacheCall[c].pc \notin LeadPcs \cup {"idle"}, streaming' = streaming
  PROVE  CallsTyped' /\ FlightInv'
<1>1. CASE streaming
  BY <1>1, JoinMoves DEF FromStore
<1>2. CASE ~streaming
  <2>1. Goto2(c, "heap") /\ flight' = flight
    BY <1>2 DEF FromStore
  <2>2. cacheCall[c].bytes \in {"none"} \cup Carried
    BY DEF CallsTyped, CallType
  <2> QED
    BY <1>2, <2>1, <2>2, CarriesMoves DEF LeadPcs
<1> QED
  BY <1>1, <1>2

LEMMA CacheStepKeeps ==
  ASSUME CacheInv, NEW c \in CacheCalls, CacheStep(c)
  PROVE  CacheInv'
<1>0. CallsTyped /\ FlightInv /\ CachedInv /\ HeapInv /\ cacheCall[c].bytes \in {"none"} \cup Carried
  BY DEF CacheInv, CallsTyped, CallType
<1> DEFINE Same == streaming' = streaming /\ heap' = heap /\ l2' = l2
<1>a. ASSUME Same PROVE CachedInv' /\ HeapInv'
  BY <1>0, <1>a DEF CachedInv, HeapInv
<1>1. CASE Lookup(c)
  <2>1. Same /\ flight' = flight /\ cacheCall[c].pc = "lookup" /\ (Returns(c) \/ Goto2(c, "recall"))
    BY <1>1 DEF Lookup, At2, memVars, diskVars
  <2> HIDE DEF Same
  <2>2. CallsTyped' /\ FlightInv'
    BY <1>0, <2>1, ReturnsMoves, CarriesMoves DEF LeadPcs, Same
  <2> QED
    BY <1>a, <2>1, <2>2 DEF CacheInv
<1>2. CASE Recall(c)
  <2>1. Same /\ cacheCall[c].pc = "recall" /\ cacheCall[c].key \in Keys
    BY <1>0, <1>2 DEF Recall, At2, memVars, diskVars, CallsTyped, WellFormed
  <2> HIDE DEF Same
  <2>2. \/ /\ heap[cacheCall[c].key] # "none" /\ Carries(c, "install", heap[cacheCall[c].key]) /\ flight' = flight
        \/ FromStore(c)
    BY <1>2 DEF Recall
  <2>3. CallsTyped' /\ FlightInv'
    <3>1. CASE FromStore(c)
      BY <1>0, <2>1, <3>1, StoreMoves DEF LeadPcs, Same
    <3>2. CASE ~FromStore(c)
      <4>1. PICK bytes : bytes = heap[cacheCall[c].key]
        OBVIOUS
      <4>2. bytes \in Carried /\ (streaming => bytes # "unproven")
        BY <1>0, <2>1, <2>2, <3>2, <4>1 DEF HeapInv
      <4>3. Carries(c, "install", bytes) /\ flight' = flight /\ streaming' = streaming
        BY <2>1, <2>2, <3>2, <4>1 DEF Same
      <4> QED
        BY <1>0, <2>1, <4>2, <4>3, CarriesMoves DEF LeadPcs
    <3> QED
      BY <3>1, <3>2
  <2> QED
    BY <1>a, <2>1, <2>3 DEF CacheInv
<1>3. CASE EnsureIndexed(c)
  <2>1. Same /\ flight' = flight /\ cacheCall' = cacheCall
    BY <1>3 DEF EnsureIndexed, memVars
  <2> QED
    BY <1>0, <1>a, <2>1 DEF CacheInv, CallsTyped, FlightInv, WellFormed
<1>4. CASE Install(c)
  <2>1. /\ flight' = flight /\ streaming' = streaming /\ cacheCall[c].pc = "install" /\ Returns(c)
        /\ Commit(cacheCall[c].key, cacheCall[c].bytes)
        /\ heap' = heap \/ (cacheCall[c].op = "put" /\ L1Put(cacheCall[c].key, cacheCall[c].bytes))
    BY <1>4 DEF Install, At2, memVars
  <2>2. /\ cacheCall[c].bytes \in Carried
        /\ streaming /\ cacheCall[c].bytes = "unproven" => cacheCall[c].op = "file" /\ cacheCall[c].key \in Media
    BY <1>0, <2>1, InHand
  <2>3. CachedInv'
    BY <1>0, <2>1, <2>2, CommitKeeps
  <2>4. HeapInv'
    <3>1. CASE heap' = heap
      BY <1>0, <2>1, <3>1 DEF HeapInv
    <3>2. CASE heap' # heap
      BY <1>0, <2>1, <2>2, <3>2, L1PutKeeps
    <3> QED
      BY <3>1, <3>2
  <2> QED
    BY <1>0, <2>1, <2>3, <2>4, ReturnsMoves DEF CacheInv, LeadPcs
<1>5. CASE InstallFails(c)
  <2>1. /\ l2' = l2 /\ streaming' = streaming /\ cacheCall[c].pc = "install"
        /\ (Returns(c) /\ flight' = flight) \/ FromStore(c)
        /\ heap' = heap \/ (cacheCall[c].op = "put" /\ L1Put(cacheCall[c].key, cacheCall[c].bytes))
    BY <1>5 DEF InstallFails, At2, memVars, diskVars
  <2>2. /\ cacheCall[c].bytes \in Carried
        /\ streaming /\ cacheCall[c].bytes = "unproven" => cacheCall[c].op = "file"
    BY <1>0, <2>1, InHand
  <2>3. CachedInv'
    BY <1>0, <2>1 DEF CachedInv
  <2>4. HeapInv'
    <3>1. CASE heap' = heap
      BY <1>0, <2>1, <3>1 DEF HeapInv
    <3>2. CASE heap' # heap
      BY <1>0, <2>1, <2>2, <3>2, L1PutKeeps
    <3> QED
      BY <3>1, <3>2
  <2> QED
    BY <1>0, <2>1, <2>3, <2>4, ReturnsMoves, StoreMoves DEF CacheInv, LeadPcs
<1>6. CASE Download(c)
  <2>1. /\ cacheCall[c].pc = "download" /\ FinishPathFetch(c) /\ streaming' = streaming /\ heap' = heap
        /\ Commit(cacheCall[c].key, "good") \/ l2' = l2
    BY <1>6 DEF Download, At2, StreamProves, memVars, diskVars
  <2>2. CachedInv'
    <3>1. CASE Commit(cacheCall[c].key, "good")
      BY <1>0, <2>1, <3>1, CommitKeeps DEF Carried
    <3>2. CASE l2' = l2
      BY <1>0, <2>1, <3>2 DEF CachedInv
    <3> QED
      BY <2>1, <3>1, <3>2
  <2>3. HeapInv'
    BY <1>0, <2>1 DEF HeapInv
  <2> QED
    BY <1>0, <2>1, <2>2, <2>3, FinishMoves DEF CacheInv, LeadPcs
<1>7. CASE Get(c)
  <2>1. Same /\ cacheCall[c].pc = "heap" /\ cacheCall[c].key \in Keys
    BY <1>0, <1>7 DEF Get, At2, memVars, diskVars, CallsTyped, WellFormed
  <2>2. ~streaming
    BY <1>0, <2>1, OnlyBytes DEF ByteOnlyPcs
  <2> HIDE DEF Same
  <2>3. PICK k : k = cacheCall[c].key /\ heap[k] \in {"none"} \cup Carried /\ l2[k] \in {"none"} \cup Carried
    BY <1>0, <2>1 DEF HeapInv, CachedInv
  <2>4. \/ heap[k] # "none" /\ GotBytes(c, heap[k]) /\ flight' = flight
        \/ l2[k] # "none" /\ Carries(c, "touch", l2[k]) /\ flight' = flight
        \/ Join(c, cacheCall[c].key)
    BY <1>7, <2>3 DEF Get
  <2>5. CallsTyped' /\ FlightInv'
    <3>0. streaming' = streaming /\ cacheCall[c].pc \notin LeadPcs \cup {"idle"}
      BY <2>1 DEF Same, LeadPcs
    <3>1. CASE heap[k] # "none" /\ GotBytes(c, heap[k]) /\ flight' = flight
      BY <1>0, <2>2, <2>3, <3>0, <3>1, GotMoves
    <3>2. CASE l2[k] # "none" /\ Carries(c, "touch", l2[k]) /\ flight' = flight
      BY <1>0, <2>2, <2>3, <3>0, <3>2, CarriesMoves DEF LeadPcs
    <3>3. CASE Join(c, cacheCall[c].key)
      BY <1>0, <3>0, <3>3, JoinMoves
    <3> QED
      BY <2>4, <3>1, <3>2, <3>3
  <2> QED
    BY <1>a, <2>1, <2>5 DEF CacheInv
<1>8. CASE TouchEntry(c)
  <2>1. /\ cacheCall[c].pc = "touch" /\ flight' = flight /\ streaming' = streaming /\ l2' = l2
        /\ L1Put(cacheCall[c].key, cacheCall[c].bytes) /\ GotBytes(c, cacheCall[c].bytes)
    BY <1>8 DEF TouchEntry, At2
  <2>2. ~streaming /\ cacheCall[c].bytes \in Carried
    BY <1>0, <2>1, OnlyBytes, InHand DEF ByteOnlyPcs
  <2>3. CachedInv'
    BY <1>0, <2>1 DEF CachedInv
  <2>4. HeapInv'
    BY <1>0, <2>1, <2>2, L1PutKeeps
  <2>5. CallsTyped' /\ FlightInv'
    BY <1>0, <2>1, <2>2, GotMoves DEF LeadPcs
  <2> QED
    BY <2>3, <2>4, <2>5 DEF CacheInv
<1>9. CASE Fetch(c)
  <2>1. /\ Same /\ cacheCall[c].pc = "fetch"
        /\ (Carries(c, "warm", "unproven") /\ flight' = flight) \/ FinishPathFetch(c)
    BY <1>9 DEF Fetch, At2, memVars, diskVars
  <2>2. ~streaming
    BY <1>0, <2>1, OnlyBytes DEF ByteOnlyPcs
  <2> HIDE DEF Same
  <2>3. CallsTyped' /\ FlightInv'
    BY <1>0, <2>1, <2>2, CarriesMoves, FinishMoves DEF LeadPcs, Same, Carried
  <2> QED
    BY <1>a, <2>1, <2>3 DEF CacheInv
<1>10. CASE WarmL2(c)
  <2>1. /\ cacheCall[c].pc = "warm" /\ Goto2(c, "share") /\ flight' = flight /\ streaming' = streaming /\ heap' = heap
        /\ Commit(cacheCall[c].key, cacheCall[c].bytes) \/ l2' = l2
    BY <1>10 DEF WarmL2, At2, memVars, diskVars
  <2>2. ~streaming /\ cacheCall[c].bytes \in Carried
    BY <1>0, <2>1, OnlyBytes, InHand DEF ByteOnlyPcs
  <2>3. CachedInv'
    <3>1. CASE Commit(cacheCall[c].key, cacheCall[c].bytes)
      BY <1>0, <2>1, <2>2, <3>1, CommitKeeps
    <3>2. CASE l2' = l2
      BY <1>0, <2>1, <3>2 DEF CachedInv
    <3> QED
      BY <2>1, <3>1, <3>2
  <2>4. HeapInv'
    BY <1>0, <2>1 DEF HeapInv
  <2>5. CallsTyped' /\ FlightInv'
    BY <1>0, <2>1, <2>2, CarriesMoves DEF LeadPcs
  <2> QED
    BY <2>3, <2>4, <2>5 DEF CacheInv
<1>11. CASE ShareFetch(c)
  <2>1. /\ cacheCall[c].pc = "share" /\ streaming' = streaming /\ l2' = l2
        /\ L1Put(cacheCall[c].key, cacheCall[c].bytes)
    BY <1>11 DEF ShareFetch, At2, diskVars
  <2>2. ~streaming /\ cacheCall[c].bytes \in Carried
    BY <1>0, <2>1, OnlyBytes, InHand DEF ByteOnlyPcs
  <2>3. CachedInv'
    BY <1>0, <2>1 DEF CachedInv
  <2>4. HeapInv'
    BY <1>0, <2>1, <2>2, L1PutKeeps
  <2>5. CallsTyped' /\ FlightInv'
    BY <1>0, <1>11, ShareMoves
  <2> QED
    BY <2>3, <2>4, <2>5 DEF CacheInv
<1> QED
  BY <1>1, <1>2, <1>3, <1>4, <1>5, <1>6, <1>7, <1>8, <1>9, <1>10, <1>11 DEF CacheStep

LEMMA CacheInvStep == CacheInv /\ [CacheNext]_cacheVars => CacheInv'
<1> SUFFICES ASSUME CacheInv, [CacheNext]_cacheVars
             PROVE  CacheInv'
  OBVIOUS
<1>0. CallsTyped /\ FlightInv /\ CachedInv /\ HeapInv
  BY DEF CacheInv
<1> DEFINE Same == streaming' = streaming /\ heap' = heap /\ l2' = l2
<1>a. ASSUME Same PROVE CachedInv' /\ HeapInv'
  BY <1>0, <1>a DEF CachedInv, HeapInv
<1>1. ASSUME NEW c \in CacheCalls, FollowerGivesUp(c)
      PROVE  CacheInv'
  <2>1. Same /\ flight' = flight /\ Returns(c) /\ cacheCall[c].pc = "follow"
    BY <1>1 DEF FollowerGivesUp, At2, memVars, diskVars
  <2> QED
    BY <1>0, <1>a, <2>1, ReturnsMoves DEF CacheInv, LeadPcs
<1>b. ASSUME NEW c \in CacheCalls, SourceChanges(c)
      PROVE  CacheInv'
  <2>1. /\ Same /\ flight' = flight /\ cacheCall[c].pc = "install" /\ cacheCall[c].op = "file"
        /\ Carries(c, "install", "unproven")
    BY <1>b DEF SourceChanges, At2, memVars, diskVars
  <2> HIDE DEF Same
  <2>2. CallsTyped' /\ FlightInv'
    BY <1>0, <2>1, CarriesMoves DEF LeadPcs, Carried, Same
  <2> QED
    BY <1>a, <2>1, <2>2 DEF CacheInv
<1>2. ASSUME NEW c \in CacheCalls, NEW k \in Keys, StoreFirst(c, k)
      PROVE  CacheInv'
  <2>1. PICK r : r = [Idle EXCEPT !.op = IF k \in Media THEN "file" ELSE "put", !.key = k, !.pc = "install",
                                  !.bytes = IF streaming THEN "good" ELSE "unproven"]
    OBVIOUS
  <2>2. /\ r \in CallType /\ r.pc = "install" /\ r.key = k /\ r.op = IF k \in Media THEN "file" ELSE "put"
        /\ r.bytes = IF streaming THEN "good" ELSE "unproven"
    BY <2>1 DEF Idle, CallType, Carried
  <2>a. WellFormed(r)
    BY <2>2 DEF WellFormed, ByteOnlyPcs, Carried
  <2>3. Same /\ cacheCall' = [cacheCall EXCEPT ![c] = r] /\ flight' = flight /\ cacheCall[c].pc = "idle"
    BY <1>2, <2>1 DEF StoreFirst, At2, memVars, diskVars
  <2> QED
    BY <1>0, <1>a, <2>2, <2>3, <2>a, CallSteps DEF CacheInv, LeadPcs
<1>3. ASSUME NEW c \in CacheCalls, NEW k \in Keys, NEW op \in Ops, Begin(c, op, k)
      PROVE  CacheInv'
  <2>1. PICK r : r = [Idle EXCEPT !.op = op, !.key = k, !.pc = IF op = "path" THEN "lookup" ELSE "heap"]
    OBVIOUS
  <2>2. op \in {"path", "get"} /\ (streaming => op = "path")
    BY DEF Ops
  <2>3. r \in CallType /\ r.pc = (IF op = "path" THEN "lookup" ELSE "heap") /\ r.key = k /\ r.op = op
    BY <2>1, <2>2 DEF Idle, CallType
  <2>a. WellFormed(r) /\ r.pc \notin LeadPcs \cup {"follow"}
    BY <2>2, <2>3 DEF WellFormed, ByteOnlyPcs, LeadPcs
  <2>4. Same /\ cacheCall' = [cacheCall EXCEPT ![c] = r] /\ flight' = flight /\ cacheCall[c].pc = "idle"
    BY <1>3, <2>1 DEF Begin, At2, memVars, diskVars
  <2> QED
    BY <1>0, <1>a, <2>4, <2>a, CallSteps DEF CacheInv, LeadPcs
<1>4. ASSUME NEW k \in Keys, FileVanishes(k) \/ ObjectDecays(k)
      PROVE  CacheInv'
  <2>1. /\ cacheCall' = cacheCall /\ flight' = flight /\ streaming' = streaming /\ heap' = heap
        /\ l2' = l2 \/ l2' = [l2 EXCEPT ![k] = "none"]
    BY <1>4 DEF FileVanishes, ObjectDecays, memVars, diskVars
  <2>2. CachedInv' /\ HeapInv'
    BY <1>0, <2>1 DEF CachedInv, HeapInv
  <2> QED
    BY <1>0, <2>1, <2>2 DEF CacheInv, CallsTyped, FlightInv, WellFormed
<1>5. CASE WorkerRestarts
  <2>1. \A c \in CacheCalls : cacheCall'[c] = Idle
    BY <1>5 DEF WorkerRestarts
  <2>2. streaming' = streaming /\ l2' = l2 /\ heap' = [k \in Keys |-> "none"]
    BY <1>5 DEF WorkerRestarts
  <2>3. CachedInv' /\ HeapInv'
    BY <1>0, <2>2 DEF CachedInv, HeapInv
  <2>4. CallsTyped'
    <3>1. \A c \in CacheCalls : WellFormed(cacheCall[c])'
      BY <2>1, <2>2, IdleIsCall DEF WellFormed
    <3> QED
      BY <1>5, <2>1, <3>1, IdleIsCall DEF WorkerRestarts, CallsTyped
  <2> QED
    BY <1>5, <2>1, <2>3, <2>4, IdleIsCall DEF WorkerRestarts, CacheInv, FlightInv, LeadPcs
<1>6. CASE UNCHANGED cacheVars
  BY <1>0, <1>6 DEF cacheVars, memVars, diskVars, CacheInv, CallsTyped, FlightInv, WellFormed, CachedInv, HeapInv
<1> QED
  BY <1>1, <1>2, <1>3, <1>4, <1>5, <1>6, <1>b, CacheStepKeeps DEF CacheNext

LEMMA CacheFromInv == CacheInv => CacheIsGenuine
<1> SUFFICES ASSUME CacheInv
             PROVE  CacheIsGenuine
  OBVIOUS
<1>1. \A c, d \in CacheCalls : Leads(c) /\ Leads(d) /\ cacheCall[c].key = cacheCall[d].key => c = d
  BY DEF CacheInv, FlightInv, Leads, LeadPcs
<1>2. ASSUME streaming, NEW k \in Keys
      PROVE  /\ l2[k] \in {"none", "good"} \/ (l2[k] = "unproven" /\ k \in Media)
             /\ heap[k] \in {"none", "good"}
  BY <1>2 DEF CacheInv, CachedInv, HeapInv, Carried
<1>3. ASSUME NEW c \in CacheCalls, At2(c, "follow")
      PROVE  LET d == cacheCall[c].lead
             IN  /\ d \in CacheCalls /\ Leads(d)
                 /\ cacheCall[d].key = cacheCall[c].key /\ flight[cacheCall[c].key] = d
  <2>1. PICK d : d = cacheCall[c].lead
    OBVIOUS
  <2>2. d \in CacheCalls /\ cacheCall[d].pc \in LeadPcs /\ cacheCall[d].key = cacheCall[c].key
    BY <1>3, <2>1 DEF CacheInv, FlightInv, At2
  <2>3. flight[cacheCall[d].key] = d
    BY <2>2 DEF CacheInv, FlightInv
  <2> QED
    BY <2>1, <2>2, <2>3 DEF Leads, LeadPcs
<1> QED
  BY <1>1, <1>2, <1>3 DEF CacheIsGenuine

\* Through concurrent calls, evictions, restarts and a rotting store: the files and the heap
\* of a streaming backend hold bytes compared with their key, but for a video copied by
\* PutFile; of any backend, a key has one download and nobody waits for one that has ended.
THEOREM CacheCorrect == CacheSpec => []CacheIsGenuine
<1> QED
  BY CacheInvInit, CacheInvStep, CacheFromInv, PTL DEF CacheSpec

-----------------------------------------------------------------------------
(* The budget of the disk *)

Distinct(s) == \A i, j \in 1..Len(s) : s[i] = s[j] => i = j

\* Of a streaming backend the index lists each key once, its size is the accounted one, and
\* after the census a file is in the index or was left by an eviction that could not remove it.
BudgetInv ==
  streaming =>
    /\ index \in Seq(Keys) /\ Distinct(index) /\ total = Len(index)
    /\ IsFiniteSet(Files)
    /\ census => Files \subseteq ToSetOf(index) \cup stuckFiles
    /\ ~census => index = << >>

LEMMA LeastOfThree ==
  ASSUME NEW a \in Int, NEW b \in Int, NEW c \in Int
  PROVE  /\ Min({a, b, c}) \in {a, b, c}
         /\ Min({a, b, c}) <= a /\ Min({a, b, c}) <= b /\ Min({a, b, c}) <= c
<1>1. \E x \in {a, b, c} : \A y \in {a, b, c} : x <= y
  <2>1. CASE a <= b /\ a <= c
    BY <2>1
  <2>2. CASE b <= a /\ b <= c
    BY <2>2
  <2>3. CASE c <= a /\ c <= b
    BY <2>3
  <2> QED
    BY <2>1, <2>2, <2>3
<1> QED
  BY <1>1 DEF Min

\* What an eviction takes: enough, or everything, or a whole batch.
LEMMA VictimsFit ==
  ASSUME NEW s, Len(s) \in Nat
  PROVE  LET v == Victims(s, Len(s)) IN
           v \in 0..Len(s) /\ (Len(s) - v <= L2Max \/ v = EvictionBatch)
<1>1. L2Max \in Nat /\ EvictionBatch \in Nat
  BY CacheAssumption
<1>2. CASE Len(s) > L2Max
  <2> DEFINE v == Min({Len(s) - L2Max, Len(s), EvictionBatch})
  <2>1. /\ v \in {Len(s) - L2Max, Len(s), EvictionBatch}
        /\ v <= Len(s) - L2Max /\ v <= Len(s) /\ v <= EvictionBatch
    <3>1. Len(s) - L2Max \in Int /\ Len(s) \in Int /\ EvictionBatch \in Int
      BY <1>1
    <3> QED
      BY <3>1, LeastOfThree, Zenon
  <2>2. Victims(s, Len(s)) = v
    BY <1>2 DEF Victims
  <2> HIDE DEF v
  <2> QED
    BY <1>1, <1>2, <2>1, <2>2
<1>3. CASE ~(Len(s) > L2Max)
  BY <1>1, <1>3 DEF Victims
<1> QED
  BY <1>2, <1>3

\* What follows the first n elements.
LEMMA RestOfIndex ==
  ASSUME NEW s \in Seq(Keys), NEW n \in 0..Len(s)
  PROVE  LET t == SubSeq(s, n + 1, Len(s)) IN
           t \in Seq(Keys) /\ Len(t) = Len(s) - n /\ \A j \in 1..(Len(s) - n) : t[j] = s[n + j]
<1> DEFINE t == SubSeq(s, n + 1, Len(s))
<1>1. Len(s) \in Nat /\ n \in Nat /\ n <= Len(s) /\ n + 1 \in Int /\ Len(s) \in Int
  OBVIOUS
<1>2. \A j \in (n + 1)..Len(s) : s[j] \in Keys
  BY <1>1
<1>3. /\ t \in Seq(Keys)
      /\ Len(t) = IF n + 1 <= Len(s) THEN Len(s) - (n + 1) + 1 ELSE 0
      /\ \A j \in 1 .. Len(s) - (n + 1) + 1 : t[j] = s[n + 1 + j - 1]
  BY <1>1, <1>2, SubSeqProperties
<1> HIDE DEF t
<1>4. Len(t) = Len(s) - n
  BY <1>1, <1>3
<1>5. ASSUME NEW j \in 1..(Len(s) - n) PROVE t[j] = s[n + j]
  <2>1. j \in 1 .. Len(s) - (n + 1) + 1 /\ n + 1 + j - 1 = n + j
    BY <1>1
  <2> QED
    BY <1>3, <2>1
<1> QED
  BY <1>3, <1>4, <1>5 DEF t

\* One element of a sequence of distinct ones is cut out.
LEMMA CutsOut ==
  ASSUME NEW s \in Seq(Keys), Distinct(s), NEW k \in ToSetOf(s)
  PROVE  LET t == RemoveFirst(s, k) IN
           /\ t \in Seq(Keys) /\ Distinct(t) /\ Len(t) = Len(s) - 1
           /\ ToSetOf(t) = ToSetOf(s) \ {k}
<1>0. Len(s) \in Nat /\ DOMAIN s = 1..Len(s)
  OBVIOUS
<1>1. PICK i \in 1..Len(s) : s[i] = k
  BY <1>0 DEF ToSetOf
<1>2. SelectInSeq(s, LAMBDA v : v = k) = i
  <2> DEFINE I == {j \in 1..Len(s) : s[j] = k}
  <2>1. I = {i}
    BY <1>1 DEF Distinct
  <2>2. Min({i}) = i
    BY <1>0 DEF Min
  <2> QED
    BY <2>1, <2>2 DEF SelectInSeq
<1>3. RemoveFirst(s, k) = RemoveAt(s, i)
  BY <1>1, <1>2 DEF RemoveFirst
<1> DEFINE a == SubSeq(s, 1, i - 1)
           b == SubSeq(s, i + 1, Len(s))
           t == a \o b
<1>4. RemoveFirst(s, k) = t
  BY <1>3 DEF RemoveAt
<1>5. /\ a \in Seq(Keys) /\ Len(a) = i - 1 /\ \A j \in 1..(i - 1) : a[j] = s[j]
      /\ b \in Seq(Keys) /\ Len(b) = Len(s) - i /\ \A j \in 1..(Len(s) - i) : b[j] = s[i + j]
  <2>1. a \in Seq(Keys) /\ Len(a) = i - 1 /\ \A j \in 1..(i - 1) : a[j] = s[j]
    BY <1>0, <1>1, SubSeqProperties
  <2>2. b \in Seq(Keys) /\ Len(b) = Len(s) - i /\ \A j \in 1..(Len(s) - i) : b[j] = s[i + j]
    <3>1. i \in 0..Len(s)
      BY <1>0, <1>1
    <3> QED
      BY <3>1, RestOfIndex
  <2> QED
    BY <2>1, <2>2
<1> HIDE DEF a, b
<1>6. /\ t \in Seq(Keys) /\ Len(t) = Len(a) + Len(b)
      /\ \A j \in 1..(Len(a) + Len(b)) : t[j] = IF j <= Len(a) THEN a[j] ELSE b[j - Len(a)]
  BY <1>5, ConcatProperties
<1>7. /\ Len(t) = Len(s) - 1 /\ Len(t) \in Nat /\ DOMAIN t = 1..Len(t)
      /\ \A j \in 1..(i - 1) : t[j] = s[j]
      /\ \A j \in i..(Len(s) - 1) : t[j] = s[j + 1]
  <2>1. Len(t) = Len(s) - 1 /\ Len(t) \in Nat /\ DOMAIN t = 1..Len(t)
    BY <1>0, <1>1, <1>5, <1>6
  <2>2. \A j \in 1..(i - 1) : t[j] = s[j]
    BY <1>0, <1>1, <1>5, <1>6
  <2>3. ASSUME NEW j \in i..(Len(s) - 1) PROVE t[j] = s[j + 1]
    <3>1. j \in 1..(Len(a) + Len(b)) /\ ~(j <= Len(a)) /\ j - Len(a) \in 1..(Len(s) - i) /\ i + (j - Len(a)) = j + 1
      BY <1>0, <1>1, <1>5
    <3> QED
      BY <1>5, <1>6, <3>1
  <2> QED
    BY <2>1, <2>2, <2>3
<1> HIDE DEF t
<1> DEFINE old(j) == IF j < i THEN j ELSE j + 1
<1>8. \A j \in 1..Len(t) : t[j] = s[old(j)] /\ old(j) \in 1..Len(s) /\ old(j) # i
  BY <1>0, <1>1, <1>7
<1>9. Distinct(t)
  <2> SUFFICES ASSUME NEW j \in 1..Len(t), NEW l \in 1..Len(t), t[j] = t[l]
               PROVE  j = l
    BY DEF Distinct
  <2>1. old(j) = old(l)
    BY <1>8 DEF Distinct
  <2> QED
    BY <1>0, <1>1, <1>7, <2>1
<1>10. ToSetOf(t) = ToSetOf(s) \ {k}
  <2>1. ASSUME NEW x \in ToSetOf(t) PROVE x \in ToSetOf(s) /\ x # k
    <3>1. PICK j \in 1..Len(t) : t[j] = x
      BY <1>7 DEF ToSetOf
    <3>2. s[old(j)] = x /\ old(j) \in 1..Len(s) /\ old(j) # i
      BY <1>8, <3>1
    <3> HIDE DEF old
    <3> QED
      BY <1>0, <1>1, <3>2 DEF ToSetOf, Distinct
  <2>2. ASSUME NEW x \in ToSetOf(s), x # k PROVE x \in ToSetOf(t)
    <3>1. PICK j \in 1..Len(s) : s[j] = x
      BY <1>0 DEF ToSetOf
    <3>2. CASE j < i
      <4>1. j \in 1..(i - 1) /\ j \in 1..Len(t)
        BY <1>0, <1>1, <1>7, <3>2
      <4> QED
        BY <1>7, <3>1, <4>1 DEF ToSetOf
    <3>3. CASE j > i
      <4>1. j - 1 \in i..(Len(s) - 1) /\ j - 1 \in 1..Len(t) /\ (j - 1) + 1 = j
        BY <1>0, <1>1, <1>7, <3>3
      <4> QED
        BY <1>7, <3>1, <4>1 DEF ToSetOf
    <3>4. j # i
      BY <1>1, <2>2, <3>1
    <3> QED
      BY <1>0, <1>1, <3>2, <3>3, <3>4
  <2> QED
    BY <2>1, <2>2
<1> QED
  BY <1>4, <1>6, <1>7, <1>9, <1>10

\* The entry of a key moves to the end of the index, where it is the youngest.
LEMMA MovesUp ==
  ASSUME NEW s \in Seq(Keys), Distinct(s), NEW k \in Keys
  PROVE  LET m == Append(RemoveFirst(s, k), k) IN
           /\ m \in Seq(Keys) /\ Distinct(m) /\ ToSetOf(m) = ToSetOf(s) \cup {k}
           /\ Len(m) = Len(s) + (IF k \in ToSetOf(s) THEN 0 ELSE 1)
<1> DEFINE t == RemoveFirst(s, k)
           m == Append(t, k)
<1>1. /\ t \in Seq(Keys) /\ Distinct(t) /\ ToSetOf(t) = ToSetOf(s) \ {k}
      /\ Len(t) + 1 = Len(s) + (IF k \in ToSetOf(s) THEN 0 ELSE 1)
  <2>1. CASE k \in ToSetOf(s)
    BY <2>1, CutsOut
  <2>2. CASE k \notin ToSetOf(s)
    <3>1. t = s
      BY <2>2 DEF RemoveFirst, ToSetOf
    <3> QED
      BY <2>2, <3>1
  <2> QED
    BY <2>1, <2>2
<1> HIDE DEF t
<1>2. /\ m \in Seq(Keys) /\ Len(m) = Len(t) + 1 /\ m[Len(t) + 1] = k
      /\ \A j \in 1..Len(t) : m[j] = t[j]
      /\ \A j \in 1..Len(m) : j \in 1..Len(t) \/ j = Len(t) + 1
  BY <1>1, OneMore
<1> HIDE DEF m
<1>3. Len(t) \in Nat /\ DOMAIN t = 1..Len(t) /\ DOMAIN m = 1..Len(m)
  BY <1>1, <1>2
<1>4. \A j \in 1..Len(t) : t[j] # k
  BY <1>1, <1>3 DEF ToSetOf
<1>5. Distinct(m)
  BY <1>1, <1>2, <1>3, <1>4 DEF Distinct
<1>6. ToSetOf(m) = ToSetOf(t) \cup {k}
  <2>1. \A j \in 1..Len(t) : j \in 1..Len(m)
    BY <1>2, <1>3
  <2>2. Len(t) + 1 \in 1..Len(m)
    BY <1>2, <1>3
  <2> QED
    BY <1>2, <1>3, <2>1, <2>2 DEF ToSetOf
<1> QED
  BY <1>1, <1>2, <1>5, <1>6 DEF t, m

\* The oldest entries leave the index.
LEMMA DropsTheOldest ==
  ASSUME NEW s \in Seq(Keys), Distinct(s), NEW v \in 0..Len(s)
  PROVE  LET t == SubSeq(s, v + 1, Len(s)) IN
           /\ t \in Seq(Keys) /\ Distinct(t) /\ Len(t) = Len(s) - v
           /\ ToSetOf(t) = ToSetOf(s) \ {s[i] : i \in 1..v}
<1> DEFINE t == SubSeq(s, v + 1, Len(s))
<1>0. Len(s) \in Nat /\ DOMAIN s = 1..Len(s) /\ v \in Nat /\ v <= Len(s)
  OBVIOUS
<1>1. t \in Seq(Keys) /\ Len(t) = Len(s) - v /\ \A j \in 1..(Len(s) - v) : t[j] = s[v + j]
  BY <1>0, RestOfIndex
<1> HIDE DEF t
<1>2. Len(t) \in Nat /\ DOMAIN t = 1..Len(t) /\ \A j \in 1..Len(t) : t[j] = s[v + j] /\ v + j \in 1..Len(s)
  BY <1>0, <1>1
<1>3. Distinct(t)
  BY <1>0, <1>2 DEF Distinct
<1>4. ToSetOf(t) = ToSetOf(s) \ {s[i] : i \in 1..v}
  <2>1. ASSUME NEW x \in ToSetOf(t) PROVE x \in ToSetOf(s) /\ x \notin {s[i] : i \in 1..v}
    <3>1. PICK j \in 1..Len(t) : t[j] = x
      BY <1>2 DEF ToSetOf
    <3>2. s[v + j] = x /\ v + j \in 1..Len(s) /\ \A i \in 1..v : i \in 1..Len(s) /\ i # v + j
      BY <1>0, <1>2, <3>1
    <3> QED
      BY <1>0, <3>2 DEF ToSetOf, Distinct
  <2>2. ASSUME NEW x \in ToSetOf(s), x \notin {s[i] : i \in 1..v} PROVE x \in ToSetOf(t)
    <3>1. PICK j \in 1..Len(s) : s[j] = x
      BY <1>0 DEF ToSetOf
    <3>2. j \notin 1..v
      BY <2>2, <3>1
    <3>3. j - v \in 1..Len(t) /\ v + (j - v) = j
      BY <1>0, <1>1, <3>2
    <3> QED
      BY <1>2, <3>1, <3>3 DEF ToSetOf
  <2> QED
    BY <2>1, <2>2
<1> QED
  BY <1>1, <1>3, <1>4 DEF t

\* The census: a finite set of files in some order.
LEMMA CensusLists ==
  ASSUME NEW S \in SUBSET Keys, IsFiniteSet(S)
  PROVE  LET s == SetToSeq(S) IN
           s \in Seq(Keys) /\ Distinct(s) /\ ToSetOf(s) = S /\ Len(s) = Cardinality(S)
<1> DEFINE n == Cardinality(S)
<1>1. n \in Nat /\ IsFiniteSet(1..n) /\ Cardinality(1..n) = n
  BY FS_CardinalityType, CountUpTo
<1>2. PICK f : f \in Injection(1..n, S)
  BY FS_CardinalityType DEF ExistsBijection, Bijection
<1>3. f \in [1..n -> S] /\ IsInjective(f)
  BY <1>2 DEF Injection, IsInjective
<1> DEFINE s == SetToSeq(S)
<1>4. s \in [1..n -> S] /\ IsInjective(s)
  BY <1>3 DEF SetToSeq
<1> HIDE DEF s, n
<1>5. \A i, j \in 1..n : s[i] = s[j] => i = j
  BY <1>4 DEF IsInjective
<1>6. s \in Injection(1..n, S)
  BY <1>4, <1>5, Fun_IsInj
<1>7. s \in Surjection(1..n, S)
  BY <1>1, <1>6, FS_Injection DEF n
<1>8. \A x \in S : \E i \in 1..n : s[i] = x
  BY <1>7 DEF Surjection
<1>9. s \in Seq(Keys) /\ Len(s) = n /\ DOMAIN s = 1..n
  BY <1>1, <1>4
<1>10. ToSetOf(s) = S
  BY <1>4, <1>8, <1>9 DEF ToSetOf
<1> QED
  BY <1>5, <1>9, <1>10 DEF Distinct, s, n

\* What a commit does to index, total and files.
Counted == index \in Seq(Keys) /\ Distinct(index) /\ total = Len(index) /\ IsFiniteSet(Files)
Covered == Files \subseteq ToSetOf(index) \cup stuckFiles
WithinBudget == total' <= L2Max \/ total' <= total + 1 - EvictionBatch
Gains == \E k \in Keys : l2[k] = "none" /\ l2'[k] # "none"

LEMMA CommitCounts ==
  ASSUME Counted, Covered, NEW k \in Keys, NEW bytes, bytes # "none", Commit(k, bytes)
  PROVE  Counted' /\ Covered' /\ (Gains => WithinBudget)
<1> DEFINE s == Append(RemoveFirst(index, k), k)
           n == total + (IF k \in ToSetOf(index) THEN 0 ELSE 1)
<1>1. /\ s \in Seq(Keys) /\ Distinct(s) /\ ToSetOf(s) = ToSetOf(index) \cup {k}
      /\ Len(s) = n
  BY MovesUp DEF Counted
<1>2. Len(s) \in Nat /\ DOMAIN s = 1..Len(s) /\ total \in Nat /\ n <= total + 1
  BY <1>1 DEF Counted
<1>3. CASE Installed(k)
  <2>1. index' = s /\ l2' = l2 /\ total' = total /\ stuckFiles' = stuckFiles /\ k \in ToSetOf(index)
    BY <1>3 DEF Commit, Installed
  <2> HIDE DEF s
  <2>2. total' = Len(index') /\ Files' = Files
    BY <1>1, <1>2, <2>1 DEF Files
  <2>3. Counted'
    BY <1>1, <2>1, <2>2 DEF Counted
  <2>4. Covered'
    BY <1>1, <2>1, <2>2 DEF Covered
  <2>5. ~Gains
    BY <2>1 DEF Gains
  <2> QED
    BY <2>3, <2>4, <2>5
<1>4. CASE ~Installed(k)
  <2> DEFINE v == Victims(s, n)
             out == {s[i] : i \in 1..v}
  <2>1. PICK stays \in SUBSET out :
          /\ index' = SubSeq(s, v + 1, Len(s))
          /\ total' = n - v
          /\ l2' = [j \in Keys |-> IF j \in out \ stays THEN "none" ELSE IF j = k THEN bytes ELSE l2[j]]
          /\ stuckFiles' = (stuckFiles \ {k}) \cup {j \in stays : l2'[j] # "none"}
    BY <1>4 DEF Commit
  <2> HIDE DEF s, n
  <2>2. v \in 0..Len(s) /\ (Len(s) - v <= L2Max \/ v = EvictionBatch)
    BY <1>1, <1>2, VictimsFit
  <2> HIDE DEF v
  <2>3. /\ index' \in Seq(Keys) /\ Distinct(index)' /\ Len(index') = Len(s) - v
        /\ ToSetOf(index)' = ToSetOf(s) \ out
    BY <1>1, <2>1, <2>2, DropsTheOldest
  <2>4. total' = Len(index')
    BY <1>1, <2>1, <2>3
  <2>5. WithinBudget
    BY <1>1, <1>2, <2>1, <2>2, CacheAssumption DEF WithinBudget
  <2> HIDE DEF out
  <2>6. Files' \subseteq Files \cup {k}
    BY <2>1 DEF Files
  <2>7. IsFiniteSet(Files)'
    <3>1. IsFiniteSet(Files \cup {k})
      BY FS_AddElement DEF Counted
    <3> QED
      BY <2>6, <3>1, FS_Subset
  <2>8. ASSUME NEW j \in Files' PROVE j \in ToSetOf(index)' \cup stuckFiles'
    <3>0. j \in Keys /\ l2'[j] # "none"
      BY <2>8 DEF Files
    <3>1. j \notin out \ stays
      BY <2>1, <3>0
    <3>2. CASE j \in stays
      BY <2>1, <3>0, <3>2
    <3>3. CASE j \notin out
      <4>1. CASE j = k
        BY <1>1, <2>3, <3>3, <4>1
      <4>2. CASE j # k
        <5>1. j \in Files
          BY <2>6, <2>8, <4>2
        <5>2. j \in ToSetOf(index) \/ j \in stuckFiles
          BY <5>1 DEF Covered
        <5> QED
          BY <1>1, <2>1, <2>3, <3>3, <4>2, <5>2
      <4> QED
        BY <4>1, <4>2
    <3> QED
      BY <3>1, <3>2, <3>3
  <2> QED
    BY <2>3, <2>4, <2>5, <2>7, <2>8 DEF Counted, Covered
<1> QED
  BY <1>3, <1>4

\* The census takes every file there is.
LEMMA CensusCounts ==
  ASSUME streaming, ~census, BudgetInv, Reconcile, l2' = l2, stuckFiles' = stuckFiles, streaming' = streaming, census' = TRUE
  PROVE  BudgetInv' /\ ~Gains
<1>1. index = << >> /\ total = 0 /\ IsFiniteSet(Files)
  BY DEF BudgetInv
<1>2. ToSetOf(index) = {}
  BY <1>1 DEF ToSetOf
<1> DEFINE s == SetToSeq(Files)
<1>3. s \in Seq(Keys) /\ Distinct(s) /\ ToSetOf(s) = Files /\ Len(s) = Cardinality(Files)
  BY <1>1, CensusLists DEF Files
<1>4. index' = s /\ total' = Len(s)
  <2>1. Files \ ToSetOf(index) = Files
    BY <1>2
  <2>2. index' = s \o << >> /\ total' = 0 + Cardinality(Files)
    BY <1>1, <2>1 DEF Reconcile
  <2> HIDE DEF s
  <2>3. s \o << >> = s
    BY <1>3, ConcatEmptySeq
  <2> QED
    BY <1>3, <2>2, <2>3
<1> HIDE DEF s
<1>5. Files' = Files
  BY DEF Files
<1>6. ~Gains
  BY DEF Gains
<1> QED
  BY <1>1, <1>3, <1>4, <1>5, <1>6 DEF BudgetInv

LEMMA BudgetStep ==
  ASSUME CacheInv, BudgetInv, [CacheNext]_cacheVars
  PROVE  BudgetInv' /\ (streaming /\ Gains => WithinBudget)
<1> SUFFICES ASSUME streaming
             PROVE  BudgetInv' /\ (Gains => WithinBudget)
  <2>1. streaming' = streaming
    BY DEF CacheNext, CacheStep, Lookup, Recall, EnsureIndexed, Install, InstallFails, Download, Get, TouchEntry, Fetch,
           WarmL2, ShareFetch, SourceChanges, FollowerGivesUp, StoreFirst, Begin, FileVanishes, ObjectDecays, WorkerRestarts, cacheVars
  <2> QED
    BY <2>1 DEF BudgetInv
<1> DEFINE Kept == index' = index /\ total' = total /\ census' = census /\ stuckFiles' = stuckFiles /\ l2' = l2 /\ streaming' = streaming
<1>1. ASSUME Kept PROVE BudgetInv' /\ ~Gains
  <2>1. Files' = Files /\ ~Gains
    BY <1>1 DEF Files, Gains
  <2> QED
    BY <1>1, <2>1 DEF BudgetInv
<1>2. ASSUME NEW c \in CacheCalls, cacheCall[c].pc # "idle", NEW bytes \in Carried, Commit(cacheCall[c].key, bytes),
             census, census' = census, streaming' = streaming
      PROVE  BudgetInv' /\ (Gains => WithinBudget)
  <2>1. cacheCall[c].key \in Keys /\ bytes # "none"
    BY <1>2 DEF CacheInv, CallsTyped, WellFormed, Carried
  <2>2. Counted /\ Covered
    BY <1>2 DEF BudgetInv, Counted, Covered
  <2>3. Counted' /\ Covered' /\ (Gains => WithinBudget)
    BY <1>2, <2>1, <2>2, CommitCounts
  <2> QED
    BY <1>2, <2>3 DEF BudgetInv, Counted, Covered
<1>3. ASSUME NEW c \in CacheCalls, CacheStep(c) PROVE BudgetInv' /\ (Gains => WithinBudget)
  <2>0. CallsTyped
    BY DEF CacheInv
  <2>1. CASE Lookup(c) \/ Recall(c) \/ InstallFails(c) \/ Get(c) \/ Fetch(c) \/ ShareFetch(c)
    <3>1. Kept
      BY <2>1 DEF Lookup, Recall, InstallFails, Get, Fetch, ShareFetch, diskVars
    <3> HIDE DEF Kept
    <3> QED
      BY <1>1, <3>1
  <2>2. CASE EnsureIndexed(c)
    <3>1. ~census /\ census' = TRUE /\ Reconcile /\ l2' = l2 /\ stuckFiles' = stuckFiles /\ streaming' = streaming
      BY <2>2 DEF EnsureIndexed
    <3> QED
      BY <3>1, CensusCounts
  <2>3. CASE Install(c)
    <3>1. /\ cacheCall[c].pc = "install" /\ Commit(cacheCall[c].key, cacheCall[c].bytes)
          /\ census /\ census' = census /\ streaming' = streaming
      BY <2>3 DEF Install, At2
    <3> QED
      BY <1>2, <2>0, <3>1, InHand
  <2>4. CASE Download(c)
    <3>1. \/ Commit(cacheCall[c].key, "good")
          \/ UNCHANGED <<l2, index, total, stuckFiles>>
      BY <2>4 DEF Download, StreamProves, diskVars
    <3>2. cacheCall[c].pc # "idle" /\ census /\ census' = census /\ streaming' = streaming
      BY <2>4 DEF Download, At2
    <3> QED
      BY <1>1, <1>2, <3>1, <3>2 DEF Carried
  <2>5. CASE TouchEntry(c) \/ WarmL2(c)
    <3>1. cacheCall[c].pc \in ByteOnlyPcs
      BY <2>5 DEF TouchEntry, WarmL2, At2, ByteOnlyPcs
    <3> QED
      BY <2>0, <3>1, OnlyBytes
  <2> QED
    BY <1>3, <2>1, <2>2, <2>3, <2>4, <2>5 DEF CacheStep
<1>4. ASSUME NEW c \in CacheCalls, NEW k \in Keys, StoreFirst(c, k) PROVE BudgetInv' /\ ~Gains
  BY <1>1, <1>4 DEF StoreFirst, diskVars
<1>5. ASSUME NEW c \in CacheCalls, NEW k \in Keys, NEW op \in Ops, Begin(c, op, k) PROVE BudgetInv' /\ ~Gains
  BY <1>1, <1>5 DEF Begin, diskVars
<1>6. ASSUME NEW c \in CacheCalls, FollowerGivesUp(c) \/ SourceChanges(c) PROVE BudgetInv' /\ ~Gains
  BY <1>1, <1>6 DEF FollowerGivesUp, SourceChanges, diskVars
<1>7. ASSUME NEW k \in Keys, ObjectDecays(k) PROVE BudgetInv' /\ ~Gains
  BY <1>1, <1>7 DEF ObjectDecays, diskVars
<1>8. ASSUME NEW k \in Keys, FileVanishes(k) PROVE BudgetInv' /\ ~Gains
  <2>1. /\ index' = index /\ total' = total /\ census' = census /\ streaming' = streaming
        /\ stuckFiles' = stuckFiles \ {k} /\ l2' = [l2 EXCEPT ![k] = "none"]
    BY <1>8 DEF FileVanishes
  <2>2. l2 \in [Keys -> {"none"} \cup Carried]
    BY DEF CacheInv, CachedInv
  <2>3. Files' = Files \ {k} /\ ~Gains
    BY <2>1, <2>2 DEF Files, Gains
  <2>4. IsFiniteSet(Files)'
    BY <2>3, FS_RemoveElement DEF BudgetInv
  <2> QED
    BY <2>1, <2>3, <2>4 DEF BudgetInv
<1>9. CASE WorkerRestarts
  <2>1. index' = << >> /\ total' = 0 /\ census' = FALSE /\ streaming' = streaming /\ l2' = l2
    BY <1>9 DEF WorkerRestarts
  <2>2. Files' = Files /\ ~Gains
    BY <2>1 DEF Files, Gains
  <2> QED
    BY <2>1, <2>2 DEF BudgetInv, Distinct
<1>10. CASE UNCHANGED cacheVars
  BY <1>1, <1>10 DEF cacheVars, diskVars
<1> QED
  BY <1>3, <1>4, <1>5, <1>6, <1>7, <1>8, <1>9, <1>10 DEF CacheNext

\* For any budget and batch, any concurrent installs and whatever files an earlier process
\* left: an install leaves the disk within its budget, or smaller by all but one of a batch.
THEOREM DiskCorrect == CacheSpec => DiskWithinBudget
<1>1. CacheInit => BudgetInv
  <2> SUFFICES ASSUME CacheInit PROVE BudgetInv
    OBVIOUS
  <2>1. Files = {}
    BY DEF CacheInit, Files
  <2> QED
    BY <2>1, FS_EmptySet DEF CacheInit, BudgetInv, Distinct
<1>2. CacheInv /\ BudgetInv /\ [CacheNext]_cacheVars => BudgetInv'
  BY BudgetStep
<1>3. BudgetInv => (streaming /\ census => total = Len(index) /\ Files \subseteq ToSetOf(index) \cup stuckFiles)
  BY DEF BudgetInv
<1>4. CacheInv /\ BudgetInv /\ [CacheNext]_cacheVars =>
        [streaming /\ (\E k \in Keys : l2[k] = "none" /\ l2'[k] # "none")
           => total' <= L2Max \/ total' <= total + 1 - EvictionBatch]_cacheVars
  BY BudgetStep DEF Gains, WithinBudget
<1> QED
  BY CacheInvInit, CacheInvStep, <1>1, <1>2, <1>3, <1>4, PTL DEF CacheSpec, DiskWithinBudget

-----------------------------------------------------------------------------
(* The object store *)

UploadPcs == {"none", "sent", "stream", "sync", "install", "syncdir", "answered"}
UploadType ==
  [pc : UploadPcs, key : Addresses \cup {"malformed"}, bytes : {"right", "wrong", "short", "large"}, token : BOOLEAN]
Contents == {"none", "good", "wrong", "torn"}

StoreTyped ==
  /\ adapter \in {"disk", "memory"} /\ upload \in [Uploads -> UploadType]
  /\ visible \in [Addresses -> Contents] /\ durable \in [Addresses -> Contents]
  /\ acked \subseteq Addresses

\* What nothing outside the store has touched is absent or right, and what is acknowledged
\* is right where readers look and, on a disk, where a power loss leaves it.
KeptInv ==
  \A k \in Addresses : k \notin decayed =>
    /\ visible[k] \in {"none", "good"} /\ (adapter = "disk" => durable[k] \in {"none", "good"})
    /\ k \in acked => visible[k] = "good" /\ (adapter = "disk" => durable[k] = "good")

\* An upload past its digest has the bytes of its address; one past the sync of its file
\* has synced it, and one past its rename is visible.
AheadInv ==
  \A q \in Uploads :
    /\ upload[q].pc \in {"stream", "sync", "install", "syncdir"} => upload[q].key \in Addresses
    /\ upload[q].pc \in {"sync", "install", "syncdir"} => upload[q].bytes = "right"
    /\ upload[q].pc \in {"sync", "syncdir"} => adapter = "disk"
    /\ adapter = "disk" /\ upload[q].pc \in {"install", "syncdir"} => q \in fileSynced
    /\ upload[q].pc = "syncdir" => visible[upload[q].key] = "good" \/ upload[q].key \in decayed

VerdictInv ==
  \A q \in Uploads : verdictOf[q] = "rejected" =>
    upload[q].pc # "none" /\ (upload[q].key = "malformed" \/ upload[q].bytes # "right")

StoreInv == StoreTyped /\ KeptInv /\ AheadInv /\ VerdictInv

LEMMA StoreInvInit == StoreInit => StoreInv
<1> SUFFICES ASSUME StoreInit
             PROVE  StoreInv
  OBVIOUS
<1>1. NoUpload \in UploadType /\ NoUpload.pc = "none"
  BY DEF NoUpload, UploadType, UploadPcs
<1>2. StoreTyped
  BY <1>1 DEF StoreInit, StoreTyped, Contents
<1>3. \A q \in Uploads : upload[q].pc = "none" /\ verdictOf[q] = "none"
  BY <1>1 DEF StoreInit
<1>4. KeptInv
  BY DEF StoreInit, KeptInv
<1>5. AheadInv /\ VerdictInv
  BY <1>3 DEF AheadInv, VerdictInv
<1> QED
  BY <1>2, <1>4, <1>5 DEF StoreInv

LEMMA UploadMoved ==
  ASSUME StoreTyped, NEW q \in Uploads, NEW to \in UploadPcs, Moved2(q, to)
  PROVE  /\ upload' \in [Uploads -> UploadType] /\ upload'[q].pc = to
         /\ upload'[q].key = upload[q].key /\ upload'[q].bytes = upload[q].bytes
         /\ \A p \in Uploads : p # q => upload'[p] = upload[p]
<1>1. upload \in [Uploads -> UploadType] /\ upload[q] \in UploadType
  BY DEF StoreTyped
<1>2. PICK r : r = [upload[q] EXCEPT !.pc = to]
  OBVIOUS
<1>3. r \in UploadType /\ r.pc = to /\ r.key = upload[q].key /\ r.bytes = upload[q].bytes
  BY <1>1, <1>2 DEF UploadType
<1>4. upload' = [upload EXCEPT ![q] = r]
  BY <1>2 DEF Moved2
<1> QED
  BY <1>1, <1>3, <1>4

\* What an upload that moves has to keep of its own claims; the others keep theirs as
\* long as nothing good goes away.
LEMMA UploadKeepsAhead ==
  ASSUME StoreInv, NEW q \in Uploads, NEW to \in UploadPcs, Moved2(q, to), adapter' = adapter,
         to \in {"stream", "sync", "install", "syncdir"} => upload[q].key \in Addresses,
         to \in {"sync", "install", "syncdir"} => upload[q].bytes = "right",
         to \in {"sync", "syncdir"} => adapter = "disk",
         adapter = "disk" /\ to \in {"install", "syncdir"} => q \in fileSynced',
         to = "syncdir" => visible'[upload[q].key] = "good" \/ upload[q].key \in decayed',
         fileSynced \subseteq fileSynced',
         \A k \in Addresses : visible[k] = "good" \/ k \in decayed => visible'[k] = "good" \/ k \in decayed'
  PROVE  AheadInv'
<1>1. /\ upload'[q].pc = to /\ upload'[q].key = upload[q].key /\ upload'[q].bytes = upload[q].bytes
      /\ \A p \in Uploads : p # q => upload'[p] = upload[p]
  BY UploadMoved DEF StoreInv
<1> SUFFICES ASSUME NEW p \in Uploads
             PROVE  /\ upload'[p].pc \in {"stream", "sync", "install", "syncdir"} => upload'[p].key \in Addresses
                    /\ upload'[p].pc \in {"sync", "install", "syncdir"} => upload'[p].bytes = "right"
                    /\ upload'[p].pc \in {"sync", "syncdir"} => adapter' = "disk"
                    /\ adapter' = "disk" /\ upload'[p].pc \in {"install", "syncdir"} => p \in fileSynced'
                    /\ upload'[p].pc = "syncdir" => visible'[upload'[p].key] = "good" \/ upload'[p].key \in decayed'
  BY DEF AheadInv
<1>2. CASE p = q
  BY <1>1, <1>2
<1>3. CASE p # q
  <2>1. upload'[p] = upload[p]
    BY <1>1, <1>3
  <2> QED
    BY <2>1 DEF StoreInv, AheadInv
<1> QED
  BY <1>2, <1>3

LEMMA UploadKeepsVerdict ==
  ASSUME StoreInv, NEW q \in Uploads, NEW to \in UploadPcs, Moved2(q, to), to # "none",
         \A p \in Uploads : p # q => verdictOf'[p] = verdictOf[p],
         verdictOf'[q] = "rejected" =>
           verdictOf[q] = "rejected" \/ upload[q].key = "malformed" \/ upload[q].bytes # "right"
  PROVE  VerdictInv'
<1>1. /\ upload'[q].pc = to /\ upload'[q].key = upload[q].key /\ upload'[q].bytes = upload[q].bytes
      /\ \A p \in Uploads : p # q => upload'[p] = upload[p]
  BY UploadMoved DEF StoreInv
<1> QED
  BY <1>1 DEF StoreInv, VerdictInv

\* An answer of the store, or its loss.
LEMMA RespondMoves ==
  ASSUME StoreInv, NEW q \in Uploads, NEW status \in Nat, Respond(q, status)
  PROVE  /\ Moved2(q, "answered")
         /\ \A p \in Uploads : p # q => verdictOf'[p] = verdictOf[p]
         /\ verdictOf'[q] = "rejected" => verdictOf[q] = "rejected" \/ status \in {400, 422}
         /\ acked' = acked \/ (status = 201 /\ acked' = acked \cup {upload[q].key})
<1>1. CASE verdictOf' = [verdictOf EXCEPT ![q] = "failed"] /\ UNCHANGED acked
  BY <1>1 DEF Respond
<1>2. CASE /\ verdictOf' = [verdictOf EXCEPT ![q] = ClientConcludes(status)]
           /\ acked' = IF status = 201 THEN acked \cup {upload[q].key} ELSE acked
  <2>1. ClientConcludes(status) = "rejected" => status \in {400, 422}
    BY DEF ClientConcludes
  <2> QED
    BY <1>2, <2>1 DEF Respond
<1> QED
  BY <1>1, <1>2 DEF Respond

\* A refusal: nothing that is kept changes.
LEMMA RefusalKeeps ==
  ASSUME StoreInv, NEW q \in Uploads, NEW status \in Nat, Respond(q, status), status # 201,
         status \in {400, 422} => upload[q].key = "malformed" \/ upload[q].bytes # "right",
         UNCHANGED <<adapter, visible, durable, fileSynced, decayed>>
  PROVE  StoreInv'
<1>1. /\ Moved2(q, "answered") /\ acked' = acked
      /\ \A p \in Uploads : p # q => verdictOf'[p] = verdictOf[p]
      /\ verdictOf'[q] = "rejected" => verdictOf[q] = "rejected" \/ status \in {400, 422}
  BY RespondMoves
<1>2. "answered" \in UploadPcs
  BY DEF UploadPcs
<1>3. StoreTyped'
  BY <1>1, <1>2, UploadMoved DEF StoreInv, StoreTyped
<1>4. KeptInv'
  BY <1>1 DEF StoreInv, KeptInv
<1>5. AheadInv'
  BY <1>1, <1>2, UploadKeepsAhead
<1>6. VerdictInv'
  BY <1>1, <1>2, UploadKeepsVerdict
<1> QED
  BY <1>3, <1>4, <1>5, <1>6 DEF StoreInv

\* A move of an upload that neither answers nor shows anything.
LEMMA AdvanceKeeps ==
  ASSUME StoreInv, NEW q \in Uploads, NEW to \in {"stream", "sync", "install"}, Moved2(q, to),
         UNCHANGED <<adapter, visible, durable, verdictOf, acked, decayed>>, fileSynced \subseteq fileSynced',
         upload[q].key \in Addresses, to \in {"sync", "install"} => upload[q].bytes = "right",
         to = "sync" => adapter = "disk", adapter = "disk" /\ to = "install" => q \in fileSynced'
  PROVE  StoreInv'
<1>1. to \in UploadPcs /\ to # "none" /\ to # "syncdir"
  BY DEF UploadPcs
<1>2. StoreTyped'
  BY <1>1, UploadMoved DEF StoreInv, StoreTyped
<1>3. KeptInv'
  BY DEF StoreInv, KeptInv
<1>4. AheadInv'
  BY <1>1, UploadKeepsAhead
<1>5. VerdictInv'
  BY <1>1, UploadKeepsVerdict
<1> QED
  BY <1>2, <1>3, <1>4, <1>5 DEF StoreInv

LEMMA SendKeeps ==
  ASSUME StoreInv, NEW q \in Uploads, SendPut(q)
  PROVE  StoreInv'
<1>1. PICK k \in Addresses \cup {"malformed"}, b \in {"right", "wrong", "short", "large"}, t \in BOOLEAN :
        upload' = [upload EXCEPT ![q] = [pc |-> "sent", key |-> k, bytes |-> b, token |-> t]]
  BY DEF SendPut
<1>2. PICK r : r = [pc |-> "sent", key |-> k, bytes |-> b, token |-> t]
  OBVIOUS
<1>3. r \in UploadType /\ r.pc = "sent"
  BY <1>2 DEF UploadType, UploadPcs
<1>4. upload \in [Uploads -> UploadType] /\ upload[q].pc = "none"
  BY DEF SendPut, In, StoreInv, StoreTyped
<1>5. /\ upload' \in [Uploads -> UploadType] /\ upload'[q].pc = "sent"
      /\ \A p \in Uploads : p # q => upload'[p] = upload[p]
  BY <1>1, <1>2, <1>3, <1>4
<1>6. UNCHANGED <<adapter, visible, durable, fileSynced, temps, verdictOf, acked, decayed>>
  BY DEF SendPut
<1>7. StoreTyped' /\ KeptInv'
  BY <1>5, <1>6 DEF StoreInv, StoreTyped, KeptInv
<1>8. AheadInv'
  BY <1>5, <1>6 DEF StoreInv, AheadInv
<1>9. VerdictInv'
  BY <1>4, <1>5, <1>6 DEF StoreInv, VerdictInv
<1> QED
  BY <1>7, <1>8, <1>9 DEF StoreInv

LEMMA AcceptKeeps ==
  ASSUME StoreInv, NEW q \in Uploads, Accept(q)
  PROVE  StoreInv'
<1>1. UNCHANGED <<adapter, visible, durable, fileSynced, decayed>>
  BY DEF Accept
<1>2. CASE Respond(q, 401)
  BY <1>1, <1>2, RefusalKeeps
<1>3. CASE upload[q].key = "malformed" /\ Respond(q, 400)
  BY <1>1, <1>3, RefusalKeeps
<1>4. CASE upload[q].key # "malformed" /\ Moved2(q, "stream") /\ UNCHANGED <<verdictOf, acked>>
  <2>1. upload[q].key \in Addresses
    BY <1>4 DEF StoreInv, StoreTyped, UploadType
  <2> QED
    BY <1>1, <1>4, <2>1, AdvanceKeeps
<1>5. \/ Respond(q, 401)
      \/ upload[q].key = "malformed" /\ Respond(q, 400)
      \/ upload[q].key # "malformed" /\ Moved2(q, "stream") /\ UNCHANGED <<verdictOf, acked>>
  <2>1. upload[q].token \in BOOLEAN
    BY DEF StoreInv, StoreTyped, UploadType
  <2> QED
    BY <2>1 DEF Accept
<1> QED
  BY <1>2, <1>3, <1>4, <1>5

LEMMA StreamKeeps ==
  ASSUME StoreInv, NEW q \in Uploads, StreamAndVerify(q)
  PROVE  StoreInv'
<1>1. upload[q].pc = "stream" /\ UNCHANGED <<adapter, visible, durable, fileSynced, decayed>>
  BY DEF StreamAndVerify, In
<1>2. upload[q].key \in Addresses /\ adapter \in {"disk", "memory"}
  BY <1>1 DEF StoreInv, StoreTyped, AheadInv
<1>3. CASE upload[q].bytes = "right"
  <2>1. PICK to \in {"sync", "install"} : to = IF adapter = "disk" THEN "sync" ELSE "install"
    OBVIOUS
  <2>2. Moved2(q, to) /\ UNCHANGED <<verdictOf, acked>>
    BY <1>3, <2>1 DEF StreamAndVerify, DigestIsKey
  <2> QED
    BY <1>1, <1>2, <1>3, <2>1, <2>2, AdvanceKeeps
<1>4. CASE upload[q].bytes # "right"
  <2>1. PICK status \in {413, 500, 422} : status = PutErrorStatus(q)
    BY DEF PutErrorStatus
  <2>2. Respond(q, status)
    BY <1>4, <2>1 DEF StreamAndVerify, DigestIsKey
  <2> QED
    BY <1>1, <1>4, <2>2, RefusalKeeps
<1> QED
  BY <1>3, <1>4

\* What is installed is good.
LEMMA RenameKeeps ==
  ASSUME StoreInv, NEW q \in Uploads, Rename(q)
  PROVE  StoreInv'
<1>1. upload[q].pc = "install" /\ UNCHANGED <<adapter, durable, fileSynced>>
  BY DEF Rename, In
<1>2. PICK k \in Addresses : k = upload[q].key
  BY <1>1 DEF StoreInv, AheadInv
<1>3. upload[q].bytes = "right" /\ (adapter = "disk" => q \in fileSynced)
  BY <1>1 DEF StoreInv, AheadInv
<1>4. visible' = [visible EXCEPT ![k] = "good"]
  BY <1>2, <1>3 DEF Rename, Content
<1>5. /\ visible \in [Addresses -> Contents] /\ visible' \in [Addresses -> Contents] /\ visible'[k] = "good"
      /\ \A a \in Addresses : a # k => visible'[a] = visible[a]
  BY <1>4 DEF StoreInv, StoreTyped, Contents
<1>6. CASE adapter = "disk"
  <2>1. Moved2(q, "syncdir") /\ UNCHANGED <<verdictOf, acked, decayed>>
    BY <1>6 DEF Rename
  <2>2. "syncdir" \in UploadPcs
    BY DEF UploadPcs
  <2>3. StoreTyped'
    BY <1>1, <1>5, <2>1, <2>2, UploadMoved DEF StoreInv, StoreTyped
  <2>4. KeptInv'
    BY <1>1, <1>5, <2>1 DEF StoreInv, KeptInv
  <2>5. \A a \in Addresses : visible[a] = "good" \/ a \in decayed => visible'[a] = "good" \/ a \in decayed'
    BY <1>5, <2>1
  <2>6. AheadInv'
    BY <1>1, <1>2, <1>3, <1>5, <1>6, <2>1, <2>2, <2>5, UploadKeepsAhead
  <2>7. VerdictInv'
    BY <2>1, <2>2, UploadKeepsVerdict
  <2> QED
    BY <2>3, <2>4, <2>6, <2>7 DEF StoreInv
<1>7. CASE adapter # "disk"
  <2>1. Respond(q, 201) /\ decayed' = decayed \ {k}
    BY <1>2, <1>7 DEF Rename
  <2>2. /\ Moved2(q, "answered") /\ (acked' = acked \/ acked' = acked \cup {k})
        /\ \A p \in Uploads : p # q => verdictOf'[p] = verdictOf[p]
        /\ verdictOf'[q] = "rejected" => verdictOf[q] = "rejected"
    BY <1>2, <2>1, RespondMoves
  <2>3. "answered" \in UploadPcs
    BY DEF UploadPcs
  <2>4. StoreTyped'
    BY <1>1, <1>5, <2>2, <2>3, UploadMoved DEF StoreInv, StoreTyped
  <2>5. KeptInv'
    BY <1>1, <1>5, <1>7, <2>1, <2>2 DEF StoreInv, KeptInv
  <2>6. \A a \in Addresses : visible[a] = "good" \/ a \in decayed => visible'[a] = "good" \/ a \in decayed'
    BY <1>5, <2>1
  <2>7. AheadInv'
    BY <1>1, <2>2, <2>3, <2>6, UploadKeepsAhead
  <2>8. VerdictInv'
    BY <2>2, <2>3, UploadKeepsVerdict
  <2> QED
    BY <2>4, <2>5, <2>7, <2>8 DEF StoreInv
<1> QED
  BY <1>6, <1>7

LEMMA AcknowledgeKeeps ==
  ASSUME StoreInv, NEW q \in Uploads, Acknowledge(q)
  PROVE  StoreInv'
<1>1. upload[q].pc = "syncdir" /\ UNCHANGED <<adapter, visible, fileSynced>> /\ Respond(q, 201)
  BY DEF Acknowledge, In
<1>2. PICK k \in Addresses : k = upload[q].key
  BY <1>1 DEF StoreInv, AheadInv
<1>3. visible[k] = "good" \/ k \in decayed
  BY <1>1, <1>2 DEF StoreInv, AheadInv
<1>4. /\ durable' = [durable EXCEPT ![k] = visible[k]]
      /\ decayed' = IF visible[k] = "good" THEN decayed \ {k} ELSE decayed
  BY <1>2 DEF Acknowledge, SyncDir
<1>5. /\ durable' \in [Addresses -> Contents] /\ durable'[k] = visible[k]
      /\ \A a \in Addresses : a # k => durable'[a] = durable[a]
  BY <1>4 DEF StoreInv, StoreTyped
<1>6. /\ Moved2(q, "answered") /\ (acked' = acked \/ acked' = acked \cup {k})
      /\ \A p \in Uploads : p # q => verdictOf'[p] = verdictOf[p]
      /\ verdictOf'[q] = "rejected" => verdictOf[q] = "rejected"
  BY <1>1, <1>2, RespondMoves
<1>7. "answered" \in UploadPcs
  BY DEF UploadPcs
<1>8. StoreTyped'
  BY <1>1, <1>5, <1>6, <1>7, UploadMoved DEF StoreInv, StoreTyped
<1>9. KeptInv'
  <2> SUFFICES ASSUME NEW a \in Addresses, a \notin decayed'
               PROVE  /\ visible[a] \in {"none", "good"} /\ (adapter = "disk" => durable'[a] \in {"none", "good"})
                      /\ a \in acked' => visible[a] = "good" /\ (adapter = "disk" => durable'[a] = "good")
    BY <1>1 DEF KeptInv
  <2>1. CASE a = k
    BY <1>3, <1>4, <1>5, <2>1
  <2>2. CASE a # k
    BY <1>4, <1>5, <1>6, <2>2 DEF StoreInv, KeptInv
  <2> QED
    BY <2>1, <2>2
<1>10. \A a \in Addresses : visible[a] = "good" \/ a \in decayed => visible'[a] = "good" \/ a \in decayed'
  BY <1>1, <1>4
<1>11. AheadInv'
  BY <1>1, <1>6, <1>7, <1>10, UploadKeepsAhead
<1>12. VerdictInv'
  BY <1>6, <1>7, UploadKeepsVerdict
<1> QED
  BY <1>8, <1>9, <1>11, <1>12 DEF StoreInv

\* A power loss keeps, of every object, what was seen or what was durable.
LEMMA PowerLossKeeps == StoreInv /\ PowerLoss => StoreInv'
<1> SUFFICES ASSUME StoreInv, PowerLoss
             PROVE  StoreInv'
  OBVIOUS
<1>1. adapter = "disk" /\ UNCHANGED <<adapter, fileSynced, acked, decayed>> /\ durable' = visible'
  BY DEF PowerLoss
<1>2. PICK kept \in SUBSET Addresses :
        visible' = [k \in Addresses |->
                      LET left == IF k \in kept THEN visible[k] ELSE durable[k]
                      IN IF left = "unsynced" THEN "torn" ELSE left]
  BY DEF PowerLoss
<1>3. \A k \in Addresses : visible[k] \in Contents /\ durable[k] \in Contents
  BY DEF StoreInv, StoreTyped
<1>4. \A k \in Addresses : visible'[k] = IF k \in kept THEN visible[k] ELSE durable[k]
  BY <1>2, <1>3 DEF Contents
<1>5. visible' \in [Addresses -> Contents]
  <2>1. visible' = [k \in Addresses |-> visible'[k]]
    BY <1>2
  <2>2. \A k \in Addresses : visible'[k] \in Contents
    BY <1>3, <1>4
  <2> QED
    BY <2>1, <2>2
<1>6. \A q \in Uploads :
        \/ upload[q].pc \in {"none", "answered"} /\ upload'[q] = upload[q] /\ verdictOf'[q] = verdictOf[q]
        \/ upload'[q] = [upload[q] EXCEPT !.pc = "answered"] /\ verdictOf'[q] = "failed"
  BY DEF PowerLoss
<1>7. upload \in [Uploads -> UploadType] /\ \A q \in Uploads : upload[q] \in UploadType
  BY DEF StoreInv, StoreTyped
<1>8. ASSUME NEW q \in Uploads
      PROVE  upload'[q] \in UploadType /\ upload'[q].pc \in {"none", "answered"}
  <2>1. PICK r : r = [upload[q] EXCEPT !.pc = "answered"]
    OBVIOUS
  <2>2. r \in UploadType /\ r.pc = "answered"
    BY <1>7, <2>1 DEF UploadType, UploadPcs
  <2> QED
    BY <1>6, <1>7, <2>1, <2>2
<1>9. upload' \in [Uploads -> UploadType]
  <2>1. upload' = [q \in Uploads |-> upload'[q]]
    BY DEF PowerLoss
  <2> QED
    BY <1>8, <2>1
<1>10. StoreTyped'
  BY <1>1, <1>5, <1>9 DEF StoreInv, StoreTyped
<1>11. KeptInv'
  BY <1>1, <1>4 DEF StoreInv, KeptInv
<1>12. AheadInv'
  BY <1>8 DEF AheadInv
<1>13. VerdictInv'
  BY <1>6 DEF StoreInv, VerdictInv
<1> QED
  BY <1>10, <1>11, <1>12, <1>13 DEF StoreInv

LEMMA DecayKeeps ==
  ASSUME StoreInv, NEW k \in Addresses, Decay(k)
  PROVE  StoreInv'
<1>1. PICK bytes \in {"none", "wrong"} :
        visible' = [visible EXCEPT ![k] = bytes] /\ durable' = [durable EXCEPT ![k] = bytes]
  BY DEF Decay
<1>2. decayed' = decayed \cup {k} /\ UNCHANGED <<adapter, fileSynced, temps, upload, verdictOf, acked>>
  BY DEF Decay
<1>3. /\ visible' \in [Addresses -> Contents] /\ durable' \in [Addresses -> Contents]
      /\ \A a \in Addresses : a # k => visible'[a] = visible[a] /\ durable'[a] = durable[a]
  BY <1>1 DEF StoreInv, StoreTyped, Contents
<1>4. StoreTyped' /\ KeptInv'
  BY <1>2, <1>3 DEF StoreInv, StoreTyped, KeptInv
<1>5. AheadInv'
  <2>1. \A q \in Uploads : upload[q].pc = "syncdir" => upload[q].key \in Addresses
    BY DEF StoreInv, AheadInv
  <2> QED
    BY <1>2, <1>3, <2>1 DEF StoreInv, AheadInv
<1>6. VerdictInv'
  BY <1>2 DEF StoreInv, VerdictInv
<1> QED
  BY <1>4, <1>5, <1>6 DEF StoreInv

LEMMA StoreInvStep == StoreInv /\ [StoreNext]_storeVars => StoreInv'
<1> SUFFICES ASSUME StoreInv, [StoreNext]_storeVars
             PROVE  StoreInv'
  OBVIOUS
<1>1. ASSUME NEW q \in Uploads, DiskFails(q)
      PROVE  StoreInv'
  BY <1>1, RefusalKeeps DEF DiskFails
<1>2. ASSUME NEW q \in Uploads, FsyncTemp(q)
      PROVE  StoreInv'
  <2>1. /\ upload[q].pc = "sync" /\ Moved2(q, "install") /\ fileSynced' = fileSynced \cup {q}
        /\ UNCHANGED <<adapter, visible, durable, verdictOf, acked, decayed>>
    BY <1>2 DEF FsyncTemp, In, SyncFile
  <2>2. upload[q].key \in Addresses /\ upload[q].bytes = "right"
    BY <2>1 DEF StoreInv, AheadInv
  <2> QED
    BY <2>1, <2>2, AdvanceKeeps
<1>3. CASE UNCHANGED storeVars
  BY <1>3 DEF storeVars, StoreInv, StoreTyped, KeptInv, AheadInv, VerdictInv
<1> QED
  BY <1>1, <1>2, <1>3, SendKeeps, AcceptKeeps, StreamKeeps, RenameKeeps, AcknowledgeKeeps, PowerLossKeeps, DecayKeeps
     DEF StoreNext

LEMMA StoreFromInv == StoreInv => StoreIsHonest
<1> SUFFICES ASSUME StoreInv
             PROVE  StoreIsHonest
  OBVIOUS
<1>1. AcknowledgedSurvives
  <2>1. \A k \in acked \ decayed : Verify(k) = 200
    BY DEF StoreInv, StoreTyped, KeptInv, Verify
  <2>2. ASSUME NEW k \in Addresses, k \notin decayed
        PROVE  Verify(k) \in {200, 404}
    BY <2>2 DEF StoreInv, KeptInv, Verify
  <2>3. Scan.failures = {k \in Addresses : Verify(k) = 409}
    BY DEF Scan
  <2> QED
    BY <2>1, <2>2, <2>3 DEF AcknowledgedSurvives
<1>2. RejectionIsDeserved
  BY DEF StoreInv, VerdictInv, RejectionIsDeserved
<1> QED
  BY <1>1, <1>2 DEF StoreIsHonest

\* Through power losses at every step of every upload, lost answers and refused tokens:
\* what the store acknowledged is there, readable and right, and what it refused deserved it.
THEOREM StoreCorrect == StoreSpec => []StoreIsHonest
<1> QED
  BY StoreInvInit, StoreInvStep, StoreFromInv, PTL DEF StoreSpec

-----------------------------------------------------------------------------
(* The delivery to Drive *)

DeliveryStages ==
  {"idle", "permanent", "storeOnly", "lookup", "lock", "lookAgain", "create", "lookOnce", "unlock",
   "unlockFailed", "existing", "upload", "uploaded", "failed", "delivered"}
UnderMutex == {"lookAgain", "create", "lookOnce", "unlock", "unlockFailed"}
InFolder == {"unlock", "existing", "upload", "uploaded"}

DeliveryTyped ==
  /\ stage \in [DriveJobs -> DeliveryStages]
  /\ folderOf \in [DriveJobs -> Nat] /\ sent \in [DriveJobs -> Nat] /\ reported \in [DriveJobs -> Nat]
  /\ \A f \in driveFiles : f.id \in Nat
  /\ IsFiniteSet(driveFiles) /\ blind \in BOOLEAN

\* The folders are numbered as they come, and unless a lookup failed there is at most
\* one: whoever is about to create it holds the mutex and has seen none.
FoldersInv ==
  /\ \E n \in Nat : folders = 1..n
  /\ ~blind => folders \subseteq {1}
  /\ \A j \in DriveJobs :
       /\ stage[j] \in UnderMutex => folderMu = j
       /\ ~blind /\ stage[j] = "create" => folders = {}

\* Files are in folders there are, a job that uploads has no good file there, and what
\* an attempt reports is a good file of its job.
FilesInv ==
  /\ \A f \in driveFiles : f.folder \in folders
  /\ \A j \in DriveJobs :
       /\ stage[j] \in InFolder => folderOf[j] \in folders
       /\ ~blind /\ stage[j] = "upload" => \A f \in driveFiles : ~(f.job = j /\ f.good)
       /\ ~blind => \A f, g \in driveFiles : f.job = j /\ f.good /\ g.job = j /\ g.good => f = g
       /\ stage[j] \in {"uploaded", "delivered"} => \E f \in driveFiles : f.id = reported[j] /\ f.job = j /\ f.good

\* Only a job that asks for Drive gets any further than its policy.
PolicyInv ==
  \A j \in DriveJobs :
    /\ policy[j] # "drive" => sent[j] = 0 /\ stage[j] \in {"idle", "storeOnly"}
    /\ policy[j] = "drive" => stage[j] # "storeOnly"

\* The stamp of the ledger counts the columns that are there.
StampInv ==
  /\ userVersion \in Nat /\ userVersion <= LedgerSteps + 1
  /\ columns \subseteq 1..LedgerSteps
  /\ \A s \in 1..LedgerSteps : s <= userVersion => s \in columns
  /\ mirror \in {"closed", "open", "refused"}
  /\ mirror = "open" => userVersion = LedgerSteps

DeliveryInv == DeliveryTyped /\ FoldersInv /\ FilesInv /\ PolicyInv /\ StampInv

LEMMA DeliveryInvInit == DeliveryInit => DeliveryInv
<1> SUFFICES ASSUME DeliveryInit
             PROVE  DeliveryInv
  OBVIOUS
<1> USE DEF DeliveryInit
<1>1. DeliveryTyped
  BY FS_EmptySet DEF DeliveryTyped, DeliveryStages
<1>2. FoldersInv
  <2>1. folders = 1..0
    OBVIOUS
  <2> QED
    BY <2>1 DEF FoldersInv, UnderMutex
<1>3. FilesInv /\ PolicyInv
  BY DEF FilesInv, PolicyInv, InFolder
<1>4. StampInv
  BY DeliveryAssumption DEF StampInv
<1> QED
  BY <1>1, <1>2, <1>3, <1>4 DEF DeliveryInv

\* A step of one job that leaves the folders and the files alone.
LEMMA StageMoves ==
  ASSUME DeliveryInv, NEW j \in DriveJobs, NEW to \in DeliveryStages,
         stage' = [stage EXCEPT ![j] = to], UNCHANGED <<policy, folders, driveFiles, sent, ledgerVars>>,
         folderOf' \in [DriveJobs -> Nat], reported' \in [DriveJobs -> Nat], blind' \in BOOLEAN, blind => blind',
         \A k \in DriveJobs : k # j => folderOf'[k] = folderOf[k] /\ reported'[k] = reported[k],
         to \in UnderMutex => folderMu' = j,
         folderMu' = folderMu \/ (folderMu = j /\ to \notin UnderMutex) \/ (folderMu = "nobody" /\ folderMu' = j),
         to = "create" => blind' \/ folders = {},
         to \in InFolder => folderOf'[j] \in folders,
         to = "upload" => blind' \/ \A f \in driveFiles : ~(f.job = j /\ f.good),
         to \in {"uploaded", "delivered"} => \E f \in driveFiles : f.id = reported'[j] /\ f.job = j /\ f.good,
         policy[j] # "drive" => to \in {"idle", "storeOnly"}, policy[j] = "drive" => to # "storeOnly"
  PROVE  DeliveryInv'
<1> USE DEF DeliveryInv
<1>1. stage' \in [DriveJobs -> DeliveryStages] /\ stage'[j] = to /\ \A k \in DriveJobs : k # j => stage'[k] = stage[k]
  BY DEF DeliveryTyped
<1>2. DeliveryTyped'
  BY <1>1 DEF DeliveryTyped
<1>3. FoldersInv'
  <2>1. \A k \in DriveJobs : k # "nobody"
    BY DeliveryAssumption
  <2>2. ASSUME NEW k \in DriveJobs, stage'[k] \in UnderMutex
        PROVE  folderMu' = k
    <3>1. CASE k = j
      BY <1>1, <2>2, <3>1
    <3>2. CASE k # j
      BY <1>1, <2>1, <2>2, <3>2 DEF FoldersInv
    <3> QED
      BY <3>1, <3>2
  <2>3. (~blind' => folders \subseteq {1}) /\ \E n \in Nat : folders = 1..n
    BY DEF FoldersInv
  <2>4. \A k \in DriveJobs : ~blind' /\ stage'[k] = "create" => folders = {}
    BY <1>1 DEF FoldersInv
  <2> QED
    BY <2>2, <2>3, <2>4 DEF FoldersInv
<1>4. FilesInv'
  <2> SUFFICES ASSUME NEW k \in DriveJobs
               PROVE  /\ stage'[k] \in InFolder => folderOf'[k] \in folders
                      /\ ~blind' /\ stage'[k] = "upload" => \A f \in driveFiles : ~(f.job = k /\ f.good)
                      /\ stage'[k] \in {"uploaded", "delivered"} =>
                           \E f \in driveFiles : f.id = reported'[k] /\ f.job = k /\ f.good
    BY DEF FilesInv
  <2>1. CASE k = j
    BY <1>1, <2>1
  <2>2. CASE k # j
    BY <1>1, <2>2 DEF FilesInv
  <2> QED
    BY <2>1, <2>2
<1>5. PolicyInv'
  BY <1>1 DEF PolicyInv
<1>6. StampInv'
  BY DEF StampInv, ledgerVars
<1> QED
  BY <1>2, <1>3, <1>4, <1>5, <1>6

LEMMA AsksForDrive ==
  ASSUME DeliveryInv, NEW j \in DriveJobs, stage[j] \notin {"idle", "storeOnly"}
  PROVE  policy[j] = "drive"
BY DEF DeliveryInv, PolicyInv

LEMMA MutexIsMine ==
  ASSUME DeliveryInv, NEW j \in DriveJobs, stage[j] \in UnderMutex
  PROVE  folderMu = j
BY DEF DeliveryInv, FoldersInv

\* A lookup: the stages it may lead to, and what it tells.
LEMMA FoundMoves ==
  ASSUME DeliveryInv, NEW j \in DriveJobs, NEW found, NEW otherwise, Found(j, found, otherwise)
  PROVE  /\ folderOf' \in [DriveJobs -> Nat] /\ blind' \in BOOLEAN /\ (blind => blind')
         /\ \A k \in DriveJobs : k # j => folderOf'[k] = folderOf[k]
         /\ \/ stage' = [stage EXCEPT ![j] = found] /\ folderOf'[j] \in folders
            \/ stage' = [stage EXCEPT ![j] = otherwise] /\ (blind' \/ folders = {})
<1>1. folderOf \in [DriveJobs -> Nat] /\ blind \in BOOLEAN
  BY DEF DeliveryInv, DeliveryTyped
<1>2. CASE \E f \in folders : folderOf' = [folderOf EXCEPT ![j] = f] /\ To(j, found) /\ UNCHANGED <<blind, driveFaults>>
  <2>1. PICK f \in folders : folderOf' = [folderOf EXCEPT ![j] = f] /\ To(j, found) /\ UNCHANGED <<blind, driveFaults>>
    BY <1>2
  <2>2. f \in Nat
    BY DEF DeliveryInv, FoldersInv
  <2> QED
    BY <1>1, <2>1, <2>2 DEF To
<1>3. CASE folders = {} /\ To(j, otherwise) /\ UNCHANGED <<folderOf, blind, driveFaults>>
  BY <1>1, <1>3 DEF To
<1>4. CASE DriveFault /\ blind' = TRUE /\ To(j, otherwise) /\ UNCHANGED folderOf
  BY <1>1, <1>4 DEF To
<1> QED
  BY <1>2, <1>3, <1>4 DEF Found

LEMMA LookupKeeps ==
  ASSUME DeliveryInv, NEW j \in DriveJobs, LookupFolder(j) \/ LookAgain(j) \/ LookOnce(j)
  PROVE  DeliveryInv'
<1>1. /\ UNCHANGED <<policy, folders, folderMu, driveFiles, sent, reported, ledgerVars>>
      /\ stage[j] \notin {"idle", "storeOnly"}
  BY DEF LookupFolder, LookAgain, LookOnce
<1>2. policy[j] = "drive" /\ reported' \in [DriveJobs -> Nat]
  BY <1>1, AsksForDrive DEF DeliveryInv, DeliveryTyped
<1>3. PICK found, otherwise :
        /\ Found(j, found, otherwise)
        /\ \/ stage[j] = "lookup" /\ found = "existing" /\ otherwise = "lock"
           \/ stage[j] = "lookAgain" /\ found = "unlock" /\ otherwise = "create"
           \/ stage[j] = "lookOnce" /\ found = "unlock" /\ otherwise = "unlockFailed"
  BY DEF LookupFolder, LookAgain, LookOnce
<1>4. found \in UnderMutex \/ otherwise \in UnderMutex => folderMu = j
  BY <1>3, MutexIsMine DEF UnderMutex
<1>5. /\ folderOf' \in [DriveJobs -> Nat] /\ blind' \in BOOLEAN /\ (blind => blind')
      /\ \A k \in DriveJobs : k # j => folderOf'[k] = folderOf[k]
      /\ \/ stage' = [stage EXCEPT ![j] = found] /\ folderOf'[j] \in folders
         \/ stage' = [stage EXCEPT ![j] = otherwise] /\ (blind' \/ folders = {})
  BY <1>3, FoundMoves
<1>6. CASE stage' = [stage EXCEPT ![j] = found] /\ folderOf'[j] \in folders
  <2>1. found \in DeliveryStages /\ found \notin {"create", "upload", "uploaded", "delivered", "storeOnly"}
    BY <1>3 DEF DeliveryStages
  <2> QED
    BY <1>1, <1>2, <1>4, <1>5, <1>6, <2>1, StageMoves
<1>7. CASE stage' = [stage EXCEPT ![j] = otherwise] /\ (blind' \/ folders = {})
  <2>1. /\ otherwise \in DeliveryStages /\ otherwise \notin {"upload", "uploaded", "delivered", "storeOnly"}
        /\ otherwise \notin InFolder
    BY <1>3 DEF DeliveryStages, InFolder
  <2> QED
    BY <1>1, <1>2, <1>4, <1>5, <1>7, <2>1, StageMoves
<1> QED
  BY <1>5, <1>6, <1>7

\* The steps of a job that only change its stage, its folder's mutex or its report.
LEMMA PlainKeeps ==
  ASSUME DeliveryInv, NEW j \in DriveJobs,
         Publish(j) \/ Again(j) \/ LockFolders(j) \/ UnlockFolders(j) \/ UpdateDrive(j)
  PROVE  DeliveryInv'
<1>1. /\ UNCHANGED <<policy, folders, folderOf, driveFiles, sent, reported, blind, ledgerVars>>
      /\ \A k \in DriveJobs : k # j => folderOf'[k] = folderOf[k] /\ reported'[k] = reported[k]
  BY DEF Publish, Again, LockFolders, UnlockFolders, UpdateDrive
<1>2. folderOf' \in [DriveJobs -> Nat] /\ reported' \in [DriveJobs -> Nat] /\ blind' \in BOOLEAN /\ (blind => blind')
  BY <1>1 DEF DeliveryInv, DeliveryTyped
<1>3. CASE Publish(j)
  <2> DEFINE to == CASE WantsDrive(j) /\ ~capable -> "permanent"
                     [] WantsDrive(j) /\ capable -> "lookup"
                     [] OTHER -> "storeOnly"
  <2>1. stage' = [stage EXCEPT ![j] = to] /\ folderMu' = folderMu
    BY <1>3 DEF Publish, To
  <2>2. /\ to \in {"permanent", "lookup", "storeOnly"}
        /\ policy[j] # "drive" => to = "storeOnly"
        /\ policy[j] = "drive" => to # "storeOnly"
    BY DEF WantsDrive
  <2> HIDE DEF to
  <2>3. to \in DeliveryStages /\ to \notin UnderMutex \cup InFolder \cup {"create", "upload", "uploaded", "delivered"}
    BY <2>2 DEF DeliveryStages, UnderMutex, InFolder
  <2> QED
    BY <1>1, <1>2, <2>1, <2>2, <2>3, StageMoves
<1>4. CASE Again(j)
  <2>1. stage' = [stage EXCEPT ![j] = "idle"] /\ folderMu' = folderMu
    BY <1>4 DEF Again, To
  <2> QED
    BY <1>1, <1>2, <2>1, StageMoves DEF DeliveryStages, UnderMutex, InFolder
<1>5. CASE LockFolders(j)
  <2>1. stage' = [stage EXCEPT ![j] = "lookAgain"] /\ folderMu = "nobody" /\ folderMu' = j /\ stage[j] = "lock"
    BY <1>5 DEF LockFolders, FolderMuIsFree, To
  <2>2. policy[j] = "drive"
    BY <2>1, AsksForDrive
  <2> QED
    BY <1>1, <1>2, <2>1, <2>2, StageMoves DEF DeliveryStages, UnderMutex, InFolder
<1>6. CASE UnlockFolders(j)
  <2> DEFINE to == IF stage[j] = "unlock" THEN "existing" ELSE "failed"
  <2>1. /\ stage[j] \in {"unlock", "unlockFailed"} /\ stage' = [stage EXCEPT ![j] = to]
        /\ folderMu' = IF folderMu = j THEN "nobody" ELSE folderMu
    BY <1>6 DEF UnlockFolders, To
  <2>2. policy[j] = "drive" /\ folderMu = j
    BY <2>1, AsksForDrive, MutexIsMine DEF UnderMutex
  <2>3. /\ to \in DeliveryStages /\ to \notin UnderMutex \cup {"create", "upload", "uploaded", "delivered", "storeOnly"}
        /\ to \in InFolder => folderOf'[j] \in folders
    BY <1>1, <2>1 DEF DeliveryStages, UnderMutex, InFolder, DeliveryInv, FilesInv
  <2> HIDE DEF to
  <2> QED
    BY <1>1, <1>2, <2>1, <2>2, <2>3, StageMoves
<1>7. CASE UpdateDrive(j)
  <2>1. stage[j] = "uploaded" /\ folderMu' = folderMu
    BY <1>7 DEF UpdateDrive
  <2>2. PICK to \in {"delivered", "failed"} : stage' = [stage EXCEPT ![j] = to]
    BY <1>7 DEF UpdateDrive, To
  <2>3. policy[j] = "drive" /\ \E f \in driveFiles : f.id = reported'[j] /\ f.job = j /\ f.good
    BY <1>1, <2>1, AsksForDrive DEF DeliveryInv, FilesInv
  <2>4. to \in DeliveryStages /\ to \notin UnderMutex \cup InFolder \cup {"create", "upload", "uploaded", "storeOnly"}
    BY DEF DeliveryStages, UnderMutex, InFolder
  <2> QED
    BY <1>1, <1>2, <2>1, <2>2, <2>3, <2>4, StageMoves
<1> QED
  BY <1>3, <1>4, <1>5, <1>6, <1>7

\* Unless a lookup failed, all folders are one.
LEMMA OneFolder ==
  ASSUME DeliveryInv, ~blind, NEW f \in folders, NEW g \in folders
  PROVE  f = g
BY DEF DeliveryInv, FoldersInv

LEMMA FindKeeps ==
  ASSUME DeliveryInv, NEW j \in DriveJobs, FindExisting(j)
  PROVE  DeliveryInv'
<1>1. /\ stage[j] = "existing"
      /\ UNCHANGED <<policy, folders, folderOf, folderMu, driveFiles, sent, blind, ledgerVars>>
  BY DEF FindExisting
<1>2. /\ folderOf' \in [DriveJobs -> Nat] /\ blind' \in BOOLEAN /\ (blind => blind')
      /\ reported \in [DriveJobs -> Nat]
  BY <1>1 DEF DeliveryInv, DeliveryTyped
<1>3. policy[j] = "drive" /\ folderOf[j] \in folders
  BY <1>1, AsksForDrive DEF DeliveryInv, FilesInv, InFolder
<1>4. CASE \E f \in Existing(j) : reported' = [reported EXCEPT ![j] = f.id] /\ To(j, "uploaded")
  <2>1. PICK f \in Existing(j) : reported' = [reported EXCEPT ![j] = f.id] /\ To(j, "uploaded")
    BY <1>4
  <2>2. f \in driveFiles /\ f.job = j /\ f.good /\ f.id \in Nat
    BY DEF Existing, DeliveryInv, DeliveryTyped
  <2>3. PICK i \in Nat : i = f.id
    BY <2>2
  <2>4. /\ reported' \in [DriveJobs -> Nat] /\ reported'[j] = f.id
        /\ \A k \in DriveJobs : k # j => reported'[k] = reported[k]
    BY <1>2, <2>1, <2>3
  <2>5. stage' = [stage EXCEPT ![j] = "uploaded"]
    BY <2>1 DEF To
  <2>6. \E g \in driveFiles : g.id = reported'[j] /\ g.job = j /\ g.good
    BY <2>2, <2>4
  <2> QED
    BY <1>1, <1>2, <1>3, <2>4, <2>5, <2>6, StageMoves DEF DeliveryStages, UnderMutex
<1>5. CASE Existing(j) = {} /\ To(j, "upload") /\ UNCHANGED reported
  <2>1. ASSUME ~blind, NEW f \in driveFiles, f.job = j, f.good
        PROVE  FALSE
    <3>1. f.folder \in folders
      BY DEF DeliveryInv, FilesInv
    <3>2. f.folder = folderOf[j]
      BY <1>3, <2>1, <3>1, OneFolder
    <3> QED
      BY <1>5, <2>1, <3>2 DEF Existing
  <2>2. blind' \/ \A f \in driveFiles : ~(f.job = j /\ f.good)
    BY <1>1, <2>1
  <2>3. stage' = [stage EXCEPT ![j] = "upload"]
    BY <1>5 DEF To
  <2> QED
    BY <1>1, <1>2, <1>3, <1>5, <2>2, <2>3, StageMoves DEF DeliveryStages, UnderMutex
<1>6. CASE To(j, "failed") /\ UNCHANGED reported
  <2>1. stage' = [stage EXCEPT ![j] = "failed"]
    BY <1>6 DEF To
  <2> QED
    BY <1>1, <1>2, <1>3, <1>6, <2>1, StageMoves DEF DeliveryStages, UnderMutex, InFolder
<1> QED
  BY <1>4, <1>5, <1>6 DEF FindExisting

\* The holder of the mutex may add a folder, which is the only one if no lookup failed.
LEMMA CreateKeeps ==
  ASSUME DeliveryInv, NEW j \in DriveJobs, CreateFolder(j)
  PROVE  DeliveryInv'
<1> USE DEF DeliveryInv
<1>1. /\ stage[j] = "create" /\ folderMu = j
      /\ UNCHANGED <<policy, folderMu, driveFiles, sent, reported, blind, ledgerVars>>
  BY MutexIsMine DEF CreateFolder, UnderMutex
<1>2. policy[j] = "drive"
  BY <1>1, AsksForDrive
<1>3. PICK n \in Nat : folders = 1..n
  BY DEF FoldersInv
<1>4. NewId(folders) = n + 1
  <2>1. Cardinality(1..n) = n
    BY CountUpTo
  <2> QED
    BY <1>3, <2>1 DEF NewId
<1>5. /\ folders' = folders \cup {n + 1} \/ folders' = folders
      /\ \/ folders' = folders \cup {n + 1} /\ folderOf' = [folderOf EXCEPT ![j] = n + 1] /\ stage' = [stage EXCEPT ![j] = "unlock"]
         \/ UNCHANGED folderOf /\ stage' = [stage EXCEPT ![j] = "lookOnce"]
  BY <1>4 DEF CreateFolder, To
<1>6. folders \subseteq folders' /\ \E m \in Nat : folders' = 1..m
  <2>1. folders \cup {n + 1} = 1..(n + 1) /\ n + 1 \in Nat
    BY <1>3
  <2>2. CASE folders' = folders \cup {n + 1}
    BY <2>1, <2>2
  <2>3. CASE folders' = folders
    BY <1>3, <2>3
  <2> QED
    BY <1>5, <2>2, <2>3
<1>7. ~blind => folders' \subseteq {1}
  <2>1. ASSUME ~blind
        PROVE  folders = {} /\ n = 0
    <3>1. folders = {}
      BY <1>1, <2>1 DEF FoldersInv
    <3>2. ~(1 <= n)
      BY <1>3, <3>1
    <3> QED
      BY <3>1, <3>2
  <2> QED
    BY <1>5, <2>1
<1>8. PICK to \in {"unlock", "lookOnce"} :
        /\ stage' = [stage EXCEPT ![j] = to] /\ folderOf' \in [DriveJobs -> Nat]
        /\ \A k \in DriveJobs : k # j => folderOf'[k] = folderOf[k]
        /\ to = "unlock" => folderOf'[j] \in folders'
  BY <1>5 DEF DeliveryTyped
<1>9. stage' \in [DriveJobs -> DeliveryStages] /\ stage'[j] = to /\ \A k \in DriveJobs : k # j => stage'[k] = stage[k]
  BY <1>8 DEF DeliveryTyped, DeliveryStages
<1>10. \A k \in DriveJobs : k # j => stage[k] \notin UnderMutex
  BY <1>1, MutexIsMine
<1>11. DeliveryTyped'
  BY <1>1, <1>8, <1>9 DEF DeliveryTyped
<1>12. FoldersInv'
  <2>1. \A k \in DriveJobs : stage'[k] \in UnderMutex => k = j
    BY <1>9, <1>10
  <2>2. \A k \in DriveJobs : stage'[k] # "create"
    BY <1>9, <1>10 DEF UnderMutex
  <2> QED
    BY <1>1, <1>6, <1>7, <2>1, <2>2 DEF FoldersInv
<1>13. FilesInv'
  BY <1>1, <1>6, <1>8, <1>9 DEF FilesInv, InFolder
<1>14. PolicyInv'
  BY <1>1, <1>2, <1>9 DEF PolicyInv
<1>15. StampInv'
  BY <1>1 DEF StampInv, ledgerVars
<1> QED
  BY <1>11, <1>12, <1>13, <1>14, <1>15

\* An upload adds a file of its own job, and a good one only where there was none.
LEMMA UploadKeeps ==
  ASSUME DeliveryInv, NEW j \in DriveJobs, Upload(j)
  PROVE  DeliveryInv'
<1> USE DEF DeliveryInv
<1>1. /\ stage[j] = "upload"
      /\ UNCHANGED <<policy, folders, folderOf, folderMu, blind, ledgerVars>>
  BY DEF Upload
<1>2. policy[j] = "drive" /\ folderOf[j] \in folders
  BY <1>1, AsksForDrive DEF FilesInv, InFolder
<1>3. PICK id \in Nat : id = NewId(driveFiles)
  BY FS_CardinalityType DEF NewId, DeliveryTyped
<1> DEFINE file(good) == [id |-> id, job |-> j, folder |-> folderOf[j], good |-> good]
<1>4. \/ /\ sent' = [sent EXCEPT ![j] = id] /\ reported' = [reported EXCEPT ![j] = id]
         /\ driveFiles' = driveFiles \cup {file(TRUE)} /\ stage' = [stage EXCEPT ![j] = "uploaded"]
      \/ /\ \E good \in BOOLEAN : driveFiles' = driveFiles \cup {file(good)}
         /\ sent' = [sent EXCEPT ![j] = id] /\ reported' = reported /\ stage' = [stage EXCEPT ![j] = "failed"]
      \/ UNCHANGED <<driveFiles, sent, reported>> /\ stage' = [stage EXCEPT ![j] = "failed"]
  BY <1>3 DEF Upload, ReportAgrees, To
<1>5. CASE UNCHANGED <<driveFiles, sent, reported>> /\ stage' = [stage EXCEPT ![j] = "failed"]
  BY <1>1, <1>2, <1>5, StageMoves DEF DeliveryStages, UnderMutex, InFolder, DeliveryTyped
<1>6. ASSUME NEW good \in BOOLEAN, NEW to \in {"uploaded", "failed"},
             driveFiles' = driveFiles \cup {file(good)}, sent' = [sent EXCEPT ![j] = id],
             stage' = [stage EXCEPT ![j] = to], to = "uploaded" => good,
             reported' = IF to = "uploaded" THEN [reported EXCEPT ![j] = id] ELSE reported
      PROVE  DeliveryInv'
  <2>1. PICK f : f = file(good)
    OBVIOUS
  <2>2. f.id = id /\ f.job = j /\ f.folder = folderOf[j] /\ f.good = good /\ driveFiles' = driveFiles \cup {f}
    BY <1>6, <2>1
  <2> HIDE DEF file
  <2>3. /\ stage' \in [DriveJobs -> DeliveryStages] /\ stage'[j] = to
        /\ \A k \in DriveJobs : k # j => stage'[k] = stage[k]
    BY <1>6 DEF DeliveryTyped, DeliveryStages
  <2>4. /\ reported' \in [DriveJobs -> Nat] /\ (to = "uploaded" => reported'[j] = id)
        /\ \A k \in DriveJobs : k # j => reported'[k] = reported[k]
    <3>1. reported \in [DriveJobs -> Nat]
      BY DEF DeliveryTyped
    <3>2. CASE to = "uploaded"
      BY <1>6, <3>1, <3>2
    <3>3. CASE to = "failed"
      BY <1>6, <3>1, <3>3
    <3> QED
      BY <3>2, <3>3
  <2>5. sent' \in [DriveJobs -> Nat] /\ \A k \in DriveJobs : k # j => sent'[k] = sent[k]
    BY <1>6 DEF DeliveryTyped
  <2>6. DeliveryTyped'
    <3>1. IsFiniteSet(driveFiles')
      BY <2>2, FS_AddElement DEF DeliveryTyped
    <3>2. \A g \in driveFiles' : g.id \in Nat
      BY <2>2 DEF DeliveryTyped
    <3> QED
      BY <1>1, <2>3, <2>4, <2>5, <3>1, <3>2 DEF DeliveryTyped
  <2>7. FoldersInv'
    BY <1>1, <2>3 DEF FoldersInv, UnderMutex
  <2>8. FilesInv'
    <3>1. \A g \in driveFiles' : g.folder \in folders'
      BY <1>1, <1>2, <2>2 DEF FilesInv
    <3>2. ASSUME NEW k \in DriveJobs
          PROVE  /\ stage'[k] \in InFolder => folderOf'[k] \in folders'
                 /\ ~blind' /\ stage'[k] = "upload" => \A g \in driveFiles' : ~(g.job = k /\ g.good)
                 /\ ~blind' => \A g, h \in driveFiles' : g.job = k /\ g.good /\ h.job = k /\ h.good => g = h
                 /\ stage'[k] \in {"uploaded", "delivered"} => \E g \in driveFiles' : g.id = reported'[k] /\ g.job = k /\ g.good
      <4>1. CASE k = j
        <5>1. ~blind => \A g \in driveFiles : ~(g.job = j /\ g.good)
          BY <1>1 DEF FilesInv
        <5>2. stage'[k] \in {"uploaded", "delivered"} => f.id = reported'[k] /\ f.job = k /\ f.good /\ f \in driveFiles'
          BY <1>6, <2>2, <2>3, <2>4, <4>1
        <5> QED
          BY <1>1, <1>2, <2>2, <2>3, <4>1, <5>1, <5>2
      <4>2. CASE k # j
        BY <1>1, <2>2, <2>3, <2>4, <4>2 DEF FilesInv
      <4> QED
        BY <4>1, <4>2
    <3> QED
      BY <3>1, <3>2 DEF FilesInv
  <2>9. PolicyInv'
    BY <1>1, <1>2, <2>3, <2>5 DEF PolicyInv
  <2>10. StampInv'
    BY <1>1 DEF StampInv, ledgerVars
  <2> QED
    BY <2>6, <2>7, <2>8, <2>9, <2>10
<1>7. CASE /\ sent' = [sent EXCEPT ![j] = id] /\ reported' = [reported EXCEPT ![j] = id]
           /\ driveFiles' = driveFiles \cup {file(TRUE)} /\ stage' = [stage EXCEPT ![j] = "uploaded"]
  BY <1>6, <1>7
<1>8. CASE /\ \E good \in BOOLEAN : driveFiles' = driveFiles \cup {file(good)}
           /\ sent' = [sent EXCEPT ![j] = id] /\ reported' = reported /\ stage' = [stage EXCEPT ![j] = "failed"]
  <2>1. PICK good \in BOOLEAN : driveFiles' = driveFiles \cup {file(good)}
    BY <1>8
  <2> QED
    BY <1>6, <1>8, <2>1
<1> QED
  BY <1>4, <1>5, <1>7, <1>8

LEMMA LedgerKeeps ==
  ASSUME DeliveryInv, MigrateStep \/ OpenLedger \/ LedgerReopens
  PROVE  DeliveryInv'
<1> USE DEF DeliveryInv
<1>1. UNCHANGED deliveryVars
  BY DEF MigrateStep, OpenLedger, LedgerReopens
<1>2. DeliveryTyped' /\ FoldersInv' /\ FilesInv' /\ PolicyInv'
  BY <1>1 DEF deliveryVars, DeliveryTyped, FoldersInv, FilesInv, PolicyInv
<1>3. CASE MigrateStep
  <2>1. PICK added : added = userVersion + 1
    OBVIOUS
  <2>2. mirror = "closed" /\ userVersion < LedgerSteps /\ userVersion \in Nat /\ LedgerSteps \in Nat
    BY <1>3, DeliveryAssumption DEF MigrateStep, StampInv
  <2>3. userVersion' = added /\ UNCHANGED mirror /\ (columns' = columns \cup {added} \/ (columns' = columns /\ added \in columns))
    BY <1>3, <2>1 DEF MigrateStep, HasColumn
  <2>4. \A s \in 1..LedgerSteps : s <= added => s <= userVersion \/ s = added
    BY <2>1, <2>2
  <2>5. added \in 1..LedgerSteps /\ added \in columns' /\ columns \subseteq columns' /\ columns' \subseteq columns \cup {added}
    BY <2>1, <2>2, <2>3
  <2>6. \A s \in 1..LedgerSteps : s <= added => s \in columns'
    BY <2>4, <2>5 DEF StampInv
  <2>7. columns' \subseteq 1..LedgerSteps
    BY <2>5 DEF StampInv
  <2>8. added \in Nat /\ added <= LedgerSteps + 1
    BY <2>1, <2>2
  <2> QED
    BY <1>2, <2>2, <2>3, <2>6, <2>7, <2>8 DEF StampInv
<1>4. CASE OpenLedger
  BY <1>2, <1>4 DEF OpenLedger, IsCurrent, StampInv
<1>5. CASE LedgerReopens
  BY <1>2, <1>5 DEF LedgerReopens, StampInv
<1> QED
  BY <1>3, <1>4, <1>5

LEMMA DeliveryInvStep == DeliveryInv /\ [DeliveryNext]_deliveredVars => DeliveryInv'
<1> SUFFICES ASSUME DeliveryInv, [DeliveryNext]_deliveredVars
             PROVE  DeliveryInv'
  OBVIOUS
<1>1. CASE UNCHANGED deliveredVars
  BY <1>1 DEF deliveredVars, deliveryVars, ledgerVars, DeliveryInv, DeliveryTyped, FoldersInv, FilesInv, PolicyInv, StampInv
<1> QED
  BY <1>1, LookupKeeps, PlainKeeps, FindKeeps, CreateKeeps, UploadKeeps, LedgerKeeps DEF DeliveryNext

LEMMA DeliveryFromInv == DeliveryInv => DeliveryIsSound
<1> SUFFICES ASSUME DeliveryInv
             PROVE  DeliveryIsSound
  OBVIOUS
<1> USE DEF DeliveryInv
<1>1. ASSUME NEW j \in DriveJobs, ~blind
      PROVE  Cardinality({f \in driveFiles : f.job = j /\ f.good}) <= 1
  <2> DEFINE mine == {f \in driveFiles : f.job = j /\ f.good}
  <2>1. \A f, g \in mine : f = g
    BY <1>1 DEF FilesInv
  <2>2. mine = {} \/ \E f : mine = {f}
    BY <2>1
  <2> HIDE DEF mine
  <2>3. Cardinality(mine) \in {0, 1}
    BY <2>2, FS_EmptySet, FS_Singleton
  <2> QED
    BY <2>3 DEF mine
<1>2. ~blind => FolderIsCreatedOnce
  <2>1. ~blind => folders = {} \/ folders = {1}
    BY DEF FoldersInv
  <2> QED
    BY <2>1, FS_EmptySet, FS_Singleton DEF FolderIsCreatedOnce
<1>3. mirror = "open" => columns = 1..LedgerSteps
  <2>1. ASSUME mirror = "open", NEW s \in 1..LedgerSteps
        PROVE  s \in columns
    BY <2>1, DeliveryAssumption DEF StampInv
  <2>2. columns \subseteq 1..LedgerSteps
    BY DEF StampInv
  <2> QED
    BY <2>1, <2>2
<1>4. mirror # "broken" /\ (mirror = "open" => userVersion = LedgerSteps)
  BY DEF StampInv
<1> QED
  BY <1>1, <1>2, <1>3, <1>4 DEF DeliveryIsSound, FilesInv, PolicyInv

\* Whatever Drive loses or garbles and however often a job is attempted: what is delivered
\* is there, once and complete, and the ledger of any older worker opens with every column.
THEOREM DeliveryCorrect == DeliverySpec => []DeliveryIsSound
<1> QED
  BY DeliveryInvInit, DeliveryInvStep, DeliveryFromInv, PTL DEF DeliverySpec

-----------------------------------------------------------------------------
(* The scan for the cadence of the keyframes *)

\* Arithmetic on the multiples of an interval.
LEMMA Division ==
  ASSUME NEW n \in Nat \ {0}, NEW x \in Nat
  PROVE  x \div n \in Nat /\ x % n \in 0..(n - 1) /\ x = (x \div n) * n + (x % n)
OBVIOUS

LEMMA TimesMonotone ==
  ASSUME NEW n \in Nat, NEW a \in Int, NEW b \in Int, a <= b
  PROVE  a * n <= b * n
OBVIOUS

LEMMA MultipleHasNoRest ==
  ASSUME NEW n \in Nat \ {0}, NEW q \in Nat
  PROVE  (q * n) % n = 0
<1> DEFINE x == q * n
<1>1. x \in Nat
  OBVIOUS
<1> HIDE DEF x
<1>2. PICK k \in Nat, r \in 0..(n - 1) : r = x % n /\ x = k * n + r
  BY <1>1, Division
<1>3. x = q * n
  BY DEF x
<1>4. CASE k = q
  BY <1>2, <1>3, <1>4
<1>5. CASE k + 1 <= q
  <2>1. (k + 1) * n <= q * n
    BY <1>5, TimesMonotone
  <2>2. (k + 1) * n = k * n + n
    OBVIOUS
  <2> QED
    BY <1>2, <1>3, <2>1, <2>2
<1>6. CASE q + 1 <= k
  <2>1. (q + 1) * n <= k * n
    BY <1>6, TimesMonotone
  <2>2. (q + 1) * n = q * n + n
    OBVIOUS
  <2> QED
    BY <1>2, <1>3, <2>1, <2>2
<1> QED
  BY <1>2, <1>4, <1>5, <1>6 DEF x

LEMMA QuotientOf ==
  ASSUME NEW n \in Nat \ {0}, NEW x \in Nat, x % n = 0
  PROVE  \E k \in Nat : x = k * n
<1>1. x \div n \in Nat /\ x = (x \div n) * n + (x % n)
  BY Division
<1>2. PICK k : k = x \div n
  OBVIOUS
<1>3. k \in Nat /\ x = k * n + 0
  BY <1>1, <1>2
<1> QED
  BY <1>3

LEMMA NextMultiple ==
  ASSUME NEW n \in Nat \ {0}, NEW x \in Nat, x % n = 0
  PROVE  (x + n) % n = 0
<1>1. PICK k \in Nat : x = k * n
  BY QuotientOf
<1>2. x + n = (k + 1) * n
  BY <1>1
<1>3. ((k + 1) * n) % n = 0
  BY MultipleHasNoRest
<1> QED
  BY <1>2, <1>3

LEMMA NoMultipleBetween ==
  ASSUME NEW n \in Nat \ {0}, NEW x \in Nat, NEW y \in Nat, x % n = 0, x < y, y < x + n
  PROVE  y % n # 0
<1> SUFFICES ASSUME y % n = 0
             PROVE  FALSE
  OBVIOUS
<1>1. PICK k \in Nat : x = k * n
  BY QuotientOf
<1>2. PICK m \in Nat : y = m * n
  BY QuotientOf
<1>3. (k + 1) * n = k * n + n
  OBVIOUS
<1>4. CASE m <= k
  BY <1>1, <1>2, <1>4, TimesMonotone
<1>5. CASE k + 1 <= m
  BY <1>1, <1>2, <1>3, <1>5, TimesMonotone
<1> QED
  BY <1>4, <1>5

\* keys lists the keyframes of the first upto packets, in their order.
Keyframes(P, upto) == {i \in 1..upto : P[i]}
Listed(P, upto, keys) ==
  /\ keys \in Seq(Nat)
  /\ \A k \in 1..Len(keys) : keys[k] + 1 \in Keyframes(P, upto)
  /\ \A k, m \in 1..Len(keys) : k < m => keys[k] < keys[m]
  /\ \A i \in Keyframes(P, upto) : \E k \in 1..Len(keys) : keys[k] + 1 = i
  /\ Cardinality(Keyframes(P, upto)) = Len(keys)

\* With two keyframes or more, the first at 0, they are the multiples of their interval up
\* to the last one.
Multiples(keys) ==
  Len(keys) >= 2 /\ keys[1] = 0 =>
    /\ \A i \in 1..Len(keys) : keys[i] % (keys[2] - keys[1]) = 0
    /\ \A x \in 0..keys[Len(keys)] :
         x % (keys[2] - keys[1]) = 0 => \E i \in 1..Len(keys) : keys[i] = x

LEMMA ListedNothing ==
  ASSUME NEW P
  PROVE  Listed(P, 0, << >>) /\ Multiples(<< >>)
<1>1. Keyframes(P, 0) = {}
  BY DEF Keyframes
<1>2. Cardinality(Keyframes(P, 0)) = 0
  BY <1>1, FS_EmptySet
<1> QED
  BY <1>1, <1>2 DEF Listed, Multiples

LEMMA ListedNext ==
  ASSUME NEW P \in Seq(BOOLEAN), NEW upto \in Nat, upto < Len(P), NEW keys, Listed(P, upto, keys)
  PROVE  Listed(P, upto + 1, IF P[upto + 1] THEN Append(keys, upto) ELSE keys)
<1>1. keys \in Seq(Nat) /\ Len(keys) \in Nat /\ P[upto + 1] \in BOOLEAN
  BY DEF Listed
<1>2. PICK seen : seen = Keyframes(P, upto)
  OBVIOUS
<1>3. seen \subseteq 1..upto /\ IsFiniteSet(seen) /\ Cardinality(seen) = Len(keys)
  <2>1. IsFiniteSet(1..upto)
    BY CountUpTo
  <2> QED
    BY <1>2, <2>1, FS_Subset DEF Listed, Keyframes
<1>4. /\ \A k \in 1..Len(keys) : keys[k] + 1 \in seen
      /\ \A k, m \in 1..Len(keys) : k < m => keys[k] < keys[m]
      /\ \A i \in seen : \E k \in 1..Len(keys) : keys[k] + 1 = i
  BY <1>2 DEF Listed
<1>5. CASE P[upto + 1]
  <2>1. PICK more : more = Append(keys, upto)
    OBVIOUS
  <2>2. /\ more \in Seq(Nat) /\ Len(more) = Len(keys) + 1 /\ more[Len(keys) + 1] = upto
        /\ \A k \in 1..Len(keys) : more[k] = keys[k]
        /\ \A k \in 1..Len(more) : k \in 1..Len(keys) \/ k = Len(more)
        /\ more[Len(more)] = upto
    BY <1>1, <2>1, OneMore
  <2>3. Keyframes(P, upto + 1) = seen \cup {upto + 1} /\ upto + 1 \notin seen
    BY <1>2, <1>5 DEF Keyframes
  <2>4. Cardinality(Keyframes(P, upto + 1)) = Len(more)
    <3>1. Cardinality(seen \cup {upto + 1}) = Cardinality(seen) + 1
      BY <1>3, <2>3, FS_AddElement
    <3> QED
      BY <1>3, <2>2, <2>3, <3>1
  <2>5. ASSUME NEW k \in 1..Len(more)
        PROVE  more[k] + 1 \in Keyframes(P, upto + 1)
    BY <1>4, <2>2, <2>3
  <2>6. ASSUME NEW k \in 1..Len(more), NEW m \in 1..Len(more), k < m
        PROVE  more[k] < more[m]
    <3>1. k \in 1..Len(keys) /\ more[k] = keys[k] /\ keys[k] \in Nat
      <4>1. ~(k = Len(more))
        BY <1>1, <2>2, <2>6
      <4>2. k \in 1..Len(keys) /\ more[k] = keys[k]
        BY <2>2, <4>1
      <4> QED
        BY <1>1, <4>2
    <3>2. keys[k] + 1 \in 1..upto
      BY <1>3, <1>4, <3>1
    <3>3. CASE m = Len(more)
      BY <2>2, <3>1, <3>2, <3>3
    <3>4. CASE m \in 1..Len(keys)
      BY <1>4, <2>2, <2>6, <3>1, <3>4
    <3> QED
      BY <2>2, <3>3, <3>4
  <2>7. ASSUME NEW i \in Keyframes(P, upto + 1)
        PROVE  \E k \in 1..Len(more) : more[k] + 1 = i
    <3>1. CASE i \in seen
      <4>1. PICK k \in 1..Len(keys) : keys[k] + 1 = i
        BY <1>4, <3>1
      <4> QED
        BY <1>1, <2>2, <4>1
    <3>2. CASE i = upto + 1
      BY <1>1, <2>2, <3>2
    <3> QED
      BY <2>3, <2>7, <3>1, <3>2
  <2>8. Listed(P, upto + 1, more)
    BY <2>2, <2>4, <2>5, <2>6, <2>7 DEF Listed
  <2> QED
    BY <1>5, <2>1, <2>8
<1>6. CASE ~P[upto + 1]
  <2>1. Keyframes(P, upto + 1) = seen
    BY <1>2, <1>6 DEF Keyframes
  <2>2. Listed(P, upto + 1, keys)
    BY <1>1, <1>3, <1>4, <2>1 DEF Listed
  <2> QED
    BY <1>6, <2>2
<1> QED
  BY <1>1, <1>5, <1>6

\* Between two keyframes that follow each other there is none.
LEMMA NoneBetween ==
  ASSUME NEW P, NEW upto \in Nat, NEW keys, Listed(P, upto, keys),
         NEW k \in 1..(Len(keys) - 1), NEW x \in Nat, keys[k] < x, x < keys[k + 1]
  PROVE  x + 1 \notin Keyframes(P, upto)
<1>1. keys \in Seq(Nat) /\ Len(keys) \in Nat /\ k \in 1..Len(keys) /\ k + 1 \in 1..Len(keys)
  BY DEF Listed
<1>2. PICK n : n = k + 1
  OBVIOUS
<1>3. SUFFICES ASSUME NEW m \in 1..Len(keys), keys[m] = x
               PROVE  FALSE
  <2>1. \A i \in Keyframes(P, upto) : \E m \in 1..Len(keys) : keys[m] + 1 = i
    BY DEF Listed
  <2>2. \A m \in 1..Len(keys) : keys[m] \in Nat
    BY <1>1
  <2> QED
    BY <2>1, <2>2
<1>4. CASE m < k
  BY <1>1, <1>3, <1>4 DEF Listed
<1>5. CASE m = k
  BY <1>3, <1>5, <1>1
<1>6. CASE m = n
  BY <1>1, <1>2, <1>3, <1>6
<1>7. CASE n < m
  <2>1. keys[n] < keys[m]
    BY <1>1, <1>2, <1>7 DEF Listed
  <2> QED
    BY <1>1, <1>2, <1>3, <2>1
<1> QED
  BY <1>1, <1>2, <1>4, <1>5, <1>6, <1>7

\* In a uniform table the keyframes read so far start at 0 and are one interval apart.
LEMMA UniformGaps ==
  ASSUME NEW f, f.packets \in Seq(BOOLEAN), NEW n \in Nat, Uniform(f, n),
         NEW upto \in 0..Len(f.packets), NEW keys, Listed(f.packets, upto, keys)
  PROVE  /\ Len(keys) > 0 => keys[1] = 0
         /\ \A k \in 1..(Len(keys) - 1) : keys[k + 1] = keys[k] + n
<1>1. PICK P : P = f.packets
  OBVIOUS
<1>2. P \in Seq(BOOLEAN) /\ Len(P) \in Nat /\ DOMAIN P = 1..Len(P) /\ n \in Nat \ {0} /\ upto \in 0..Len(P)
  BY <1>1 DEF Uniform
<1>3. PICK last \in 1..Len(P) : P[last] /\ \A i \in 1..Len(P) : P[i] <=> (i - 1) % n = 0 /\ i <= last
  BY <1>1, <1>2 DEF Uniform
<1>4. keys \in Seq(Nat) /\ Len(keys) \in Nat /\ Listed(P, upto, keys)
  BY <1>1 DEF Listed
<1>5. ASSUME NEW x \in Nat, x + 1 \in 1..upto
      PROVE  x + 1 \in Keyframes(P, upto) <=> x % n = 0 /\ x + 1 <= last
  <2>1. PICK i \in 1..Len(P) : i = x + 1 /\ i - 1 = x
    BY <1>2, <1>5
  <2>2. P[i] <=> (i - 1) % n = 0 /\ i <= last
    BY <1>3
  <2> QED
    BY <1>5, <2>1, <2>2 DEF Keyframes
<1>6. ASSUME NEW k \in 1..Len(keys)
      PROVE  keys[k] \in Nat /\ keys[k] + 1 \in 1..upto /\ keys[k] % n = 0 /\ keys[k] + 1 <= last
  <2>1. keys[k] \in Nat /\ keys[k] + 1 \in Keyframes(P, upto)
    BY <1>4 DEF Listed
  <2>2. keys[k] + 1 \in 1..upto
    BY <2>1 DEF Keyframes
  <2> QED
    BY <1>5, <2>1, <2>2
<1>7. ASSUME Len(keys) > 0
      PROVE  keys[1] = 0
  <2>1. 1 \in 1..Len(keys) /\ keys[1] \in Nat /\ keys[1] + 1 \in 1..upto
    BY <1>4, <1>6, <1>7
  <2>2. 0 + 1 \in Keyframes(P, upto)
    <3>1. 0 % n = 0
      BY <1>2
    <3>2. 0 + 1 \in 1..upto /\ 0 + 1 <= last
      BY <1>2, <1>3, <2>1
    <3> QED
      BY <1>5, <3>1, <3>2
  <2>3. PICK k \in 1..Len(keys) : keys[k] + 1 = 0 + 1
    BY <2>2, <1>4 DEF Listed
  <2>4. keys[k] = 0
    BY <1>6, <2>3
  <2>5. 1 < k => keys[1] < keys[k]
    BY <1>4, <2>1 DEF Listed
  <2> QED
    BY <1>4, <2>1, <2>4, <2>5
<1>8. ASSUME NEW k \in 1..(Len(keys) - 1)
      PROVE  keys[k + 1] = keys[k] + n
  <2>1. PICK m \in 1..Len(keys) : m = k + 1 /\ k \in 1..Len(keys) /\ k < m
    BY <1>4
  <2>2. PICK x \in Nat, y \in Nat : x = keys[k] /\ y = keys[m]
    BY <1>6, <2>1
  <2>3. x < y /\ x % n = 0 /\ y % n = 0 /\ y + 1 \in 1..upto /\ y + 1 <= last
    BY <1>4, <1>6, <2>1, <2>2 DEF Listed
  <2>4. ~(y < x + n)
    BY <1>2, <2>3, NoMultipleBetween
  <2>5. ASSUME x + n < y
        PROVE  FALSE
    <3>1. PICK z \in Nat : z = x + n
      BY <1>2
    <3>2. z % n = 0
      BY <1>2, <2>3, <3>1, NextMultiple
    <3>3. z + 1 \in 1..upto /\ z + 1 <= last
      BY <1>2, <1>3, <2>3, <2>5, <3>1
    <3>4. z + 1 \in Keyframes(P, upto)
      BY <1>5, <3>2, <3>3
    <3>5. keys[k] < z /\ z < keys[k + 1]
      BY <1>2, <2>1, <2>2, <2>5, <3>1
    <3>6. upto \in Nat
      BY <1>2
    <3> QED
      BY <1>4, <3>4, <3>5, <3>6, NoneBetween
  <2>6. y = x + n
    BY <1>2, <2>4, <2>5
  <2> QED
    BY <2>1, <2>2, <2>6
<1> QED
  BY <1>7, <1>8

\* The early refusal is right: a table with a gap of another length is not uniform.
LEMMA BrokenIsNotUniform ==
  ASSUME NEW f, f.packets \in Seq(BOOLEAN), NEW upto \in 0..Len(f.packets),
         NEW keys, Listed(f.packets, upto, keys), CadenceBroken(keys)
  PROVE  ~ProvablyUniform(f)
<1> SUFFICES ASSUME NEW n \in 1..Len(f.packets), Uniform(f, n)
             PROVE  FALSE
  BY DEF ProvablyUniform
<1>1. keys \in Seq(Nat) /\ Len(keys) \in Nat /\ Len(keys) >= 3 /\ n \in Nat
  BY DEF Listed, CadenceBroken
<1>2. \A k \in 1..(Len(keys) - 1) : keys[k + 1] = keys[k] + n
  BY <1>1, UniformGaps
<1>3. 1 \in 1..(Len(keys) - 1) /\ Len(keys) - 1 \in 1..(Len(keys) - 1)
  BY <1>1
<1>4. keys[1 + 1] = keys[1] + n /\ keys[(Len(keys) - 1) + 1] = keys[Len(keys) - 1] + n
  BY <1>2, <1>3
<1>5. 1 + 1 = 2 /\ (Len(keys) - 1) + 1 = Len(keys)
  BY <1>1
<1>6. PICK a \in Nat, b \in Nat : a = keys[1] /\ b = keys[Len(keys) - 1]
  BY <1>1
<1>7. keys[2] = a + n /\ keys[Len(keys)] = b + n
  BY <1>4, <1>5, <1>6
<1>8. keys[2] - keys[1] = n /\ keys[Len(keys)] - keys[Len(keys) - 1] = n
  <2>1. n \in Nat
    BY <1>1
  <2>2. (a + n) - a = n /\ (b + n) - b = n
    BY <2>1
  <2> QED
    BY <1>6, <1>7, <2>2
<1> QED
  BY <1>8 DEF CadenceBroken

\* A keyframe that does not break the cadence is the next multiple.
LEMMA MultiplesNext ==
  ASSUME NEW P \in Seq(BOOLEAN), NEW upto \in Nat, NEW keys, Listed(P, upto, keys), Multiples(keys),
         NEW more, more = Append(keys, upto), ~CadenceBroken(more)
  PROVE  Multiples(more)
<1>1. /\ keys \in Seq(Nat) /\ Len(keys) \in Nat
      /\ more \in Seq(Nat) /\ Len(more) = Len(keys) + 1 /\ more[Len(more)] = upto
      /\ \A k \in 1..Len(keys) : more[k] = keys[k]
      /\ \A k \in 1..Len(more) : k \in 1..Len(keys) \/ k = Len(more)
  BY OneMore DEF Listed
<1> SUFFICES ASSUME Len(more) >= 2, more[1] = 0
             PROVE  /\ \A i \in 1..Len(more) : more[i] % (more[2] - more[1]) = 0
                    /\ \A x \in 0..more[Len(more)] :
                         x % (more[2] - more[1]) = 0 => \E i \in 1..Len(more) : more[i] = x
  BY DEF Multiples
<1>2. keys[1] = 0 /\ 1 \in 1..Len(keys) /\ Len(keys) \in Nat \ {0}
  BY <1>1
<1>3. \A k \in 1..Len(keys) : keys[k] \in Nat /\ keys[k] < upto
  BY <1>1 DEF Listed, Keyframes
<1>4. PICK d \in Nat \ {0} : d = more[2] - more[1]
  <2>1. more[2] \in Nat /\ more[2] > 0
    <3>1. CASE Len(keys) = 1
      BY <1>1, <1>2, <1>3, <3>1
    <3>2. CASE Len(keys) >= 2
      <4>1. 2 \in 1..Len(keys) /\ keys[1] < keys[2]
        BY <1>1, <1>2, <3>2 DEF Listed
      <4> QED
        BY <1>1, <1>2, <1>3, <4>1
    <3>3. Len(keys) = 1 \/ Len(keys) >= 2
      <4>1. PICK n \in Nat \ {0} : n = Len(keys)
        BY <1>2
      <4> QED
        BY <4>1
    <3> QED
      BY <3>1, <3>2, <3>3
  <2> QED
    BY <2>1
<1>5. PICK last \in Nat : last = keys[Len(keys)] /\ Len(keys) \in 1..Len(keys)
  BY <1>1, <1>2, <1>3
<1>6. /\ upto = last + d /\ last % d = 0
      /\ \A i \in 1..Len(keys) : keys[i] % d = 0
      /\ \A x \in 0..last : x % d = 0 => \E i \in 1..Len(keys) : keys[i] = x
  <2>1. CASE Len(keys) = 1
    <3>1. last = 0 /\ more[2] = upto /\ d = upto
      BY <1>1, <1>2, <1>4, <1>5, <2>1
    <3>2. 0 % d = 0
      OBVIOUS
    <3>3. \A i \in 1..Len(keys) : keys[i] = 0
      BY <1>2, <2>1
    <3> QED
      BY <1>2, <3>1, <3>2, <3>3
  <2>2. CASE Len(keys) >= 2
    <3>1. 2 \in 1..Len(keys) /\ d = keys[2] - keys[1]
      BY <1>1, <1>2, <1>4, <2>2
    <3>2. /\ \A i \in 1..Len(keys) : keys[i] % d = 0
          /\ \A x \in 0..last : x % d = 0 => \E i \in 1..Len(keys) : keys[i] = x
      BY <1>2, <1>5, <2>2, <3>1 DEF Multiples
    <3>3. Len(more) >= 3 /\ Len(more) - 1 = Len(keys)
      BY <1>1, <2>2
    <3>4. more[Len(more)] - more[Len(more) - 1] = more[2] - more[1]
      BY <3>3 DEF CadenceBroken
    <3>5. upto - last = d
      BY <1>1, <1>4, <1>5, <3>3, <3>4
    <3> QED
      BY <1>5, <3>2, <3>5
  <2>3. Len(keys) = 1 \/ Len(keys) >= 2
    <3>1. PICK n \in Nat \ {0} : n = Len(keys)
      BY <1>2
    <3> QED
      BY <3>1
  <2> QED
    BY <2>1, <2>2, <2>3
<1>7. upto % d = 0
  BY <1>6, NextMultiple
<1>8. ASSUME NEW i \in 1..Len(more)
      PROVE  more[i] % d = 0
  BY <1>1, <1>6, <1>7
<1>9. ASSUME NEW x \in 0..upto, x % d = 0
      PROVE  \E i \in 1..Len(more) : more[i] = x
  <2>1. CASE x <= last
    <3>1. x \in 0..last
      BY <2>1
    <3>2. PICK i \in 1..Len(keys) : keys[i] = x
      BY <1>6, <1>9, <3>1
    <3> QED
      BY <1>1, <3>2
  <2>2. CASE last < x /\ x < last + d
    <3>1. x \in Nat /\ last % d = 0
      BY <1>6
    <3> QED
      BY <1>9, <2>2, <3>1, NoMultipleBetween
  <2>3. CASE x = upto
    BY <1>1, <2>3
  <2>4. x <= last \/ (last < x /\ x < last + d) \/ x = upto
    <3>1. upto = last + d
      BY <1>6
    <3>2. PICK n \in Nat : n = upto
      BY <3>1
    <3>3. x \in 0..n /\ n = last + d
      BY <3>1, <3>2
    <3> QED
      BY <3>2, <3>3
  <2> QED
    BY <2>1, <2>2, <2>3, <2>4
<1> QED
  BY <1>1, <1>4, <1>8, <1>9

\* At the end of the table the cadence that was found is the truth about the file.
LEMMA ProvenIsUniform ==
  ASSUME NEW f, f.packets \in Seq(BOOLEAN), NEW keys, Listed(f.packets, Len(f.packets), keys),
         Multiples(keys)
  PROVE  /\ CadenceProven(keys) = ProvablyUniform(f)
         /\ CadenceProven(keys) => Uniform(f, keys[2] - keys[1])
<1>1. PICK P : P = f.packets
  OBVIOUS
<1>2. P \in Seq(BOOLEAN) /\ Len(P) \in Nat /\ DOMAIN P = 1..Len(P)
  BY <1>1
<1>3. keys \in Seq(Nat) /\ Len(keys) \in Nat /\ Listed(P, Len(P), keys)
  BY <1>1 DEF Listed
<1>4. Cardinality({i \in DOMAIN f.packets : f.packets[i]}) = Len(keys)
  BY <1>1, <1>2, <1>3 DEF Listed, Keyframes
<1>5. ASSUME CadenceProven(keys)
      PROVE  /\ keys[2] - keys[1] \in 1..Len(P)
             /\ Uniform(f, keys[2] - keys[1])
  <2>1. Len(keys) >= 3 /\ keys[1] = 0 /\ 1 \in 1..Len(keys) /\ 2 \in 1..Len(keys) /\ Len(keys) \in 1..Len(keys)
    BY <1>3, <1>5 DEF CadenceProven
  <2>2. \A k \in 1..Len(keys) :
          keys[k] \in Nat /\ keys[k] + 1 \in 1..Len(P) /\ keys[k] + 1 \in Keyframes(P, Len(P))
    BY <1>3 DEF Listed, Keyframes
  <2>3. PICK d \in Nat \ {0} : d = keys[2] - keys[1] /\ d \in 1..Len(P)
    <3>1. keys[1] < keys[2]
      BY <1>3, <2>1 DEF Listed
    <3> QED
      BY <1>2, <2>1, <2>2, <3>1
  <2>4. PICK last \in 1..Len(P) : last = keys[Len(keys)] + 1
    BY <2>1, <2>2
  <2>5. /\ \A k \in 1..Len(keys) : keys[k] % d = 0
        /\ \A x \in 0..keys[Len(keys)] : x % d = 0 => \E k \in 1..Len(keys) : keys[k] = x
    BY <2>1, <2>3 DEF Multiples
  <2>6. P[last]
    BY <2>1, <2>2, <2>4 DEF Keyframes
  <2>7. ASSUME NEW i \in 1..Len(P)
        PROVE  P[i] <=> (i - 1) % d = 0 /\ i <= last
    <3>1. ASSUME P[i]
          PROVE  (i - 1) % d = 0 /\ i <= last
      <4>1. PICK k \in 1..Len(keys) : keys[k] + 1 = i
        BY <1>3, <3>1 DEF Listed, Keyframes
      <4>2. keys[k] \in Nat /\ i - 1 = keys[k]
        <5>1. PICK x \in Nat : x = keys[k]
          BY <2>2
        <5> QED
          BY <4>1, <5>1
      <4>3. keys[k] <= keys[Len(keys)]
        <5>1. k < Len(keys) => keys[k] < keys[Len(keys)]
          BY <1>3, <2>1 DEF Listed
        <5>2. k < Len(keys) \/ k = Len(keys)
          BY <1>3
        <5>3. keys[Len(keys)] \in Nat /\ keys[k] \in Nat
          BY <2>1, <2>2
        <5>4. k = Len(keys) => keys[k] = keys[Len(keys)]
          OBVIOUS
        <5> QED
          BY <5>1, <5>2, <5>3, <5>4
      <4>4. keys[k] % d = 0 /\ keys[Len(keys)] \in Nat
        BY <2>1, <2>2, <2>5
      <4>5. i <= last
        BY <2>4, <4>1, <4>2, <4>3, <4>4
      <4> QED
        BY <4>2, <4>4, <4>5
    <3>2. ASSUME (i - 1) % d = 0, i <= last
          PROVE  P[i]
      <4>1. PICK x \in Nat : x = i - 1
        OBVIOUS
      <4>2. x \in 0..keys[Len(keys)] /\ x % d = 0
        <5>1. PICK y \in Nat : y = keys[Len(keys)]
          BY <2>1, <2>2
        <5>2. x <= y
          BY <2>4, <3>2, <4>1, <5>1
        <5> QED
          BY <3>2, <4>1, <5>1, <5>2
      <4>3. PICK k \in 1..Len(keys) : keys[k] = x
        BY <2>5, <4>2
      <4>4. i = keys[k] + 1
        BY <4>1, <4>3
      <4> QED
        BY <2>2, <4>4 DEF Keyframes
    <3> QED
      BY <1>2, <3>1, <3>2
  <2>8. \E k \in DOMAIN P : P[k] /\ \A i \in DOMAIN P : P[i] <=> (i - 1) % d = 0 /\ i <= k
    BY <1>2, <2>6, <2>7
  <2>9. Uniform(f, d)
    BY <1>1, <2>8 DEF Uniform
  <2> QED
    BY <2>3, <2>9
<1>6. ASSUME CadenceProven(keys)
      PROVE  ProvablyUniform(f)
  <2>1. Len(keys) >= 3
    BY <1>6 DEF CadenceProven
  <2> QED
    BY <1>1, <1>4, <1>5, <1>6, <2>1 DEF ProvablyUniform
<1>7. ASSUME ProvablyUniform(f)
      PROVE  CadenceProven(keys)
  <2>1. PICK n \in 1..Len(P) : Uniform(f, n)
    BY <1>1, <1>7 DEF ProvablyUniform
  <2>2. Len(keys) >= 3
    BY <1>4, <1>7 DEF ProvablyUniform
  <2>3. n \in Nat /\ Len(f.packets) \in 0..Len(f.packets)
    BY <1>1, <1>2, <2>1
  <2>4. keys[1] = 0 /\ \A k \in 1..(Len(keys) - 1) : keys[k + 1] = keys[k] + n
    <3>1. Len(keys) > 0
      BY <1>3, <2>2
    <3> QED
      BY <2>1, <2>3, <3>1, UniformGaps
  <2>5. ASSUME NEW i \in 2..Len(keys)
        PROVE  keys[i] - keys[i - 1] = n
    <3>1. PICK k \in 1..(Len(keys) - 1) : k = i - 1 /\ i = k + 1 /\ k \in 1..Len(keys)
      BY <1>3
    <3>2. keys[k + 1] = keys[k] + n /\ keys[k] \in Nat
      BY <1>3, <2>4, <3>1
    <3> QED
      BY <2>1, <3>1, <3>2
  <2>6. 2 \in 2..Len(keys) /\ 2 - 1 = 1
    BY <1>3, <2>2
  <2>7. keys[2] - keys[1] = n
    BY <2>5, <2>6
  <2>8. \A i \in 3..Len(keys) : keys[i] - keys[i - 1] = keys[2] - keys[1]
    BY <1>3, <2>5, <2>7
  <2> QED
    BY <2>2, <2>4, <2>8 DEF CadenceProven
<1>8. CadenceProven(keys) \in BOOLEAN /\ ProvablyUniform(f) \in BOOLEAN
  BY DEF CadenceProven, ProvablyUniform
<1> QED
  BY <1>5, <1>6, <1>7, <1>8

-----------------------------------------------------------------------------
(* Probes that interleave with ffprobe and share the cache *)

Fields ==
  {"stage", "runs", "file", "use", "profile", "written", "read", "keys", "child", "pipe", "measured",
   "streams", "verdict"}
IsProbe(me) == me = [x \in Fields |-> me[x]]

\* A verdict that was reached is the truth about the file.
TrueOf(f, verdict) ==
  /\ verdict.closed => ~verdict.uncertifiable
  /\ ~verdict.uncertifiable => /\ verdict.closed = ProvablyUniform(f)
                               /\ verdict.closed => Uniform(f, verdict.interval)

\* What a probe knows in each of its stages.
Knows(me) ==
  /\ IsProbe(me)
  /\ me.stage \in {"document", "scan"} => me.file \in MediaFiles
  /\ me.stage = "document" => ~me.measured
  /\ me.verdict.closed => ~me.verdict.uncertifiable
  /\ me.measured => me.streams = me.file.streams
  /\ me.stage = "scan" => /\ me.measured /\ me.read \in 0..Len(me.file.packets)
                          /\ Listed(me.file.packets, me.read, me.keys) /\ Multiples(me.keys)
  /\ me.stage \notin {"document", "scan"} /\ me.measured => TrueOf(me.file, me.verdict)
  /\ me.stage \in {"scanned", "probed"} /\ (me.profile = "assembly" \/ me.use = "import") => me.measured
  /\ me.stage = "scanned" => me.measured /\ me.file \in MediaFiles
  /\ me.stage = "accepted" /\ me.profile = "assembly" => me.measured /\ me.streams /\ me.verdict.closed
  /\ me.stage = "accepted" /\ me.use = "import" => me.measured /\ me.streams /\ me.file.decodes

CacheIsTrue == \A f \in DOMAIN probeCache : f \in MediaFiles /\ TrueOf(f, probeCache[f])
MediaInv ==
  /\ pr = [p \in Probers |-> pr[p]] /\ \A p \in Probers : Knows(pr[p])
  /\ CacheIsTrue

LEMMA NoProbeKnows ==
  ASSUME NEW n, NEW me, me = [NoProbe EXCEPT !.runs = n]
  PROVE  Knows(me)
<1>1. IsProbe(NoProbe) /\ NoProbe.stage = "idle" /\ ~NoProbe.measured /\ NoProbe.verdict = Unknown
  BY DEF NoProbe, IsProbe, Fields
<1>2. IsProbe(me) /\ me.stage = "idle" /\ ~me.measured /\ me.verdict = Unknown
  BY <1>1 DEF IsProbe, Fields
<1> QED
  BY <1>2 DEF Knows, Unknown, Verdict

LEMMA MediaInvInit == MediaInit => MediaInv
<1> SUFFICES ASSUME MediaInit
             PROVE  MediaInv
  OBVIOUS
<1>1. PICK n : n = NoProbe.runs /\ NoProbe = [NoProbe EXCEPT !.runs = n]
  BY DEF NoProbe
<1>2. Knows(NoProbe)
  BY <1>1, NoProbeKnows
<1> QED
  BY <1>2 DEF MediaInit, MediaInv, CacheIsTrue

\* One probe moves.
LEMMA ProbeMoves ==
  ASSUME MediaInv, NEW p \in Probers, NEW me, pr' = [pr EXCEPT ![p] = me], Knows(me), CacheIsTrue'
  PROVE  MediaInv'
BY DEF MediaInv

LEMMA FinalizeFactsKeeps ==
  ASSUME MediaInv, NEW p \in Probers, FinalizeFacts(p)
  PROVE  MediaInv'
<1>1. PICK was : was = pr[p] /\ was.stage = "idle" /\ IsProbe(was)
  BY DEF MediaInv, Knows, FinalizeFacts
<1>2. PICK f \in MediaFiles, profile \in {"none", "overlay", "assembly", "unlisted"},
           receipt \in {"none", "claims"}, claim \in BOOLEAN :
        pr' = [pr EXCEPT ![p] = FromReceipt(FreshProbe(p, f, "finalize", profile), receipt, claim)]
  BY Zenon DEF FinalizeFacts
<1>a. PICK started : started = FreshProbe(p, f, "finalize", profile)
  OBVIOUS
<1>b. PICK me : me = FromReceipt(started, receipt, claim)
  OBVIOUS
<1>c. pr' = [pr EXCEPT ![p] = me]
  BY <1>2, <1>a, <1>b
<1>3. /\ IsProbe(started) /\ started.file = f /\ started.use = "finalize" /\ started.profile = profile
      /\ ~started.measured /\ started.verdict = Unknown
  BY <1>1, <1>a DEF FreshProbe, IsProbe, Fields
<1>4. Knows(me)
  <2>1. CASE profile = "unlisted"
    <3>1. me = [started EXCEPT !.stage = "rejected"]
      BY <1>3, <1>b, <2>1 DEF FromReceipt
    <3>2. /\ IsProbe(me) /\ me.stage = "rejected" /\ ~me.measured /\ me.verdict = Unknown
      BY <1>3, <3>1 DEF IsProbe, Fields
    <3> QED
      BY <3>2 DEF Knows, Unknown, Verdict
  <2>2. CASE profile # "unlisted" /\ receipt = "claims" /\ ~MustProbe(profile)
    <3>1. me = [started EXCEPT !.stage = "probed", !.streams = claim, !.verdict = Verdict(claim, FALSE, 0)]
      BY <1>3, <1>b, <2>2 DEF FromReceipt
    <3>2. /\ IsProbe(me) /\ me.stage = "probed" /\ ~me.measured /\ me.verdict.uncertifiable = FALSE
          /\ me.use = "finalize" /\ me.profile = profile /\ profile # "assembly"
      BY <1>3, <2>2, <3>1 DEF IsProbe, Fields, Verdict, MustProbe, PinsCodecConfig
    <3> QED
      BY <3>2 DEF Knows
  <2>3. CASE profile # "unlisted" /\ ~(receipt = "claims" /\ ~MustProbe(profile))
    <3>1. me = [started EXCEPT !.stage = "document"]
      BY <1>3, <1>b, <2>3 DEF FromReceipt
    <3>2. /\ IsProbe(me) /\ me.stage = "document" /\ ~me.measured /\ me.verdict = Unknown /\ me.file = f
      BY <1>3, <3>1 DEF IsProbe, Fields
    <3> QED
      BY <3>2 DEF Knows, Unknown, Verdict
  <2> QED
    BY <2>1, <2>2, <2>3
<1>5. CacheIsTrue'
  BY DEF FinalizeFacts, MediaInv, CacheIsTrue
<1> QED
  BY <1>c, <1>4, <1>5, ProbeMoves

LEMMA ImportFactsKeeps ==
  ASSUME MediaInv, NEW p \in Probers, ImportFacts(p)
  PROVE  MediaInv'
<1>1. PICK was : was = pr[p] /\ was.stage = "idle" /\ IsProbe(was)
  BY DEF MediaInv, Knows, ImportFacts
<1>2. PICK f \in MediaFiles : pr' = [pr EXCEPT ![p] = FromCache(FreshProbe(p, f, "import", "none"))]
  BY Zenon DEF ImportFacts
<1>a. PICK started : started = FreshProbe(p, f, "import", "none")
  OBVIOUS
<1>b. PICK me : me = FromCache(started)
  OBVIOUS
<1>c. pr' = [pr EXCEPT ![p] = me]
  BY <1>2, <1>a, <1>b
<1>3. IsProbe(started) /\ started.file = f /\ ~started.measured /\ started.verdict = Unknown
  BY <1>1, <1>a DEF FreshProbe, IsProbe, Fields
<1>4. Knows(me)
  <2>1. CASE f \in DOMAIN probeCache
    <3>1. PICK v : v = probeCache[f] /\ TrueOf(f, v)
      BY <2>1 DEF MediaInv, CacheIsTrue
    <3>2. me = [started EXCEPT !.stage = "probed", !.measured = TRUE, !.streams = f.streams, !.verdict = v]
      BY <1>3, <1>b, <2>1, <3>1 DEF FromCache
    <3>4. /\ IsProbe(me) /\ me.stage = "probed" /\ me.measured /\ me.streams = f.streams /\ me.verdict = v
          /\ me.file = f
      BY <1>3, <3>1, <3>2 DEF IsProbe, Fields
    <3> QED
      BY <3>1, <3>4 DEF Knows, TrueOf
  <2>2. CASE f \notin DOMAIN probeCache
    <3>1. me = [started EXCEPT !.stage = "document"]
      BY <1>3, <1>b, <2>2 DEF FromCache
    <3>2. /\ IsProbe(me) /\ me.stage = "document" /\ ~me.measured /\ me.verdict = Unknown /\ me.file = f
      BY <1>3, <3>1 DEF IsProbe, Fields
    <3> QED
      BY <3>2 DEF Knows, Unknown, Verdict
  <2> QED
    BY <2>1, <2>2
<1>5. CacheIsTrue'
  BY DEF ImportFacts, MediaInv, CacheIsTrue
<1> QED
  BY <1>c, <1>4, <1>5, ProbeMoves

\* What the child and the pipe do is not what the probe knows.
LEMMA PipeMoves ==
  ASSUME MediaInv, NEW p \in Probers, NEW me, pr' = [pr EXCEPT ![p] = me], IsProbe(me),
         \A x \in Fields \ {"written", "child", "pipe"} : me[x] = pr[p][x], probeCache' = probeCache
  PROVE  MediaInv'
<1>1. PICK was : was = pr[p] /\ Knows(was)
  BY DEF MediaInv
<1>2. /\ me.stage = was.stage /\ me.file = was.file /\ me.use = was.use /\ me.profile = was.profile
      /\ me.read = was.read /\ me.keys = was.keys /\ me.measured = was.measured
      /\ me.streams = was.streams /\ me.verdict = was.verdict
  BY <1>1 DEF Fields
<1>3. Knows(me)
  BY <1>1, <1>2 DEF Knows
<1>4. CacheIsTrue'
  BY DEF MediaInv, CacheIsTrue
<1> QED
  BY <1>3, <1>4, ProbeMoves

\* The probe of a thread, before a step of it.
LEMMA ProbeOf ==
  ASSUME MediaInv, NEW p \in Probers
  PROVE  Knows(pr[p]) /\ IsProbe(pr[p]) /\ pr = [q \in Probers |-> pr[q]]
BY DEF MediaInv, Knows

LEMMA ProbeDocumentKeeps ==
  ASSUME MediaInv, NEW p \in Probers, ProbeDocument(p)
  PROVE  MediaInv'
<1>1. PICK was : was = pr[p] /\ Knows(was) /\ IsProbe(was)
  BY ProbeOf
<1>2. PICK me : me = [was EXCEPT !.stage = "scan", !.streams = was.file.streams, !.measured = TRUE,
                                 !.written = 0, !.read = 0, !.keys = << >>,
                                 !.child = "running", !.pipe = "open"]
  OBVIOUS
<1>3. pr' = [pr EXCEPT ![p] = me]
  BY <1>1, <1>2, ProbeOf DEF ProbeDocument
<1>4. /\ IsProbe(me) /\ me.stage = "scan" /\ me.streams = was.file.streams /\ me.measured = TRUE
      /\ me.read = 0 /\ me.keys = << >> /\ me.file = was.file /\ me.verdict = was.verdict
  BY <1>1, <1>2 DEF IsProbe, Fields
<1>5. was.stage = "document" /\ was.file \in MediaFiles
  BY <1>1 DEF ProbeDocument, Knows
<1>6. me.read \in 0..Len(me.file.packets) /\ Listed(me.file.packets, me.read, me.keys) /\ Multiples(me.keys)
  BY <1>4, <1>5, MediaAssumption, ListedNothing
<1>7. Knows(me)
  BY <1>1, <1>4, <1>5, <1>6 DEF Knows
<1>8. CacheIsTrue'
  BY DEF ProbeDocument, MediaInv, CacheIsTrue
<1> QED
  BY <1>3, <1>7, <1>8, ProbeMoves

LEMMA DocumentFailsKeeps ==
  ASSUME MediaInv, NEW p \in Probers, DocumentFails(p)
  PROVE  MediaInv'
<1>1. PICK was : was = pr[p] /\ Knows(was) /\ IsProbe(was)
  BY ProbeOf
<1>2. PICK me : me = [was EXCEPT !.stage = "failed"]
  OBVIOUS
<1>3. pr' = [pr EXCEPT ![p] = me]
  BY <1>1, <1>2, ProbeOf DEF DocumentFails
<1>4. IsProbe(me) /\ me.stage = "failed" /\ me.measured = was.measured /\ me.verdict = was.verdict
  BY <1>1, <1>2 DEF IsProbe, Fields
<1>5. Knows(me)
  BY <1>1, <1>4 DEF Knows, DocumentFails
<1>6. CacheIsTrue'
  BY DEF DocumentFails, MediaInv, CacheIsTrue
<1> QED
  BY <1>3, <1>5, <1>6, ProbeMoves

LEMMA ChildKeeps ==
  ASSUME MediaInv, NEW p \in Probers, ChildWrites(p) \/ ChildExits(p) \/ WaitCloses(p)
  PROVE  MediaInv'
<1>1. PICK was : was = pr[p] /\ IsProbe(was)
  BY ProbeOf
<1>2. probeCache' = probeCache
  BY DEF ChildWrites, ChildExits, WaitCloses
<1>3. CASE ChildWrites(p)
  <2>1. pr' = [pr EXCEPT ![p] = [was EXCEPT !.written = was.written + 1]]
    BY <1>1, <1>3 DEF ChildWrites
  <2>2. PICK me : me = [was EXCEPT !.written = was.written + 1]
    OBVIOUS
  <2>3. IsProbe(me) /\ \A y \in Fields \ {"written", "child", "pipe"} : me[y] = was[y]
    BY <1>1, <2>2 DEF IsProbe, Fields
  <2>4. pr' = [pr EXCEPT ![p] = me] /\ \A y \in Fields \ {"written", "child", "pipe"} : me[y] = pr[p][y]
    BY <1>1, <2>1, <2>2, <2>3
  <2> QED
    BY <1>2, <2>3, <2>4, PipeMoves
<1>4. CASE ChildExits(p)
  <2>1. PICK end \in {"done", "broken"} : pr' = [pr EXCEPT ![p] = [was EXCEPT !.child = end]]
    BY <1>1, <1>4 DEF ChildExits
  <2>2. PICK me : me = [was EXCEPT !.child = end]
    OBVIOUS
  <2>3. IsProbe(me) /\ \A y \in Fields \ {"written", "child", "pipe"} : me[y] = was[y]
    BY <1>1, <2>2 DEF IsProbe, Fields
  <2>4. pr' = [pr EXCEPT ![p] = me] /\ \A y \in Fields \ {"written", "child", "pipe"} : me[y] = pr[p][y]
    BY <1>1, <2>1, <2>2, <2>3
  <2> QED
    BY <1>2, <2>3, <2>4, PipeMoves
<1>5. CASE WaitCloses(p)
  <2>1. pr' = [pr EXCEPT ![p] = [was EXCEPT !.pipe = "closed"]]
    BY <1>1, <1>5 DEF WaitCloses
  <2>2. PICK me : me = [was EXCEPT !.pipe = "closed"]
    OBVIOUS
  <2>3. IsProbe(me) /\ \A y \in Fields \ {"written", "child", "pipe"} : me[y] = was[y]
    BY <1>1, <2>2 DEF IsProbe, Fields
  <2>4. pr' = [pr EXCEPT ![p] = me] /\ \A y \in Fields \ {"written", "child", "pipe"} : me[y] = pr[p][y]
    BY <1>1, <2>1, <2>2, <2>3
  <2> QED
    BY <1>2, <2>3, <2>4, PipeMoves
<1> QED
  BY <1>3, <1>4, <1>5

\* A verdict ends the scan, and it is true.
LEMMA ConcludesKeeps ==
  ASSUME MediaInv, NEW p \in Probers, pr[p].stage = "scan", NEW v, Concludes(p, v), TrueOf(pr[p].file, v),
         probeCache' = probeCache
  PROVE  MediaInv'
<1>1. PICK was : was = pr[p] /\ Knows(was) /\ IsProbe(was)
  BY ProbeOf
<1>2. PICK me : me = [was EXCEPT !.stage = "scanned", !.verdict = v]
  OBVIOUS
<1>3. pr' = [pr EXCEPT ![p] = me]
  BY <1>1, <1>2, ProbeOf DEF Concludes
<1>4. /\ IsProbe(me) /\ me.stage = "scanned" /\ me.verdict = v /\ me.file = was.file
      /\ me.measured = was.measured /\ me.streams = was.streams
  BY <1>1, <1>2 DEF IsProbe, Fields
<1>5. Knows(me)
  BY <1>1, <1>4 DEF Knows, TrueOf
<1>6. CacheIsTrue'
  BY DEF MediaInv, CacheIsTrue
<1> QED
  BY <1>3, <1>5, <1>6, ProbeMoves

LEMMA ReadPacketKeeps ==
  ASSUME MediaInv, NEW p \in Probers, ReadPacket(p)
  PROVE  MediaInv'
<1>1. PICK was : was = pr[p] /\ Knows(was) /\ IsProbe(was)
  BY ProbeOf
<1>2. PICK P : P = was.file.packets
  OBVIOUS
<1>3. PICK keys : keys = IF P[was.read + 1] THEN Append(was.keys, was.read) ELSE was.keys
  OBVIOUS
<1>4. /\ was.stage = "scan" /\ was.read < Len(P) /\ probeCache' = probeCache
      /\ IF CadenceBroken(keys) THEN Concludes(p, Verdict(FALSE, FALSE, 0))
         ELSE pr' = [pr EXCEPT ![p].read = @ + 1, ![p].keys = keys]
  BY <1>1, <1>2, <1>3 DEF ReadPacket
<1>5. /\ was.file \in MediaFiles /\ was.read \in 0..Len(P) /\ Listed(P, was.read, was.keys)
      /\ Multiples(was.keys) /\ was.measured
  BY <1>1, <1>2, <1>4 DEF Knows
<1>6. P \in Seq(BOOLEAN) /\ Len(P) \in Nat
  BY <1>2, <1>5, MediaAssumption
<1>7. was.read \in Nat /\ was.read + 1 \in 0..Len(P)
  BY <1>4, <1>5, <1>6
<1>8. Listed(P, was.read + 1, keys)
  BY <1>3, <1>4, <1>5, <1>6, <1>7, ListedNext
<1>9. CASE CadenceBroken(keys)
  <2>1. ~ProvablyUniform(was.file)
    BY <1>2, <1>6, <1>7, <1>8, <1>9, BrokenIsNotUniform
  <2>2. PICK v : v = Verdict(FALSE, FALSE, 0)
    OBVIOUS
  <2>3. TrueOf(was.file, v)
    BY <2>1, <2>2 DEF TrueOf, Verdict, ProvablyUniform
  <2> QED
    BY <1>1, <1>4, <1>9, <2>2, <2>3, ConcludesKeeps
<1>10. CASE ~CadenceBroken(keys)
  <2>1. PICK me : me = [was EXCEPT !.read = was.read + 1, !.keys = keys]
    OBVIOUS
  <2>2. pr' = [pr EXCEPT ![p] = me]
    BY <1>1, <1>4, <1>10, <2>1, ProbeOf
  <2>3. /\ IsProbe(me) /\ me.stage = was.stage /\ me.file = was.file /\ me.read = was.read + 1
        /\ me.keys = keys /\ me.measured = was.measured /\ me.streams = was.streams
        /\ me.verdict = was.verdict
    BY <1>1, <2>1 DEF IsProbe, Fields
  <2>4. Multiples(keys)
    BY <1>3, <1>5, <1>6, <1>7, <1>10, MultiplesNext
  <2>5. Knows(me)
    BY <1>1, <1>2, <1>4, <1>5, <1>7, <1>8, <2>3, <2>4 DEF Knows
  <2>6. CacheIsTrue'
    BY <1>4 DEF MediaInv, CacheIsTrue
  <2> QED
    BY <2>2, <2>5, <2>6, ProbeMoves
<1> QED
  BY <1>9, <1>10

LEMMA TableEndsKeeps ==
  ASSUME MediaInv, NEW p \in Probers, TableEnds(p)
  PROVE  MediaInv'
<1>1. PICK was : was = pr[p] /\ Knows(was) /\ IsProbe(was)
  BY ProbeOf
<1>2. PICK f : f = was.file
  OBVIOUS
<1>3. PICK v : v = CASE was.child = "broken" -> Unknown
                    [] was.child # "broken" /\ CadenceProven(was.keys) ->
                         Verdict(TRUE, FALSE, was.keys[2] - was.keys[1])
                    [] OTHER -> Verdict(FALSE, FALSE, 0)
  OBVIOUS
<1>4. was.stage = "scan" /\ was.read = Len(f.packets) /\ probeCache' = probeCache /\ Concludes(p, v)
  BY <1>1, <1>2, <1>3 DEF TableEnds
<1>5. f.packets \in Seq(BOOLEAN) /\ Listed(f.packets, Len(f.packets), was.keys) /\ Multiples(was.keys)
  BY <1>1, <1>2, <1>4, MediaAssumption DEF Knows
<1>6. /\ CadenceProven(was.keys) = ProvablyUniform(f)
      /\ CadenceProven(was.keys) => Uniform(f, was.keys[2] - was.keys[1])
  BY <1>5, ProvenIsUniform
<1>7. TrueOf(f, v)
  <2>1. CASE was.child = "broken"
    <3>1. v = Unknown
      BY <1>3, <2>1
    <3> QED
      BY <3>1 DEF TrueOf, Unknown, Verdict
  <2>2. CASE was.child # "broken" /\ CadenceProven(was.keys)
    <3>1. v = Verdict(TRUE, FALSE, was.keys[2] - was.keys[1])
      BY <1>3, <2>2
    <3>2. v.closed = TRUE /\ v.uncertifiable = FALSE /\ v.interval = was.keys[2] - was.keys[1]
      BY <3>1 DEF Verdict
    <3>3. ProvablyUniform(f) /\ ProvablyUniform(f) \in BOOLEAN /\ Uniform(f, v.interval)
      BY <1>6, <2>2, <3>2 DEF ProvablyUniform
    <3> QED
      BY <3>2, <3>3 DEF TrueOf
  <2>3. CASE was.child # "broken" /\ ~CadenceProven(was.keys)
    <3>1. v = Verdict(FALSE, FALSE, 0)
      BY <1>3, <2>3
    <3>2. v.closed = FALSE /\ v.uncertifiable = FALSE
      BY <3>1 DEF Verdict
    <3>3. ~ProvablyUniform(f) /\ ProvablyUniform(f) \in BOOLEAN
      BY <1>6, <2>3 DEF ProvablyUniform
    <3> QED
      BY <3>2, <3>3 DEF TrueOf
  <2> QED
    BY <2>1, <2>2, <2>3
<1> QED
  BY <1>1, <1>2, <1>4, <1>7, ConcludesKeeps

LEMMA DecodeFailsKeeps ==
  ASSUME MediaInv, NEW p \in Probers, DecodeFails(p)
  PROVE  MediaInv'
<1>1. PICK v : v = Unknown
  OBVIOUS
<1>2. TrueOf(pr[p].file, v)
  BY <1>1 DEF TrueOf, Unknown, Verdict
<1>3. pr[p].stage = "scan" /\ Concludes(p, v) /\ probeCache' = probeCache
  BY <1>1 DEF DecodeFails, FailedProbe
<1> QED
  BY <1>2, <1>3, ConcludesKeeps

\* What is kept in the cache is the verdict of the file itself.
LEMMA KeepKeeps ==
  ASSUME MediaInv, NEW p \in Probers, Keep(p)
  PROVE  MediaInv'
<1>1. PICK was : was = pr[p] /\ Knows(was) /\ IsProbe(was)
  BY ProbeOf
<1>2. PICK me : me = [was EXCEPT !.stage = "probed"]
  OBVIOUS
<1>3. pr' = [pr EXCEPT ![p] = me] /\ was.stage = "scanned"
  BY <1>1, <1>2, ProbeOf DEF Keep
<1>4. /\ IsProbe(me) /\ me.stage = "probed" /\ me.file = was.file /\ me.verdict = was.verdict
      /\ me.measured = was.measured /\ me.streams = was.streams /\ me.use = was.use
      /\ me.profile = was.profile
  BY <1>1, <1>2 DEF IsProbe, Fields
<1>5. was.measured /\ was.file \in MediaFiles /\ TrueOf(was.file, was.verdict)
  BY <1>1, <1>3 DEF Knows
<1>6. Knows(me)
  BY <1>1, <1>3, <1>4, <1>5 DEF Knows
<1>7. CacheIsTrue'
  <2>1. CASE probeCache' = probeCache
    BY <2>1 DEF MediaInv, CacheIsTrue
  <2>2. CASE probeCache' # probeCache
    <3>1. PICK kept \in SUBSET DOMAIN probeCache :
            probeCache' = [f \in kept \cup {was.file} |-> IF f = was.file THEN was.verdict ELSE probeCache[f]]
      BY <1>1, <2>2 DEF Keep
    <3>2. ASSUME NEW f \in DOMAIN probeCache'
          PROVE  f \in MediaFiles /\ TrueOf(f, probeCache'[f])
      <4>1. f \in kept \cup {was.file}
        BY <3>1, <3>2
      <4>2. probeCache'[f] = IF f = was.file THEN was.verdict ELSE probeCache[f]
        BY <3>1, <4>1
      <4>3. CASE f = was.file
        BY <1>5, <4>2, <4>3
      <4>4. CASE f # was.file
        BY <3>1, <4>1, <4>2, <4>4 DEF MediaInv, CacheIsTrue
      <4> QED
        BY <4>3, <4>4
    <3> QED
      BY <3>2 DEF CacheIsTrue
  <2> QED
    BY <2>1, <2>2
<1> QED
  BY <1>3, <1>6, <1>7, ProbeMoves

LEMMA ValidateKeeps ==
  ASSUME MediaInv, NEW p \in Probers, Validate(p)
  PROVE  MediaInv'
<1>1. PICK was : was = pr[p] /\ Knows(was) /\ IsProbe(was)
  BY ProbeOf
<1>2. PICK to \in {"accepted", "rejected"} : to = IF Accepts(was) THEN "accepted" ELSE "rejected"
  OBVIOUS
<1>3. PICK me : me = [was EXCEPT !.stage = to]
  OBVIOUS
<1>4. pr' = [pr EXCEPT ![p] = me] /\ was.stage = "probed"
  BY <1>1, <1>2, <1>3, ProbeOf DEF Validate
<1>5. /\ IsProbe(me) /\ me.stage = to /\ me.file = was.file /\ me.verdict = was.verdict
      /\ me.measured = was.measured /\ me.streams = was.streams /\ me.use = was.use
      /\ me.profile = was.profile
  BY <1>1, <1>3 DEF IsProbe, Fields
<1>6. to = "accepted" => /\ was.streams /\ (was.profile = "assembly" => was.verdict.closed)
                         /\ (was.use = "import" => was.file.decodes)
  BY <1>2 DEF Accepts, RequiresClosedGOP
<1>7. Knows(me)
  BY <1>1, <1>2, <1>4, <1>5, <1>6 DEF Knows
<1>8. CacheIsTrue'
  BY DEF Validate, MediaInv, CacheIsTrue
<1> QED
  BY <1>4, <1>7, <1>8, ProbeMoves

LEMMA NextProbeKeeps ==
  ASSUME MediaInv, NEW p \in Probers, NextProbe(p)
  PROVE  MediaInv'
<1>1. PICK n : n = pr[p].runs
  OBVIOUS
<1>2. PICK me : me = [NoProbe EXCEPT !.runs = n]
  OBVIOUS
<1>3. pr' = [pr EXCEPT ![p] = me] /\ Knows(me)
  BY <1>1, <1>2, NoProbeKnows DEF NextProbe
<1>4. CacheIsTrue'
  BY DEF NextProbe, MediaInv, CacheIsTrue
<1> QED
  BY <1>3, <1>4, ProbeMoves

LEMMA MediaStep == MediaInv /\ [MediaNext]_mediaVars => MediaInv'
<1> SUFFICES ASSUME MediaInv, [MediaNext]_mediaVars
             PROVE  MediaInv'
  OBVIOUS
<1>1. ASSUME NEW p \in Probers,
             \/ FinalizeFacts(p) \/ ImportFacts(p) \/ ProbeDocument(p) \/ DocumentFails(p)
             \/ ChildWrites(p) \/ ChildExits(p) \/ WaitCloses(p)
             \/ ReadPacket(p) \/ TableEnds(p) \/ DecodeFails(p)
             \/ Keep(p) \/ Validate(p) \/ NextProbe(p)
      PROVE  MediaInv'
  BY <1>1, FinalizeFactsKeeps, ImportFactsKeeps, ProbeDocumentKeeps, DocumentFailsKeeps, ChildKeeps,
     ReadPacketKeeps, TableEndsKeeps, DecodeFailsKeeps, KeepKeeps, ValidateKeeps, NextProbeKeeps
<1>2. CASE UNCHANGED mediaVars
  BY <1>2 DEF mediaVars, MediaInv, CacheIsTrue
<1> QED
  BY <1>1, <1>2 DEF MediaNext

LEMMA MediaTells == MediaInv => ProbeTellsTheTruth
<1> SUFFICES ASSUME MediaInv, NEW p \in Probers, NEW me, me = pr[p]
             PROVE  /\ me.measured /\ me.stage \notin {"document", "scan"} /\ ~me.verdict.uncertifiable =>
                         /\ me.verdict.closed = ProvablyUniform(me.file)
                         /\ me.verdict.closed => Uniform(me.file, me.verdict.interval)
                    /\ me.stage = "accepted" /\ me.profile = "assembly" =>
                         me.file.streams /\ ProvablyUniform(me.file)
                    /\ me.stage = "accepted" /\ me.use = "import" => me.file.streams /\ me.file.decodes
  BY DEF ProbeTellsTheTruth
<1>1. Knows(me)
  BY ProbeOf
<1> QED
  BY <1>1 DEF Knows, TrueOf

-----------------------------------------------------------------------------
(* The calibration of the renderers *)

Reports == [identical : BOOLEAN, device : 0..2, samples : Nat, tagged : Nat]

SamplerTyped ==
  /\ matrix \in Matrices /\ device \in 0..2
  /\ ticks \in Seq(Stages) /\ counter \in Nat
  /\ tick \in {"none", "read", "append"} \cup Stages
  /\ probeAt \in {"off", "over"} \cup Stages
  /\ looping \in BOOLEAN

\* The sampler runs only during a measurement, and of the samples it appended at most the
\* last is not counted yet.
SamplerInv ==
  /\ probeAt \in {"off", "over"} => ~looping
  /\ ~looping => tick = "none"
  /\ Len(ticks) = IF tick = "append" THEN counter + 1 ELSE counter

\* The reports so far: no shape has more than its repetitions.
RunsTell ==
  /\ runs = [i \in DOMAIN matrix |-> runs[i]]
  /\ \A i \in DOMAIN matrix :
       /\ runs[i] \in Seq(Reports) /\ Len(runs[i]) <= matrix[i].repeat
       /\ \A k \in DOMAIN runs[i] : runs[i][k].samples = runs[i][k].tagged

SuiteIsReal ==
  mode = "suite" /\ exit = "ok" =>
    \A i \in DOMAIN matrix :
      /\ Len(runs[i]) >= MinRunsPerShape
      /\ \A k, n \in DOMAIN runs[i] : /\ runs[i][k] # NoReport /\ runs[i][k].identical
                                      /\ runs[i][k].device = runs[i][n].device
EndIsOver ==
  /\ exit # "none" => probeAt = "over"
  /\ mode = "suite" => probeAt \notin {"setup", "probe"}

CalibrationInv == SamplerTyped /\ SamplerInv /\ RunsTell /\ SuiteIsReal /\ EndIsOver

LEMMA CalibrationInvInit == ProbeInit => CalibrationInv
<1> SUFFICES ASSUME ProbeInit
             PROVE  CalibrationInv
  OBVIOUS
<1>1. SamplerTyped
  <2>1. << >> \in Seq(Stages) /\ 0 \in Nat /\ 0 \in 0..2
    OBVIOUS
  <2> QED
    BY <2>1, Zenon DEF ProbeInit, SamplerTyped
<1>2. SamplerInv /\ EndIsOver /\ SuiteIsReal
  BY DEF ProbeInit, SamplerInv, EndIsOver, SuiteIsReal
<1>3. matrix \in Matrices /\ runs = [i \in DOMAIN matrix |-> << >>]
  BY DEF ProbeInit
<1>4. \A i \in DOMAIN matrix : matrix[i].repeat \in Nat
  BY <1>3, ProbeAssumption
<1>5. RunsTell
  BY <1>3, <1>4 DEF RunsTell
<1> QED
  BY <1>1, <1>2, <1>5 DEF CalibrationInv

LEMMA CalibrationTells == CalibrationInv => CalibrationIsReal
<1> SUFFICES ASSUME CalibrationInv
             PROVE  CalibrationIsReal
  OBVIOUS
<1>1. exit # "none" => tick = "none"
  BY DEF CalibrationInv, EndIsOver, SamplerInv
<1>2. exit = "ok" => counter = Len(ticks)
  BY <1>1 DEF CalibrationInv, SamplerInv
<1> QED
  BY <1>2 DEF CalibrationIsReal, CalibrationInv, SuiteIsReal, RunsTell

\* Every sample is in the numbers of exactly one phase.
LEMMA AllReduced ==
  ASSUME SamplerTyped
  PROVE  Reduced = Len(ticks)
<1>1. ticks \in Seq(Stages) /\ Len(ticks) \in Nat /\ DOMAIN ticks = 1..Len(ticks)
  BY DEF SamplerTyped
<1>2. DOMAIN PhaseFacts = {ticks[i] : i \in DOMAIN ticks}
  BY DEF PhaseFacts
<1>3. ASSUME NEW p \in DOMAIN PhaseFacts
      PROVE  PhaseFacts[p] = {i \in DOMAIN ticks : ticks[i] = p}
  BY <1>3 DEF PhaseFacts
<1>4. UNION {PhaseFacts[p] : p \in DOMAIN PhaseFacts} \subseteq DOMAIN ticks
  BY <1>3
<1>5. ASSUME NEW i \in DOMAIN ticks
      PROVE  i \in UNION {PhaseFacts[p] : p \in DOMAIN PhaseFacts}
  <2>1. ticks[i] \in DOMAIN PhaseFacts /\ i \in PhaseFacts[ticks[i]]
    BY <1>2, <1>3
  <2> QED
    BY <2>1
<1>6. UNION {PhaseFacts[p] : p \in DOMAIN PhaseFacts} = 1..Len(ticks)
  BY <1>1, <1>4, <1>5
<1>7. Cardinality(1..Len(ticks)) = Len(ticks)
  BY <1>1, CountUpTo
<1> QED
  BY <1>6, <1>7 DEF Reduced

\* A step that touches neither the reports nor the end keeps what they say.
LEMMA ReportsStay ==
  ASSUME CalibrationInv, UNCHANGED <<mode, matrix, runs>>, exit' = exit \/ exit' = "error",
         SamplerTyped', SamplerInv', EndIsOver'
  PROVE  CalibrationInv'
<1>1. RunsTell'
  BY DEF CalibrationInv, RunsTell
<1>2. SuiteIsReal'
  BY DEF CalibrationInv, SuiteIsReal
<1> QED
  BY <1>1, <1>2 DEF CalibrationInv

\* One repetition more.
LEMMA RecordsKeeps ==
  ASSUME CalibrationInv, NEW report \in Reports, report.samples = report.tagged,
         Records(report), exit = "none", mode' = mode, matrix' = matrix,
         tick' = "none", looping' = FALSE
  PROVE  CalibrationInv'
<1>1. PICK i \in DOMAIN matrix : i \in Unfinished /\ runs' = [runs EXCEPT ![i] = Append(@, report)]
  BY DEF Records, CurrentShape
<1>2. /\ runs = [k \in DOMAIN matrix |-> runs[k]] /\ matrix[i].repeat \in Nat
      /\ \A k \in DOMAIN matrix :
           /\ runs[k] \in Seq(Reports) /\ Len(runs[k]) <= matrix[k].repeat
           /\ \A n \in DOMAIN runs[k] : runs[k][n].samples = runs[k][n].tagged
  BY ProbeAssumption DEF CalibrationInv, RunsTell, SamplerTyped
<1>3. Len(runs[i]) < matrix[i].repeat
  BY <1>1 DEF Unfinished
<1>4. PICK old, new : old \in Seq(Reports) /\ old = runs[i] /\ new = Append(old, report)
  BY <1>2
<1>5. runs' = [runs EXCEPT ![i] = new]
  BY <1>1, <1>4
<1>6. /\ new \in Seq(Reports) /\ Len(new) <= matrix[i].repeat
      /\ \A n \in DOMAIN new : new[n].samples = new[n].tagged
  <2>1. new \in Seq(Reports) /\ Len(new) = Len(old) + 1 /\ Len(old) \in Nat
    BY <1>4
  <2>2. Len(new) <= matrix[i].repeat
    BY <1>2, <1>3, <1>4, <2>1
  <2>3. ASSUME NEW n \in DOMAIN new
        PROVE  new[n].samples = new[n].tagged
    <3>1. CASE n \in DOMAIN old
      <4>1. new[n] = old[n]
        BY <1>4, <3>1
      <4> QED
        BY <1>2, <1>4, <3>1, <4>1
    <3>2. CASE n = Len(old) + 1
      BY <1>4, <3>2
    <3>3. n \in DOMAIN old \/ n = Len(old) + 1
      BY <1>4, <2>1, <2>3
    <3> QED
      BY <3>1, <3>2, <3>3
  <2> QED
    BY <2>1, <2>2, <2>3
<1>7. RunsTell'
  BY <1>2, <1>5, <1>6 DEF RunsTell
<1>8. /\ probeAt' = "off" /\ ticks' = << >> /\ counter' = 0 /\ device' = 0 /\ exit' = exit
  BY DEF Records
<1>9. SamplerTyped'
  <2>1. << >> \in Seq(Stages) /\ 0 \in Nat /\ 0 \in 0..2
    OBVIOUS
  <2>2. /\ ticks' \in Seq(Stages) /\ counter' \in Nat /\ device' \in 0..2
        /\ tick' = "none" /\ probeAt' = "off" /\ looping' = FALSE /\ matrix' \in Matrices
    BY <1>8, <2>1 DEF CalibrationInv, SamplerTyped
  <2> QED
    BY <2>2 DEF SamplerTyped
<1>10. SamplerInv'
  BY <1>8 DEF SamplerInv
<1>11. EndIsOver' /\ SuiteIsReal'
  BY <1>8 DEF EndIsOver, SuiteIsReal
<1> QED
  BY <1>7, <1>9, <1>10, <1>11 DEF CalibrationInv

LEMMA RunFailsKeeps ==
  ASSUME CalibrationInv, RunFails, exit = "none", UNCHANGED <<mode, matrix>>,
         tick = "none", tick' = "none", looping' = FALSE
  PROVE  CalibrationInv'
<1>1. CASE Records(NoReport)
  <2>1. NoReport \in Reports /\ NoReport.samples = NoReport.tagged
    BY DEF NoReport, Reports
  <2> QED
    BY <1>1, <2>1, RecordsKeeps
<1>2. CASE exit' = "error" /\ probeAt' = "over" /\ UNCHANGED <<ticks, counter, facts, device, runs>>
  <2>1. SamplerTyped'
    BY <1>2 DEF CalibrationInv, SamplerTyped
  <2>2. SamplerInv'
    BY <1>2 DEF CalibrationInv, SamplerInv
  <2> QED
    BY <1>2, <2>1, <2>2, ReportsStay DEF EndIsOver
<1> QED
  BY <1>1, <1>2 DEF RunFails

LEMMA SamplerStepKeeps ==
  ASSUME CalibrationInv,
         ReadDevice \/ ReadingFails \/ TagSample \/ AppendSample \/ CountSample \/ SamplerGivesUp
  PROVE  CalibrationInv'
<1>1. UNCHANGED <<mode, matrix, runs, exit, device, probeAt>>
  BY DEF ReadDevice, ReadingFails, TagSample, AppendSample, CountSample, SamplerGivesUp
<1>2. SamplerTyped /\ SamplerInv /\ EndIsOver
  BY DEF CalibrationInv
<1>3. EndIsOver'
  BY <1>1, <1>2 DEF EndIsOver
<1>4. CASE ReadDevice \/ ReadingFails \/ SamplerGivesUp
  <2>1. SamplerTyped'
    BY <1>1, <1>2, <1>4 DEF ReadDevice, ReadingFails, SamplerGivesUp, SamplerTyped
  <2>2. SamplerInv'
    BY <1>1, <1>2, <1>4 DEF ReadDevice, ReadingFails, SamplerGivesUp, SamplerInv
  <2> QED
    BY <1>1, <1>3, <2>1, <2>2, ReportsStay
<1>5. CASE TagSample
  <2>1. CurrentPhase \in Stages
    BY <1>5 DEF CurrentPhase, TagSample, Stages
  <2>2. SamplerTyped'
    BY <1>1, <1>2, <1>5, <2>1 DEF TagSample, SamplerTyped
  <2>3. tick = "read" /\ tick' \notin {"none", "read", "append"}
    BY <1>5, <2>1 DEF TagSample, Stages
  <2>4. SamplerInv'
    BY <1>1, <1>2, <1>5, <2>3 DEF TagSample, SamplerInv
  <2> QED
    BY <1>1, <1>3, <2>2, <2>4, ReportsStay
<1>6. CASE AppendSample
  <2>1. tick \in Stages /\ ticks \in Seq(Stages) /\ Len(ticks) = counter /\ looping
    BY <1>2, <1>6 DEF AppendSample, SamplerTyped, SamplerInv
  <2>2. ticks' \in Seq(Stages) /\ Len(ticks') = counter + 1
    BY <1>6, <2>1 DEF AppendSample
  <2>3. SamplerTyped'
    BY <1>1, <1>2, <1>6, <2>2 DEF AppendSample, SamplerTyped
  <2>4. SamplerInv'
    BY <1>1, <1>2, <1>6, <2>1, <2>2 DEF AppendSample, SamplerInv
  <2> QED
    BY <1>1, <1>3, <2>3, <2>4, ReportsStay
<1>7. CASE CountSample
  <2>1. SamplerTyped'
    BY <1>1, <1>2, <1>7 DEF CountSample, SamplerTyped
  <2>2. SamplerInv'
    BY <1>1, <1>2, <1>7 DEF CountSample, SamplerInv
  <2> QED
    BY <1>1, <1>3, <2>1, <2>2, ReportsStay
<1> QED
  BY <1>4, <1>5, <1>6, <1>7

\* The steps between the phases of a command touch neither a tick nor a report.
LEMMA PhaseStepKeeps ==
  ASSUME CalibrationInv,
         \/ ContextEnds \/ Snapshot \/ Advance \/ AllRendered \/ Probe \/ SetProbePhase
         \/ BeginMeasurement \/ \E r \in Runtimes : RenderEnds(r) \/ ProbeJobEnds(r)
  PROVE  CalibrationInv'
<1>1. UNCHANGED <<mode, matrix, runs, exit, tick>>
  BY DEF ContextEnds, Snapshot, Advance, AllRendered, Probe, SetProbePhase, BeginMeasurement, RenderEnds,
         ProbeJobEnds
<1>2. SamplerTyped /\ SamplerInv /\ EndIsOver
  BY DEF CalibrationInv
<1>3. CASE ContextEnds \/ \E r \in Runtimes : RenderEnds(r) \/ ProbeJobEnds(r)
  <2>1. UNCHANGED <<probeAt, looping, ticks, counter, device>>
    BY <1>3 DEF ContextEnds, RenderEnds, ProbeJobEnds
  <2>2. SamplerTyped' /\ SamplerInv' /\ EndIsOver'
    BY <1>1, <1>2, <2>1 DEF SamplerTyped, SamplerInv, EndIsOver
  <2> QED
    BY <1>1, <2>2, ReportsStay
<1>4. CASE Advance \/ AllRendered \/ SetProbePhase
  <2>1. UNCHANGED <<looping, ticks, counter, device>> /\ probeAt \notin {"off", "over"}
    BY <1>4 DEF Advance, AllRendered, SetProbePhase, NextPhase
  <2>2. probeAt' \in Stages /\ (mode = "suite" => probeAt' \notin {"setup", "probe"})
    BY <1>2, <1>4 DEF Advance, AllRendered, SetProbePhase, NextPhase, Stages, EndIsOver
  <2>3. SamplerTyped' /\ EndIsOver'
    BY <1>1, <1>2, <2>1, <2>2 DEF SamplerTyped, EndIsOver
  <2>4. SamplerInv'
    BY <1>1, <1>2, <2>1, <2>2 DEF SamplerInv, Stages
  <2> QED
    BY <1>1, <2>3, <2>4, ReportsStay
<1>5. CASE Probe \/ BeginMeasurement
  <2>1. /\ UNCHANGED <<ticks, counter>> /\ probeAt = "off" /\ exit = "none" /\ looping'
        /\ probeAt' \in Stages /\ device' \in 0..2 /\ looping' = TRUE
        /\ mode = "suite" => probeAt' \notin {"setup", "probe"}
    BY <1>2, <1>5 DEF Probe, BeginMeasurement, SuiteGoesOn, Stages, SamplerTyped
  <2>2. SamplerTyped' /\ EndIsOver'
    BY <1>1, <1>2, <2>1 DEF SamplerTyped, EndIsOver
  <2>3. SamplerInv'
    BY <1>1, <1>2, <2>1 DEF SamplerInv, Stages
  <2> QED
    BY <1>1, <2>2, <2>3, ReportsStay
<1>6. CASE Snapshot
  <2>1. ticks \in Seq(Stages) /\ "idle" \in Stages
    BY <1>2 DEF SamplerTyped, Stages
  <2>2. ticks' \in Seq(Stages) /\ Len(ticks') = Len(ticks) + 1
    BY <1>6, <2>1 DEF Snapshot
  <2>3. UNCHANGED <<looping, device>> /\ probeAt = "snapshot" /\ probeAt' = "idle" /\ counter' = counter + 1
    BY <1>6 DEF Snapshot
  <2>4. SamplerTyped' /\ EndIsOver'
    BY <1>1, <1>2, <2>1, <2>2, <2>3 DEF SamplerTyped, EndIsOver
  <2>5. SamplerInv'
    BY <1>1, <1>2, <2>2, <2>3 DEF SamplerInv, SamplerTyped
  <2> QED
    BY <1>1, <2>4, <2>5, ReportsStay
<1> QED
  BY <1>3, <1>4, <1>5, <1>6

\* A repetition ends: refused, failed or reported.
LEMMA RepetitionKeeps ==
  ASSUME CalibrationInv, CannotBegin \/ PoolRefused \/ Report
  PROVE  CalibrationInv'
<1>1. SamplerTyped /\ SamplerInv /\ EndIsOver
  BY DEF CalibrationInv
<1>2. CASE CannotBegin
  <2>1. exit = "none" /\ probeAt = "off" /\ UNCHANGED <<mode, matrix, looping, tick>> /\ RunFails
    BY <1>2 DEF CannotBegin, SuiteGoesOn
  <2>2. tick = "none" /\ looping' = FALSE /\ tick' = "none"
    <3>1. ~looping
      BY <1>1, <2>1 DEF SamplerInv
    <3>2. looping \in BOOLEAN
      BY <1>1 DEF SamplerTyped
    <3> QED
      BY <1>1, <2>1, <3>1, <3>2 DEF SamplerInv
  <2> QED
    BY <2>1, <2>2, RunFailsKeeps
<1>3. CASE PoolRefused
  <2>1. /\ exit = "none" /\ UNCHANGED <<mode, matrix>> /\ RunFails
        /\ tick = "none" /\ looping' = FALSE /\ tick' = "none"
    BY <1>1, <1>3 DEF PoolRefused, StopSampler, LoopHasEnded, EndIsOver
  <2> QED
    BY <2>1, RunFailsKeeps
<1>4. CASE Report
  <2>1. /\ exit = "none" /\ UNCHANGED <<mode, matrix>>
        /\ tick = "none" /\ looping' = FALSE /\ tick' = "none"
    BY <1>1, <1>4 DEF Report, StopSampler, LoopHasEnded, EndIsOver
  <2>2. CASE RunFails
    BY <2>1, <2>2, RunFailsKeeps
  <2>3. CASE Records([identical |-> JobsIdentical, device |-> device, samples |-> counter, tagged |-> Reduced])
    <3>1. Reduced = counter /\ counter \in Nat /\ device \in 0..2 /\ JobsIdentical \in BOOLEAN
      BY <1>1, <2>1, AllReduced DEF SamplerInv, SamplerTyped, JobsIdentical
    <3>2. PICK id \in BOOLEAN, dev \in 0..2, n \in Nat :
            id = JobsIdentical /\ dev = device /\ n = counter /\ n = Reduced
      BY <3>1
    <3>3. PICK report : report = [identical |-> id, device |-> dev, samples |-> n, tagged |-> n]
      OBVIOUS
    <3>4. report \in Reports /\ report.samples = report.tagged /\ Records(report)
      BY <2>3, <3>2, <3>3 DEF Reports
    <3> QED
      BY <2>1, <3>4, RecordsKeeps
  <2> QED
    BY <1>4, <2>2, <2>3 DEF Report
<1> QED
  BY <1>2, <1>3, <1>4

\* A complete suite: as many reports as repetitions, all of them real.
LEMMA SuiteEndsKeeps ==
  ASSUME CalibrationInv, SuiteEnds
  PROVE  CalibrationInv'
<1>1. /\ UNCHANGED <<mode, matrix, looping, tick, ticks, counter, device, runs>>
      /\ probeAt = "off" /\ probeAt' = "over" /\ LoadSuiteManifest /\ Unfinished = {}
      /\ exit' = "error" \/ (exit' = "ok" /\ \A i \in DOMAIN matrix : ~IncompleteReason(i))
  BY DEF SuiteEnds
<1>2. SamplerTyped' /\ SamplerInv' /\ EndIsOver' /\ RunsTell'
  BY <1>1 DEF CalibrationInv, SamplerTyped, SamplerInv, EndIsOver, RunsTell
<1>3. ASSUME exit' = "ok", NEW i \in DOMAIN matrix
      PROVE  /\ Len(runs[i]) >= MinRunsPerShape
             /\ \A k, n \in DOMAIN runs[i] : /\ runs[i][k] # NoReport /\ runs[i][k].identical
                                             /\ runs[i][k].device = runs[i][n].device
  <2>1. PICK all \in Seq(Reports), need \in Nat :
          all = runs[i] /\ need = matrix[i].repeat /\ Len(all) <= need
    BY ProbeAssumption DEF CalibrationInv, RunsTell, SamplerTyped
  <2>2. PICK done : done = RunsCompleted(i)
    OBVIOUS
  <2>3. done \subseteq DOMAIN all /\ DOMAIN all = 1..Len(all) /\ Len(all) \in Nat
    BY <2>1, <2>2 DEF RunsCompleted
  <2>4. IsFiniteSet(1..Len(all)) /\ Cardinality(1..Len(all)) = Len(all)
    BY <2>3, CountUpTo
  <2>5. /\ ~(Cardinality(done) < need)
        /\ \A k \in done : all[k].identical
        /\ \A k, n \in done : all[k].device = all[n].device
    <3>1. ~IncompleteReason(i)
      BY <1>1, <1>3
    <3> QED
      BY <2>1, <2>2, <3>1 DEF IncompleteReason
  <2>6. IsFiniteSet(done) /\ Cardinality(done) \in Nat /\ Cardinality(done) <= Len(all)
    BY <2>3, <2>4, FS_Subset, FS_CardinalityType
  <2>7. Cardinality(done) = Len(all) /\ need = Len(all)
    BY <2>1, <2>3, <2>5, <2>6
  <2>8. done = DOMAIN all
    BY <2>3, <2>4, <2>7, FS_Subset
  <2>9. \A k \in DOMAIN all : all[k] # NoReport
    BY <2>1, <2>2, <2>8 DEF RunsCompleted
  <2>10. need >= MinRunsPerShape
    BY <1>1, <2>1 DEF LoadSuiteManifest
  <2> QED
    BY <2>1, <2>5, <2>7, <2>8, <2>9, <2>10
<1>4. SuiteIsReal'
  BY <1>1, <1>3 DEF SuiteIsReal
<1> QED
  BY <1>2, <1>4 DEF CalibrationInv

LEMMA CommandEndsKeeps ==
  ASSUME CalibrationInv, ProbeFails \/ ProbeReports \/ \E a \in BOOLEAN : Refused(a)
  PROVE  CalibrationInv'
<1>1. SamplerTyped /\ SamplerInv /\ EndIsOver
  BY DEF CalibrationInv
<1>2. CASE ProbeFails \/ ProbeReports
  <2>1. UNCHANGED <<mode, matrix, ticks, counter, device, runs>>
    BY <1>2 DEF ProbeFails, ProbeReports
  <2>2. tick = "none" /\ tick' = "none" /\ looping' = FALSE /\ probeAt' = "over"
    BY <1>2 DEF ProbeFails, ProbeReports, StopSampler, LoopHasEnded
  <2>3. SamplerTyped' /\ EndIsOver'
    BY <1>1, <2>1, <2>2 DEF SamplerTyped, EndIsOver
  <2>4. SamplerInv'
    BY <1>1, <2>1, <2>2 DEF SamplerInv
  <2>5. RunsTell'
    BY <2>1 DEF CalibrationInv, RunsTell
  <2>6. SuiteIsReal'
    <3>1. CASE ProbeFails
      BY <3>1 DEF ProbeFails, SuiteIsReal
    <3>2. CASE ProbeReports
      BY <1>1, <2>1, <3>2 DEF ProbeReports, SuiteIsReal, EndIsOver
    <3> QED
      BY <1>2, <3>1, <3>2
  <2> QED
    BY <2>3, <2>4, <2>5, <2>6 DEF CalibrationInv
<1>3. ASSUME NEW a \in BOOLEAN, Refused(a)
      PROVE  CalibrationInv'
  <2>1. /\ UNCHANGED <<mode, matrix, looping, tick, ticks, counter, device, runs>> /\ exit' = "error"
        /\ probeAt = "off" /\ probeAt' = "over"
    BY <1>3 DEF Refused
  <2>2. SamplerTyped' /\ SamplerInv' /\ EndIsOver'
    BY <1>1, <2>1 DEF SamplerTyped, SamplerInv, EndIsOver
  <2> QED
    BY <2>1, <2>2, ReportsStay
<1> QED
  BY <1>2, <1>3

LEMMA CalibrationStep == CalibrationInv /\ [ProbeNext]_probeVars => CalibrationInv'
<1> SUFFICES ASSUME CalibrationInv, [ProbeNext]_probeVars
             PROVE  CalibrationInv'
  OBVIOUS
<1>1. CASE UNCHANGED probeVars
  BY <1>1 DEF probeVars, CalibrationInv, SamplerTyped, SamplerInv, RunsTell, SuiteIsReal, EndIsOver
<1>2. CASE Refused(IF mode = "suite" THEN LoadSuiteManifest /\ PlanSuite ELSE BuildProbe)
  <2>1. PICK a \in BOOLEAN : a = IF mode = "suite" THEN LoadSuiteManifest /\ PlanSuite ELSE BuildProbe
    BY DEF LoadSuiteManifest, PlanSuite, BuildProbe
  <2> QED
    BY <1>2, <2>1, CommandEndsKeeps
<1> QED
  BY <1>1, <1>2, SamplerStepKeeps, PhaseStepKeeps, RepetitionKeeps, SuiteEndsKeeps, CommandEndsKeeps DEF ProbeNext

-----------------------------------------------------------------------------
(* The services side by side *)

LEMMA ServicesSteps ==
  ASSUME [ServicesNext]_serviceVars
  PROVE  /\ [CacheNext]_cacheVars /\ [StoreNext]_storeVars /\ [DeliveryNext]_deliveredVars
         /\ [MediaNext]_mediaVars /\ [ProbeNext]_probeVars
<1>1. [CacheNext]_cacheVars
  BY DEF ServicesNext, serviceVars, CacheRuns, StoreRuns, MediaRuns, DeliveryRuns, CalibrationRuns, ApiRuns,
         OverlayRuns, OwnersRun, FamilyRuns, CallsRun, MotionRuns, DatesRun
<1>2. [StoreNext]_storeVars
  BY DEF ServicesNext, serviceVars, CacheRuns, StoreRuns, MediaRuns, DeliveryRuns, CalibrationRuns, ApiRuns,
         OverlayRuns, OwnersRun, FamilyRuns, CallsRun, MotionRuns, DatesRun
<1>3. [DeliveryNext]_deliveredVars
  BY DEF ServicesNext, serviceVars, CacheRuns, StoreRuns, MediaRuns, DeliveryRuns, CalibrationRuns, ApiRuns,
         OverlayRuns, OwnersRun, FamilyRuns, CallsRun, MotionRuns, DatesRun
<1>4. [MediaNext]_mediaVars
  BY DEF ServicesNext, serviceVars, CacheRuns, StoreRuns, MediaRuns, DeliveryRuns, CalibrationRuns, ApiRuns,
         OverlayRuns, OwnersRun, FamilyRuns, CallsRun, MotionRuns, DatesRun
<1>5. [ProbeNext]_probeVars
  BY DEF ServicesNext, serviceVars, CacheRuns, StoreRuns, MediaRuns, DeliveryRuns, CalibrationRuns, ApiRuns,
         OverlayRuns, OwnersRun, FamilyRuns, CallsRun, MotionRuns, DatesRun
<1> QED
  BY <1>1, <1>2, <1>3, <1>4, <1>5

\* From the worker's three-level cache down to the store that survives power losses: what was
\* compared with its key stays so, what was acknowledged stays readable, and every caller is
\* served or told; what the cache takes unread is as CacheIsGenuine says.
THEOREM StorageCorrect == ServicesSpec => []StorageIsHonest
<1>1. ServicesInit => CacheInv /\ StoreInv
  BY CacheInvInit, StoreInvInit DEF ServicesInit
<1>2. CacheInv /\ StoreInv /\ [ServicesNext]_serviceVars => (CacheInv /\ StoreInv)'
  BY ServicesSteps, CacheInvStep, StoreInvStep
<1>3. CacheInv /\ StoreInv => StorageIsHonest
  BY CacheFromInv, StoreFromInv DEF StorageIsHonest
<1> QED
  BY <1>1, <1>2, <1>3, PTL DEF ServicesSpec

\* What a probe says of a file is true of it, also when it comes from the cache, and what a
\* calibration reports was measured while its own renders ran.
THEOREM MeasurementsCorrect == ServicesSpec => []MeasurementsAreReal
<1>1. ServicesInit => MediaInv /\ CalibrationInv
  BY MediaInvInit, CalibrationInvInit DEF ServicesInit
<1>2. MediaInv /\ CalibrationInv /\ [ServicesNext]_serviceVars => (MediaInv /\ CalibrationInv)'
  BY ServicesSteps, MediaStep, CalibrationStep
<1>3. MediaInv /\ CalibrationInv => MeasurementsAreReal
  BY MediaTells, CalibrationTells DEF MeasurementsAreReal
<1> QED
  BY <1>1, <1>2, <1>3, PTL DEF ServicesSpec

-----------------------------------------------------------------------------
(* The fan-in of a chunk family *)

WholeFile == [chunks : {<<>>, Chunks}, by : Runs \cup {None}, whole : BOOLEAN, shared : BOOLEAN]
RunStages == {"idle", "read", "claimed"} \cup Staging

FamilyTyped ==
  /\ state \in [Jobs -> States] /\ artifact \in [Jobs -> BOOLEAN]
  /\ at \in [Runs -> RunStages]
  /\ staged \in [Workers -> WholeFile] /\ hashed \in [Runs -> WholeFile]
  /\ span \in [Runs -> Int \X Int] /\ hostOf \in [Runs -> Workers]

\* The chunks are submitted together, and none is ever taken back.
ChunksTogether ==
  \A i, k \in DOMAIN Chunks : state[Chunks[i]] # "absent" => state[Chunks[k]] # "absent"

AllArtifacts == \A i \in 1..Len(Chunks) : artifact[Chunks[i]]
IsWhole(file) == file.chunks = Chunks /\ (file.whole \/ file.shared)

\* Past its second reading a run has seen every chunk completed.  The staging path holds
\* what a run of that host wrote, or nothing; a file that was opened with no other run at
\* the path is that of the one run there, and whole when it has been closed.
RunSound(r) ==
  /\ at[r] \in Staging => AllArtifacts
  /\ at[r] \in {"assembling", "assembled"} /\ staged[hostOf[r]] # NoFile =>
       /\ staged[hostOf[r]].chunks = Chunks
       /\ ~staged[hostOf[r]].shared =>
            staged[hostOf[r]].by = r /\ (at[r] = "assembled" => staged[hostOf[r]].whole)
  /\ at[r] \in {"hashed", "stored", "published"} => IsWhole(hashed[r])
  /\ at[r] \in {"stored", "published"} => hashed[r] \in stored
RunsInv == \A r \in Runs : RunSound(r)

FamilyInv == FamilyTyped /\ ChunksTogether /\ RunsInv /\ ParentIsWholeFamily

LEMMA NoFileTyped == NoFile \in WholeFile
BY DEF NoFile, WholeFile

LEMMA FamilyInvInit == FinalizerInit => FamilyInv
<1> SUFFICES ASSUME FinalizerInit
             PROVE  FamilyInv
  OBVIOUS
<1>1. FamilyTyped
  BY NoFileTyped, FamilyAssumption DEF FinalizerInit, Init, FamilyTyped, States, RunStages
<1>2. ChunksTogether
  BY FamilyAssumption DEF FinalizerInit, Init, ChunksTogether
<1>3. RunsInv
  BY DEF FinalizerInit, RunsInv, RunSound, Staging
<1>4. ParentIsWholeFamily
  BY FamilyAssumption DEF FinalizerInit, Init, ParentIsWholeFamily
<1> QED
  BY <1>1, <1>2, <1>3, <1>4 DEF FamilyInv

\* When every chunk is there the children are the chunks, in their order.
LEMMA AllChildren ==
  ASSUME \A i \in DOMAIN Chunks : state[Chunks[i]] # "absent"
  PROVE  Children = Chunks
<1> DEFINE there == {i \in DOMAIN Chunks : state[Chunks[i]] # "absent"}
<1>1. Chunks \in Seq(Jobs) /\ Len(Chunks) \in Nat /\ DOMAIN Chunks = 1..Len(Chunks)
  BY FamilyAssumption
<1>2. there = 1..Len(Chunks)
  BY <1>1
<1> HIDE DEF there
<1>3. ASSUME NEW i \in 1..Len(Chunks)
      PROVE  Cardinality({j \in there : j <= i}) = i
  <2>1. {j \in there : j <= i} = 1..i
    BY <1>1, <1>2
  <2>2. Cardinality(1..i) = i
    BY <1>1, CountUpTo
  <2> QED
    BY <2>1, <2>2
<1>4. Cardinality(there) = Len(Chunks)
  BY <1>1, <1>2, FS_Interval
<1> DEFINE pick(n) == CHOOSE i \in there : Cardinality({k \in there : k <= i}) = n
<1>5. ASSUME NEW n \in 1..Len(Chunks)
      PROVE  pick(n) = n
  BY <1>2, <1>3, Zenon
<1>6. Children = [n \in 1..Cardinality(there) |-> Chunks[pick(n)]]
  BY Zenon DEF Children, there
<1> HIDE DEF pick
<1>7. Children = [n \in 1..Len(Chunks) |-> Chunks[n]]
  BY <1>4, <1>5, <1>6
<1> QED
  BY <1>1, <1>7

\* A family that validates is the whole one, with every artifact.
LEMMA ValidIsWhole ==
  ASSUME FamilyInv, NEW range \in Int \X Int, ValidateChildren(Children, range)
  PROVE  Children = Chunks /\ AllArtifacts
<1>1. Chunks \in Seq(Jobs) /\ Len(Chunks) \in Nat /\ DOMAIN Chunks = 1..Len(Chunks)
  BY FamilyAssumption
<1>2. CASE \E i \in DOMAIN Chunks : state[Chunks[i]] # "absent"
  <2>1. Children = Chunks
    BY <1>2, AllChildren DEF FamilyInv, ChunksTogether
  <2>2. \A i \in 1..Len(Chunks) : artifact[Chunks[i]]
    BY <2>1 DEF ValidateChildren
  <2> QED
    BY <2>1, <2>2 DEF AllArtifacts
<1>3. CASE \A i \in DOMAIN Chunks : state[Chunks[i]] = "absent"
  <2>1. {i \in DOMAIN Chunks : state[Chunks[i]] # "absent"} = {}
    BY <1>3
  <2>2. Cardinality({i \in DOMAIN Chunks : state[Chunks[i]] # "absent"}) = 0
    BY <2>1, FS_EmptySet
  <2>3. Len(Children) = 0
    BY <2>2 DEF Children
  <2>4. range[1] < range[2] /\ range[1] = range[2]
    BY <2>3 DEF ValidateChildren
  <2> QED
    BY <2>4
<1> QED
  BY <1>2, <1>3

\* What a step of the queue may do to the family: artifacts stay, no chunk goes away, and
\* the parent is completed by its finalizer only.
QueueKeeps ==
  /\ state' \in [Jobs -> States] /\ artifact' \in [Jobs -> BOOLEAN]
  /\ \A j \in Jobs : artifact[j] => artifact'[j]
  /\ ChunksTogether'

LEMMA QueueIdles ==
  ASSUME FamilyInv, UNCHANGED vars
  PROVE  QueueKeeps /\ (state'[Parent] = "completed" => state[Parent] = "completed")
BY DEF vars, FamilyInv, FamilyTyped, QueueKeeps, ChunksTogether

\* A row that changes its state, to one that is there.
LEMMA RowChanges ==
  ASSUME FamilyInv, NEW j \in Jobs, NEW to \in States \ {"absent"}, state' = [state EXCEPT ![j] = to],
         state[j] # "absent", artifact' = artifact \/ artifact' = [artifact EXCEPT ![j] = TRUE]
  PROVE  QueueKeeps
<1>1. \A i \in DOMAIN Chunks : Chunks[i] \in Jobs
  BY FamilyAssumption
<1>2. state' \in [Jobs -> States] /\ artifact' \in [Jobs -> BOOLEAN] /\ \A k \in Jobs : artifact[k] => artifact'[k]
  BY DEF FamilyInv, FamilyTyped
<1>3. \A k \in Jobs : state'[k] = "absent" <=> state[k] = "absent"
  BY DEF FamilyInv, FamilyTyped
<1>4. ChunksTogether'
  BY <1>1, <1>3 DEF FamilyInv, ChunksTogether
<1> QED
  BY <1>2, <1>4 DEF QueueKeeps

LEMMA QueueStepKeeps ==
  ASSUME FamilyInv, QueueStep
  PROVE  QueueKeeps /\ (state'[Parent] = "completed" => state[Parent] = "completed")
<1>0. /\ Parent \in Jobs /\ \A i \in DOMAIN Chunks : Chunks[i] \in Jobs /\ Chunks[i] # Parent
      /\ DOMAIN Chunks = 1..Len(Chunks)
  BY FamilyAssumption
<1>1. ASSUME NEW S \in Submissions, SubmitBatch(S)
      PROVE  QueueKeeps /\ (state'[Parent] = "completed" => state[Parent] = "completed")
  <2>1. /\ state' = [j \in Jobs |-> IF j \in S THEN "pending" ELSE state[j]] /\ artifact' = artifact
        /\ \A j \in S : state[j] = "absent"
    BY <1>1 DEF SubmitBatch
  <2>2. state' \in [Jobs -> States] /\ \A j \in Jobs : state'[j] = IF j \in S THEN "pending" ELSE state[j]
    BY <2>1 DEF FamilyInv, FamilyTyped, States
  <2>3. \A i, k \in DOMAIN Chunks : Chunks[i] \in S => Chunks[k] \in S
    BY FamilyAssumption
  <2>4. ChunksTogether'
    BY <1>0, <2>1, <2>2, <2>3 DEF FamilyInv, ChunksTogether
  <2> QED
    BY <1>0, <2>1, <2>2, <2>4 DEF QueueKeeps, FamilyInv, FamilyTyped
<1>2. ASSUME NEW i \in 1..Len(Chunks), NEW w \in Workers, ClaimState(Chunks[i], w) \/ Complete(Chunks[i], w)
      PROVE  QueueKeeps /\ (state'[Parent] = "completed" => state[Parent] = "completed")
  <2>1. PICK j \in Jobs : j = Chunks[i] /\ j # Parent
    BY <1>0
  <2>2. PICK to \in {"running", "completed"} : state' = [state EXCEPT ![j] = to]
    BY <1>2, <2>1 DEF ClaimState, Complete
  <2>3. state[j] # "absent" /\ (artifact' = artifact \/ artifact' = [artifact EXCEPT ![j] = TRUE])
    BY <1>2, <2>1 DEF ClaimState, Complete, Eligible, ClaimableStates, Owns, HeldStates
  <2>4. to \in States \ {"absent"}
    BY DEF States
  <2> QED
    BY <1>0, <2>1, <2>2, <2>3, <2>4, RowChanges DEF FamilyInv, FamilyTyped
<1>3. CASE Cancel(Parent)
  <2>1. state' = [state EXCEPT ![Parent] = "cancelled"] /\ state[Parent] # "absent" /\ artifact' = artifact
    BY <1>3 DEF Cancel
  <2> QED
    BY <1>0, <2>1, RowChanges DEF FamilyInv, FamilyTyped, States
<1>4. CASE RequeueExpired({Parent})
  <2>1. /\ state' = [j \in Jobs |-> IF j \in {Parent} THEN AfterLostAttempt(attemptCount[j]) ELSE state[j]]
        /\ state[Parent] \in HeldStates /\ artifact' = artifact
    BY <1>4 DEF RequeueExpired, Expired, SweptStates
  <2>2. PICK to \in {"failed", "pending"} : to = AfterLostAttempt(attemptCount[Parent])
    BY DEF AfterLostAttempt
  <2>3. state' = [state EXCEPT ![Parent] = to]
    BY <1>0, <2>1, <2>2 DEF FamilyInv, FamilyTyped
  <2>4. state[Parent] # "absent" /\ to \in States \ {"absent"}
    BY <2>1 DEF HeldStates, States
  <2> QED
    BY <1>0, <2>1, <2>3, <2>4, RowChanges DEF FamilyInv, FamilyTyped
<1> QED
  BY <1>1, <1>2, <1>3, <1>4 DEF QueueStep


LEMMA ArtifactsStay ==
  ASSUME QueueKeeps, AllArtifacts
  PROVE  AllArtifacts'
<1>1. \A i \in 1..Len(Chunks) : Chunks[i] \in Jobs
  BY FamilyAssumption
<1> QED
  BY <1>1 DEF QueueKeeps, AllArtifacts

\* Nothing that happens to a completed parent's row or to the store undoes it.
LEMMA ParentStays ==
  ASSUME FamilyInv, QueueKeeps, state'[Parent] = "completed" => state[Parent] = "completed",
         finished' = finished, stored \subseteq stored'
  PROVE  ParentIsWholeFamily'
<1>1. ParentIsWholeFamily
  BY DEF FamilyInv
<1>2. ASSUME state'[Parent] = "completed"
      PROVE  /\ finished'.chunks = Chunks /\ (finished'.whole \/ finished'.shared) /\ finished' \in stored'
             /\ \A i \in 1..Len(Chunks) : artifact'[Chunks[i]]
  <2>1. finished.chunks = Chunks /\ (finished.whole \/ finished.shared) /\ finished \in stored /\ AllArtifacts
    BY <1>1, <1>2 DEF ParentIsWholeFamily, AllArtifacts
  <2>2. AllArtifacts'
    BY <2>1, ArtifactsStay
  <2> QED
    BY <2>1, <2>2 DEF AllArtifacts
<1> QED
  BY <1>2 DEF ParentIsWholeFamily

\* What may happen to the staging path of a run at it: the file is removed, closed, or
\* replaced by one that says another run was there.
PathKeeps(r, was, f) ==
  \/ f = NoFile \/ f = was
  \/ was # NoFile /\ f.chunks = was.chunks /\ f.by = was.by /\ f.shared = was.shared /\ (was.whole => f.whole)
  \/ f.chunks = Chunks /\ (at[r] \in {"assembling", "assembled"} => f.shared)

\* A run that is left alone stays sound, also when something happens to its staging file.
LEMMA RunLeftAlone ==
  ASSUME FamilyInv, QueueKeeps, NEW q \in Runs, at'[q] = at[q], hashed'[q] = hashed[q], hostOf' = hostOf,
         PathKeeps(q, staged[hostOf[q]], staged'[hostOf[q]]), stored \subseteq stored'
  PROVE  RunSound(q)'
<1>1. RunSound(q)
  BY DEF FamilyInv, RunsInv
<1>2. AllArtifacts => AllArtifacts'
  BY ArtifactsStay
<1>3. PICK was, f : was = staged[hostOf[q]] /\ f = staged'[hostOf[q]]
  OBVIOUS
<1>4. ASSUME at[q] \in {"assembling", "assembled"}, f # NoFile
      PROVE  f.chunks = Chunks /\ (~f.shared => f.by = q /\ (at[q] = "assembled" => f.whole))
  BY <1>1, <1>3, <1>4 DEF RunSound, PathKeeps
<1> QED
  BY <1>1, <1>2, <1>3, <1>4 DEF RunSound, IsWhole

\* One run moves: its stage, what it hashed and its host's staging path.
LEMMA RunMoves ==
  ASSUME FamilyInv, QueueKeeps, NEW r \in Runs, NEW to \in RunStages,
         NEW h \in WholeFile, NEW f \in WholeFile, hostOf' = hostOf,
         at' = [at EXCEPT ![r] = to], hashed' = [hashed EXCEPT ![r] = h],
         staged' = [staged EXCEPT ![hostOf[r]] = f], stored \subseteq stored',
         \A q \in Runs \ {r} : hostOf[q] = hostOf[r] => PathKeeps(q, staged[hostOf[r]], f),
         span' \in [Runs -> Int \X Int], RunSound(r)', ParentIsWholeFamily'
  PROVE  FamilyInv'
<1>2. /\ at \in [Runs -> RunStages] /\ hashed \in [Runs -> WholeFile] /\ staged \in [Workers -> WholeFile]
      /\ hostOf \in [Runs -> Workers]
  BY DEF FamilyInv, FamilyTyped
<1>3. at' \in [Runs -> RunStages] /\ hashed' \in [Runs -> WholeFile] /\ staged' \in [Workers -> WholeFile]
  BY <1>2
<1>4. FamilyTyped' /\ ChunksTogether'
  BY <1>2, <1>3 DEF FamilyTyped, QueueKeeps
<1>5. ASSUME NEW q \in Runs, q # r
      PROVE  RunSound(q)'
  <2>1. at'[q] = at[q] /\ hashed'[q] = hashed[q]
    BY <1>2, <1>5
  <2>2. PathKeeps(q, staged[hostOf[q]], staged'[hostOf[q]])
    <3>1. CASE hostOf[q] = hostOf[r]
      <4>1. staged'[hostOf[q]] = f /\ staged[hostOf[q]] = staged[hostOf[r]]
        BY <1>2, <3>1
      <4> QED
        BY <1>5, <3>1, <4>1
    <3>2. CASE hostOf[q] # hostOf[r]
      <4>1. staged'[hostOf[q]] = staged[hostOf[q]]
        BY <1>2, <3>2
      <4> QED
        BY <4>1 DEF PathKeeps
    <3> QED
      BY <3>1, <3>2
  <2> QED
    BY <2>1, <2>2, RunLeftAlone
<1>6. RunsInv'
  BY <1>5 DEF RunsInv
<1> QED
  BY <1>4, <1>6 DEF FamilyInv

\* A run that ends leaves at most its staging file.
LEMMA RunExits ==
  ASSUME FamilyInv, QueueKeeps, NEW r \in Runs, Exit(r), stored \subseteq stored', hostOf' = hostOf,
         ParentIsWholeFamily'
  PROVE  FamilyInv'
<1>1. hostOf[r] \in Workers /\ staged \in [Workers -> WholeFile] /\ at \in [Runs -> RunStages]
  BY FamilyAssumption DEF FamilyInv, FamilyTyped
<1>2. PICK f \in WholeFile : f = IF at[r] \in Staging THEN NoFile ELSE staged[hostOf[r]]
  BY <1>1, NoFileTyped
<1>3. staged' = [staged EXCEPT ![hostOf[r]] = f]
  BY <1>1, <1>2 DEF Exit
<1>4. at' = [at EXCEPT ![r] = "idle"] /\ hashed' = [hashed EXCEPT ![r] = NoFile]
  BY DEF Exit
<1>5. at'[r] = "idle"
  BY <1>1, <1>4
<1>6. RunSound(r)'
  BY <1>5 DEF RunSound, Staging
<1>8. \A q \in Runs : PathKeeps(q, staged[hostOf[r]], f)
  BY <1>2 DEF PathKeeps
<1>7. "idle" \in RunStages /\ span' \in [Runs -> Int \X Int]
  BY DEF RunStages, Exit, FamilyInv, FamilyTyped
<1> QED
  BY <1>3, <1>4, <1>6, <1>7, <1>8, NoFileTyped, RunMoves

\* A run goes on without touching its file or its hash.
LEMMA RunGoes ==
  ASSUME FamilyInv, QueueKeeps, NEW r \in Runs, NEW to \in RunStages,
         at' = [at EXCEPT ![r] = to], UNCHANGED <<hashed, staged, hostOf>>, stored \subseteq stored',
         span' \in [Runs -> Int \X Int], RunSound(r)', ParentIsWholeFamily'
  PROVE  FamilyInv'
<1>1. hostOf[r] \in Workers /\ staged \in [Workers -> WholeFile] /\ hashed \in [Runs -> WholeFile]
  BY FamilyAssumption DEF FamilyInv, FamilyTyped
<1>2. PICK f \in WholeFile : f = staged[hostOf[r]]
  BY <1>1
<1>3. PICK h \in WholeFile : h = hashed[r]
  BY <1>1
<1>4. staged' = [staged EXCEPT ![hostOf[r]] = f] /\ hashed' = [hashed EXCEPT ![r] = h]
  BY <1>1, <1>2, <1>3
<1>5. \A q \in Runs : PathKeeps(q, staged[hostOf[r]], f)
  BY <1>2 DEF PathKeeps
<1> QED
  BY <1>4, <1>5, RunMoves

LEMMA ReadFamilyKeeps ==
  ASSUME FamilyInv, NEW r \in Runs, ReadFamily(r)
  PROVE  FamilyInv'
<1>1. QueueKeeps /\ ParentIsWholeFamily'
  BY QueueIdles, ParentStays DEF ReadFamily
<1>2. at' = [at EXCEPT ![r] = "read"] /\ UNCHANGED <<hashed, staged, hostOf>> /\ stored \subseteq stored'
  BY DEF ReadFamily, Goes
<1>3. at'[r] = "read"
  BY <1>2 DEF FamilyInv, FamilyTyped
<1>4. RunSound(r)' /\ "read" \in RunStages
  BY <1>3 DEF RunSound, Staging, RunStages
<1>5. span' \in [Runs -> Int \X Int]
  <2>1. Chunks \in Seq(Jobs) /\ Len(Chunks) \in Nat /\ DOMAIN Chunks = 1..Len(Chunks)
    BY FamilyAssumption
  <2>2. Children # << >>
    BY DEF ReadFamily
  <2>3. {i \in DOMAIN Chunks : state[Chunks[i]] # "absent"} # {}
    <3>1. SUFFICES ASSUME {i \in DOMAIN Chunks : state[Chunks[i]] # "absent"} = {}
                   PROVE  Children = << >>
      BY <2>2
    <3>2. Cardinality({i \in DOMAIN Chunks : state[Chunks[i]] # "absent"}) = 0
      BY <3>1, FS_EmptySet
    <3>3. Children \in Seq(Jobs) /\ Len(Children) = 0
      BY <3>2 DEF Children
    <3> QED
      BY <3>3
  <2>4. Children = Chunks
    BY <2>3, AllChildren DEF FamilyInv, ChunksTogether
  <2>5. 1 \in DOMAIN Chunks /\ Len(Chunks) \in DOMAIN Chunks
    BY <2>1, <2>3
  <2>6. PICK range \in Int \X Int : range = ChildFrameRange(Children)
    BY <2>4, <2>5, FamilyAssumption DEF ChildFrameRange
  <2> QED
    BY <2>6 DEF ReadFamily, FamilyInv, FamilyTyped
<1> QED
  BY <1>1, <1>2, <1>4, <1>5, RunGoes

LEMMA ClaimParentKeeps ==
  ASSUME FamilyInv, NEW r \in Runs, ClaimParent(r)
  PROVE  FamilyInv'
<1>0. finished' = finished /\ stored \subseteq stored' /\ Parent \in Jobs /\ hostOf' = hostOf
  BY FamilyAssumption DEF ClaimParent
<1>1. CASE ClaimFinalization(Parent, hostOf[r]) /\ Goes(r, "read", "claimed") /\ UNCHANGED <<span, staged, hashed>>
  <2>1. PICK to \in {"failed", "finalizing"} : state' = [state EXCEPT ![Parent] = to]
    BY <1>1 DEF ClaimFinalization
  <2>2. state[Parent] # "absent" /\ artifact' = artifact /\ to \in States \ {"absent"}
    BY <1>1 DEF ClaimFinalization, States
  <2>3. QueueKeeps
    BY <1>0, <2>1, <2>2, RowChanges
  <2>4. state'[Parent] # "completed"
    BY <1>0, <2>1 DEF FamilyInv, FamilyTyped
  <2>5. ParentIsWholeFamily'
    BY <2>4 DEF ParentIsWholeFamily
  <2>6. at' = [at EXCEPT ![r] = "claimed"] /\ UNCHANGED <<hashed, staged>>
    BY <1>1 DEF Goes
  <2>7. at'[r] = "claimed"
    BY <2>6 DEF FamilyInv, FamilyTyped
  <2>8. RunSound(r)' /\ "claimed" \in RunStages
    BY <2>7 DEF RunSound, Staging, RunStages
  <2>9. span' \in [Runs -> Int \X Int]
    BY <1>1 DEF FamilyInv, FamilyTyped
  <2> QED
    BY <1>0, <2>3, <2>5, <2>6, <2>8, <2>9, RunGoes
<1>2. CASE Exit(r) /\ UNCHANGED vars
  <2>1. QueueKeeps /\ ParentIsWholeFamily'
    BY <1>0, <1>2, QueueIdles, ParentStays
  <2> QED
    BY <1>0, <1>2, <2>1, RunExits
<1> QED
  BY <1>1, <1>2 DEF ClaimParent

LEMMA RevalidateKeeps ==
  ASSUME FamilyInv, NEW r \in Runs, Revalidate(r)
  PROVE  FamilyInv'
<1>0. finished' = finished /\ stored \subseteq stored' /\ UNCHANGED vars /\ hostOf' = hostOf
  BY DEF Revalidate
<1>1. QueueKeeps /\ ParentIsWholeFamily'
  BY <1>0, QueueIdles, ParentStays
<1>2. CASE /\ ValidateChildren(Children, span[r]) /\ Goes(r, "claimed", "assembling")
           /\ staged' = [staged EXCEPT ![hostOf[r]] = [chunks |-> Children, by |-> r, whole |-> FALSE, shared |-> AtThePath(r)]]
           /\ UNCHANGED <<span, hashed>>
  <2>1. Children = Chunks /\ AllArtifacts
    BY <1>2, ValidIsWhole DEF FamilyInv, FamilyTyped
  <2>2. PICK f \in WholeFile : f = [chunks |-> Chunks, by |-> r, whole |-> FALSE, shared |-> AtThePath(r)]
    <3>1. AtThePath(r) \in BOOLEAN
      BY Zenon DEF AtThePath
    <3>2. PICK shared \in BOOLEAN : shared = AtThePath(r)
      BY <3>1
    <3>3. [chunks |-> Chunks, by |-> r, whole |-> FALSE, shared |-> shared] \in WholeFile
      BY DEF WholeFile
    <3> QED
      BY <3>2, <3>3
  <2>3. PICK h \in WholeFile : h = hashed[r]
    BY DEF FamilyInv, FamilyTyped
  <2>4. /\ at' = [at EXCEPT ![r] = "assembling"] /\ staged' = [staged EXCEPT ![hostOf[r]] = f]
        /\ hashed' = [hashed EXCEPT ![r] = h]
    BY <1>2, <2>1, <2>2, <2>3 DEF Goes, FamilyInv, FamilyTyped
  <2>5. at'[r] = "assembling" /\ staged'[hostOf[r]] = f
    BY <2>4, FamilyAssumption DEF FamilyInv, FamilyTyped
  <2>6. AllArtifacts'
    BY <1>1, <2>1, ArtifactsStay
  <2>7. RunSound(r)' /\ "assembling" \in RunStages
    BY <1>0, <2>2, <2>5, <2>6 DEF RunSound, Staging, RunStages
  <2>9. ASSUME NEW q \in Runs \ {r}, hostOf[q] = hostOf[r]
        PROVE  PathKeeps(q, staged[hostOf[r]], f)
    <3>1. f.chunks = Chunks /\ f.shared = AtThePath(r)
      BY <2>2
    <3>2. at[q] \in {"assembling", "assembled"} => AtThePath(r)
      BY <2>9 DEF AtThePath
    <3> QED
      BY <3>1, <3>2 DEF PathKeeps
  <2>8. span' \in [Runs -> Int \X Int]
    BY <1>2 DEF FamilyInv, FamilyTyped
  <2> QED
    BY <1>0, <1>1, <2>4, <2>7, <2>8, <2>9, RunMoves
<1>3. CASE Exit(r)
  BY <1>0, <1>1, <1>3, RunExits
<1> QED
  BY <1>2, <1>3 DEF Revalidate

\* What a run closes is what it wrote, unless another was at the path.
LEMMA AssembleKeeps ==
  ASSUME FamilyInv, NEW r \in Runs, Assemble(r)
  PROVE  FamilyInv'
<1>0. finished' = finished /\ stored \subseteq stored' /\ UNCHANGED vars /\ hashed' = hashed /\ hostOf' = hostOf
  BY DEF Assemble
<1>1. QueueKeeps /\ ParentIsWholeFamily'
  BY <1>0, QueueIdles, ParentStays
<1>2. staged \in [Workers -> WholeFile] /\ hostOf[r] \in Workers /\ at[r] = "assembling" /\ RunSound(r)
  BY FamilyAssumption DEF FamilyInv, FamilyTyped, RunsInv, Assemble, Goes
<1>3. PICK was \in WholeFile : was = staged[hostOf[r]]
  BY <1>2
<1>4. PICK f \in WholeFile : f = IF was.by = r THEN [was EXCEPT !.whole = TRUE] ELSE was
  BY DEF WholeFile
<1>5. staged' = [staged EXCEPT ![hostOf[r]] = f]
  BY <1>2, <1>3, <1>4 DEF Assemble
<1>6. PICK h \in WholeFile : h = hashed[r]
  BY DEF FamilyInv, FamilyTyped
<1>7. at' = [at EXCEPT ![r] = "assembled"] /\ hashed' = [hashed EXCEPT ![r] = h]
  BY <1>0, <1>6 DEF Assemble, Goes, FamilyInv, FamilyTyped
<1>8. at'[r] = "assembled" /\ staged'[hostOf[r]] = f
  BY <1>2, <1>5, <1>7 DEF FamilyInv, FamilyTyped
<1>a. /\ was.by = r => was # NoFile /\ f = [was EXCEPT !.whole = TRUE]
      /\ was.by # r => f = was
  <2>1. NoFile.by # r
    BY FamilyAssumption DEF NoFile
  <2> QED
    BY <1>4, <2>1
<1>b. f = was \/ (was # NoFile /\ f.chunks = was.chunks /\ f.by = was.by /\ f.shared = was.shared /\ f.whole)
  BY <1>a DEF WholeFile
<1>9. f # NoFile => f.chunks = Chunks /\ (~f.shared => f.by = r /\ f.whole)
  <2>1. was # NoFile => was.chunks = Chunks /\ (~was.shared => was.by = r)
    BY <1>2, <1>3 DEF RunSound
  <2>2. was.by = r => f.whole
    BY <1>a DEF WholeFile
  <2> QED
    BY <1>b, <2>1, <2>2
<1>c. \A q \in Runs : PathKeeps(q, staged[hostOf[r]], f)
  BY <1>3, <1>b DEF PathKeeps
<1>10. AllArtifacts'
  BY <1>1, <1>2, ArtifactsStay DEF RunSound, Staging
<1>11. RunSound(r)' /\ "assembled" \in RunStages
  BY <1>0, <1>8, <1>9, <1>10 DEF RunSound, Staging, RunStages
<1>12. span' \in [Runs -> Int \X Int]
  BY DEF Assemble, FamilyInv, FamilyTyped
<1> QED
  BY <1>0, <1>1, <1>5, <1>7, <1>11, <1>12, <1>c, RunMoves

LEMMA HashOutputKeeps ==
  ASSUME FamilyInv, NEW r \in Runs, HashOutput(r)
  PROVE  FamilyInv'
<1>0. finished' = finished /\ stored \subseteq stored' /\ UNCHANGED vars /\ hostOf' = hostOf
  BY DEF HashOutput
<1>1. QueueKeeps /\ ParentIsWholeFamily'
  BY <1>0, QueueIdles, ParentStays
<1>2. CASE /\ staged[hostOf[r]] # NoFile /\ Goes(r, "assembled", "hashed") /\ UNCHANGED <<span, staged>>
           /\ hashed' = [hashed EXCEPT ![r] = staged[hostOf[r]]]
  <2>1. staged \in [Workers -> WholeFile] /\ hostOf[r] \in Workers /\ at[r] = "assembled" /\ RunSound(r)
    BY <1>2, FamilyAssumption DEF FamilyInv, FamilyTyped, RunsInv, Goes
  <2>2. PICK f \in WholeFile : f = staged[hostOf[r]]
    BY <2>1
  <2>3. IsWhole(f)
    BY <1>2, <2>1, <2>2 DEF RunSound, IsWhole, WholeFile
  <2>9. \A q \in Runs : PathKeeps(q, staged[hostOf[r]], f)
    BY <2>2 DEF PathKeeps
  <2>4. /\ at' = [at EXCEPT ![r] = "hashed"] /\ hashed' = [hashed EXCEPT ![r] = f]
        /\ staged' = [staged EXCEPT ![hostOf[r]] = f]
    BY <1>2, <2>1, <2>2 DEF Goes
  <2>5. at'[r] = "hashed" /\ hashed'[r] = f
    BY <2>4 DEF FamilyInv, FamilyTyped
  <2>6. AllArtifacts'
    BY <1>1, <2>1, ArtifactsStay DEF RunSound, Staging
  <2>7. RunSound(r)' /\ "hashed" \in RunStages
    BY <2>3, <2>5, <2>6 DEF RunSound, Staging, RunStages, IsWhole
  <2>8. span' \in [Runs -> Int \X Int]
    BY <1>2 DEF FamilyInv, FamilyTyped
  <2> QED
    BY <1>0, <1>1, <2>4, <2>7, <2>8, <2>9, RunMoves
<1>3. CASE Exit(r)
  BY <1>0, <1>1, <1>3, RunExits
<1> QED
  BY <1>2, <1>3 DEF HashOutput

LEMMA StoreOutputKeeps ==
  ASSUME FamilyInv, NEW r \in Runs, StoreOutput(r)
  PROVE  FamilyInv'
<1>0. finished' = finished /\ stored \subseteq stored' /\ UNCHANGED vars /\ hostOf' = hostOf
  BY DEF StoreOutput
<1>1. QueueKeeps /\ ParentIsWholeFamily'
  BY <1>0, QueueIdles, ParentStays
<1>2. CASE /\ Goes(r, "hashed", "stored") /\ stored' = stored \cup {hashed[r]}
           /\ UNCHANGED <<span, staged, hashed>>
  <2>1. at[r] = "hashed" /\ RunSound(r) /\ at' = [at EXCEPT ![r] = "stored"]
    BY <1>2 DEF FamilyInv, RunsInv, Goes
  <2>2. at'[r] = "stored" /\ hashed'[r] \in stored' /\ IsWhole(hashed'[r])
    BY <1>2, <2>1 DEF FamilyInv, FamilyTyped, RunSound
  <2>3. AllArtifacts'
    BY <1>1, <2>1, ArtifactsStay DEF RunSound, Staging
  <2>4. RunSound(r)' /\ "stored" \in RunStages
    BY <2>2, <2>3 DEF RunSound, Staging, RunStages, IsWhole
  <2>5. span' \in [Runs -> Int \X Int]
    BY <1>2 DEF FamilyInv, FamilyTyped
  <2> QED
    BY <1>0, <1>1, <1>2, <2>1, <2>4, <2>5, RunGoes
<1>3. CASE Exit(r)
  BY <1>0, <1>1, <1>3, RunExits
<1> QED
  BY <1>2, <1>3 DEF StoreOutput

LEMMA PublishParentKeeps ==
  ASSUME FamilyInv, NEW r \in Runs, PublishParent(r)
  PROVE  FamilyInv'
<1>0. finished' = finished /\ stored' = stored /\ UNCHANGED vars /\ UNCHANGED <<staged, hashed, hostOf>>
  BY DEF PublishParent
<1>1. QueueKeeps /\ ParentIsWholeFamily'
  BY <1>0, QueueIdles, ParentStays
<1>2. at[r] = "stored" /\ RunSound(r) /\ at' = [at EXCEPT ![r] = "published"]
  BY DEF PublishParent, Goes, FamilyInv, RunsInv
<1>3. at'[r] = "published" /\ hashed'[r] \in stored' /\ IsWhole(hashed'[r])
  BY <1>0, <1>2 DEF FamilyInv, FamilyTyped, RunSound
<1>4. AllArtifacts'
  BY <1>1, <1>2, ArtifactsStay DEF RunSound, Staging
<1>5. RunSound(r)' /\ "published" \in RunStages
  BY <1>3, <1>4 DEF RunSound, Staging, RunStages, IsWhole
<1>6. span' \in [Runs -> Int \X Int]
  BY DEF PublishParent, FamilyInv, FamilyTyped
<1> QED
  BY <1>0, <1>1, <1>2, <1>5, <1>6, RunGoes

\* The parent is completed with what the run hashed, which is whole and stored.
LEMMA CompleteParentKeeps ==
  ASSUME FamilyInv, NEW r \in Runs, CompleteParent(r)
  PROVE  FamilyInv'
<1>0. Exit(r) /\ stored' = stored /\ hostOf' = hostOf /\ at[r] = "published" /\ RunSound(r) /\ Parent \in Jobs
  BY FamilyAssumption DEF CompleteParent, FamilyInv, RunsInv
<1>1. CASE Complete(Parent, hostOf[r]) /\ finished' = hashed[r]
  <2>1. /\ state' = [state EXCEPT ![Parent] = "completed"] /\ state[Parent] # "absent"
        /\ artifact' = [artifact EXCEPT ![Parent] = TRUE] /\ "completed" \in States \ {"absent"}
    BY <1>1 DEF Complete, Owns, HeldStates, States
  <2>2. QueueKeeps
    BY <1>0, <2>1, RowChanges
  <2>3. AllArtifacts'
    BY <1>0, <2>2, ArtifactsStay DEF RunSound, Staging
  <2>4. ParentIsWholeFamily'
    BY <1>0, <1>1, <2>3 DEF ParentIsWholeFamily, AllArtifacts, RunSound, IsWhole
  <2> QED
    BY <1>0, <2>2, <2>4, RunExits
<1>2. CASE UNCHANGED <<vars, finished>>
  <2>1. QueueKeeps /\ ParentIsWholeFamily'
    BY <1>0, <1>2, QueueIdles, ParentStays
  <2> QED
    BY <1>0, <1>2, <2>1, RunExits
<1> QED
  BY <1>1, <1>2 DEF CompleteParent

\* No run is touched, but a staging path may be emptied.
LEMMA RunsLeftAlone ==
  ASSUME FamilyInv, QueueKeeps, UNCHANGED <<at, span, hashed, stored, hostOf>>, ParentIsWholeFamily',
         staged' \in [Workers -> WholeFile],
         \A w \in Workers : staged'[w] = staged[w] \/ staged'[w] = NoFile
  PROVE  FamilyInv'
<1>1. \A r \in Runs : PathKeeps(r, staged[hostOf[r]], staged'[hostOf[r]])
  BY DEF PathKeeps, FamilyInv, FamilyTyped
<1>2. \A r \in Runs : RunSound(r)'
  BY <1>1, RunLeftAlone
<1> QED
  BY <1>2 DEF FamilyInv, FamilyTyped, RunsInv, QueueKeeps

LEMMA HostCrashesKeeps ==
  ASSUME FamilyInv, NEW w \in Workers, HostCrashes(w)
  PROVE  FamilyInv'
<1>0. finished' = finished /\ stored' = stored /\ staged' = staged /\ hostOf' = hostOf /\ UNCHANGED vars
  BY DEF HostCrashes
<1>1. QueueKeeps /\ ParentIsWholeFamily'
  BY <1>0, QueueIdles, ParentStays
<1>2. at' \in [Runs -> RunStages] /\ hashed' \in [Runs -> WholeFile] /\ span' \in [Runs -> Int \X Int]
  BY NoFileTyped DEF HostCrashes, FamilyInv, FamilyTyped, RunStages
<1>3. ASSUME NEW r \in Runs
      PROVE  RunSound(r)'
  <2>1. CASE hostOf[r] = w
    <3>1. at'[r] = "idle"
      BY <2>1 DEF HostCrashes
    <3> QED
      BY <3>1 DEF RunSound, Staging
  <2>2. CASE hostOf[r] # w
    <3>1. at'[r] = at[r] /\ hashed'[r] = hashed[r]
      BY <2>2 DEF HostCrashes
    <3> QED
      BY <1>0, <1>1, <3>1, RunLeftAlone DEF PathKeeps
  <2> QED
    BY <2>1, <2>2
<1> QED
  BY <1>0, <1>1, <1>2, <1>3 DEF FamilyInv, FamilyTyped, RunsInv, QueueKeeps

LEMMA FamilyStep ==
  ASSUME FamilyInv, [FinalizerNext]_familyVars
  PROVE  FamilyInv'
<1>1. ASSUME NEW r \in Runs, RunStep(r)
      PROVE  FamilyInv'
  BY <1>1, ReadFamilyKeeps, ClaimParentKeeps, RevalidateKeeps, AssembleKeeps, HashOutputKeeps,
     StoreOutputKeeps, PublishParentKeeps, CompleteParentKeeps DEF RunStep
<1>2. ASSUME NEW r \in Runs, FinalizeFails(r)
      PROVE  FamilyInv'
  <2>1. Exit(r) /\ finished' = finished /\ stored' = stored /\ hostOf' = hostOf /\ UNCHANGED vars
    BY <1>2 DEF FinalizeFails
  <2>2. QueueKeeps /\ ParentIsWholeFamily'
    BY <2>1, QueueIdles, ParentStays
  <2> QED
    BY <2>1, <2>2, RunExits
<1>3. ASSUME NEW w \in Workers, HostCrashes(w)
      PROVE  FamilyInv'
  BY <1>3, HostCrashesKeeps
<1>4. ASSUME NEW w \in Workers, SweepRemovesParents(w)
      PROVE  FamilyInv'
  <2>1. UNCHANGED <<vars, finished, at, span, hashed, stored, hostOf>> /\ staged' = [staged EXCEPT ![w] = NoFile]
    BY <1>4 DEF SweepRemovesParents
  <2>2. QueueKeeps /\ ParentIsWholeFamily'
    BY <2>1, QueueIdles, ParentStays
  <2>3. staged \in [Workers -> WholeFile]
    BY DEF FamilyInv, FamilyTyped
  <2>4. /\ staged' \in [Workers -> WholeFile]
        /\ \A v \in Workers : staged'[v] = staged[v] \/ staged'[v] = NoFile
    BY <2>1, <2>3, NoFileTyped
  <2> QED
    BY <2>1, <2>2, <2>4, RunsLeftAlone
<1>5. CASE ParentLeaseElapses
  <2>1. UNCHANGED <<state, artifact, finished, at, span, staged, hashed, stored, hostOf>>
    BY <1>5 DEF ParentLeaseElapses, LeaseElapses
  <2> QED
    BY <2>1 DEF FamilyInv, FamilyTyped, ChunksTogether, RunsInv, RunSound, AllArtifacts, IsWhole,
                ParentIsWholeFamily
<1>6. CASE QueueStep
  <2>1. UNCHANGED <<finished, at, span, staged, hashed, stored, hostOf>>
    BY <1>6 DEF QueueStep, finalizerVars
  <2>2. QueueKeeps /\ ParentIsWholeFamily'
    BY <1>6, <2>1, QueueStepKeeps, ParentStays
  <2> QED
    BY <2>1, <2>2, RunsLeftAlone DEF FamilyInv, FamilyTyped
<1>7. CASE UNCHANGED familyVars
  BY <1>7 DEF familyVars, vars, finalizerVars, FamilyInv, FamilyTyped, ChunksTogether, RunsInv,
              RunSound, AllArtifacts, IsWhole, ParentIsWholeFamily
<1> QED
  BY <1>1, <1>2, <1>3, <1>4, <1>5, <1>6, <1>7 DEF FinalizerNext

\* However many runs of the finalizer are at work, on however many hosts, and whatever of
\* them fails, crashes, loses its lease or has its staging file swept: a parent that is
\* completed is a stored assembly of its whole family, and a whole one unless two runs of
\* one host were at its staging path at once (finalization.go, the comments on recovery).
THEOREM FamilyCorrect == FinalizerSpec => []ParentIsWholeFamily
<1>1. FinalizerInit => FamilyInv
  BY FamilyInvInit
<1>2. FamilyInv /\ [FinalizerNext]_familyVars => FamilyInv'
  BY FamilyStep
<1>3. FamilyInv => ParentIsWholeFamily
  BY DEF FamilyInv
<1> QED
  BY <1>1, <1>2, <1>3, PTL DEF FinalizerSpec
================================================================================
