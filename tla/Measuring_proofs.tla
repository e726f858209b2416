---------------------------- MODULE Measuring_proofs ----------------------------
(***************************************************************************)
(* What holds of a measured case for any sizes, bounds and interleavings:  *)
(* of its way from the container's start to its rows (CaseRunner), of the  *)
(* window its collectors measure (MonitorWindow), of the requests its      *)
(* container serves (RequestServing), of the packet latencies merged into  *)
(* its rows (PacketMerge), and of the evidence profilers collect for it    *)
(* (ProfilerReports).                                                      *)
(***************************************************************************)
EXTENDS PacketMerge, RequestServing, MonitorWindow, ProfilerReports, CaseRunner, WellFoundedInduction, TLAPS
-----------------------------------------------------------------------------
(* Packet latency.  The invariant: while the client runs, each row it has  *)
(* written has its group beside it; the records of the parser are those of *)
(* the matched requests, under a key that no two of them share; and what   *)
(* the merge has put into a row are the records of the row's group.        *)

PcapFrames == [kind : {"other", "request", "response"}, stream : Nat, of : Nat, id : Nat \X Nat]
Records ==
    [k \in {Key(f) : f \in Matched} |->
        LET f == CHOOSE f \in Matched : Key(f) = k
        IN [latency |-> pcap[f].id, bytes |-> Bytes(f)]]

Captured ==
    /\ current \in Nat /\ answered \in Nat /\ stream \in Nat /\ asked \in Nat
    /\ pcap \in Seq(PcapFrames)
Logged == packetRows \in Seq(SUBSET (Nat \X Nat)) /\ sidecar \in Seq(Nat) /\ Len(packetRows) = Len(sidecar)
Parsed == IF pkPc \in {"merge", "done"} THEN parsed = Records ELSE parsed = <<>>
Merged ==
    pkPc = "done" => \A k \in DOMAIN packetRows : packetRows[k] = {parsed[q].latency : q \in GroupRecords(k)}

PacketInv == Captured /\ Logged /\ Parsed /\ Merged

LEMMA PacketBounds ==
    ASSUME PacketInv
    PROVE  /\ DOMAIN packetRows = 1..Len(sidecar) /\ DOMAIN sidecar = 1..Len(sidecar) /\ Len(sidecar) \in Nat
           /\ DOMAIN pcap = 1..Len(pcap) /\ Len(pcap) \in Nat
           /\ \A f \in DOMAIN pcap : pcap[f].id \in Nat \X Nat /\ pcap[f].id[1] \in Nat
<1>1. /\ packetRows \in Seq(SUBSET (Nat \X Nat)) /\ sidecar \in Seq(Nat) /\ Len(packetRows) = Len(sidecar)
      /\ pcap \in Seq(PcapFrames)
  BY DEF PacketInv, Logged, Captured
<1>2. \A f \in DOMAIN pcap : pcap[f] \in PcapFrames
  BY <1>1
<1>3. \A f \in DOMAIN pcap : pcap[f].id \in Nat \X Nat
  BY <1>2 DEF PcapFrames
<1> QED
  BY <1>1, <1>3

\* No two matched requests share a key, so a record is that of its request.
LEMMA RecordOf ==
    ASSUME PacketInv, NEW f \in Matched
    PROVE  /\ Key(f) \in DOMAIN Records /\ Key(f)[1] = pcap[f].id[1]
           /\ Records[Key(f)].latency = pcap[f].id /\ Records[Key(f)].bytes = Bytes(f)
<1>1. \A e \in Matched : Key(e) = Key(f) => e = f
  BY DEF Key
<1>2. (CHOOSE e \in Matched : Key(e) = Key(f)) = f
  BY <1>1
<1> QED
  BY <1>2 DEF Records, Key

LEMMA RecordsAre ==
    ASSUME PacketInv, NEW q \in DOMAIN Records PROVE \E f \in Matched : q = Key(f)
BY DEF Records

\* What lies between two reads of a frame of the same stream.
LEMMA NoByteTwice ==
    ASSUME PacketInv, NEW q1 \in DOMAIN Records, NEW q2 \in DOMAIN Records, q1 # q2
    PROVE  Records[q1].bytes \cap Records[q2].bytes = {}
<1>1. PICK f1 \in Matched : q1 = Key(f1)
  BY RecordsAre
<1>2. PICK f2 \in Matched : q2 = Key(f2)
  BY RecordsAre
<1>3. f1 # f2 /\ f1 \in Frames("request") /\ f2 \in Frames("request")
  BY <1>1, <1>2 DEF Matched
<1>4. Records[q1].bytes = Bytes(f1) /\ Records[q2].bytes = Bytes(f2)
  BY <1>1, <1>2, RecordOf
<1>5. Bytes(f1) \cap Bytes(f2) = {}
  BY <1>3 DEF Bytes, Alone
<1> QED
  BY <1>4, <1>5

LEMMA PcapGrows ==
    ASSUME PacketInv, NEW frame \in PcapFrames, pcap' = Append(pcap, frame)
    PROVE  pcap' \in Seq(PcapFrames)
BY DEF PacketInv, Captured

LEMMA OtherFrameKeeps ==
    ASSUME PacketInv, OtherFrame PROVE PacketInv'
<1>1. /\ pkPc \in {"send", "wait"}
      /\ UNCHANGED <<pkPc, current, answered, stream, asked, packetRows, sidecar, parsed>>
  BY DEF OtherFrame, published, merged
<1>2. current \in Nat /\ answered \in Nat /\ stream \in Nat /\ asked \in Nat
  BY DEF PacketInv, Captured
<1>3. [kind |-> "other", stream |-> stream, of |-> 0, id |-> NoSample] \in PcapFrames
  BY <1>2 DEF PcapFrames, NoSample
<1>4. pcap' \in Seq(PcapFrames)
  BY <1>3, PcapGrows DEF OtherFrame
<1> QED
  BY <1>1, <1>2, <1>4 DEF PacketInv, Captured, Logged, Parsed, Merged

LEMMA SendRequestKeeps ==
    ASSUME PacketInv, SendRequest PROVE PacketInv'
<1>1. /\ pkPc = "send" /\ pkPc' = "wait"
      /\ UNCHANGED <<current, answered, packetRows, sidecar, parsed>>
  BY DEF SendRequest, published, merged
<1>2. current \in Nat /\ answered \in Nat /\ stream \in Nat /\ Len(pcap) \in Nat /\ pcap \in Seq(PcapFrames)
  BY DEF PacketInv, Captured
<1>3. stream' \in Nat
  BY <1>2 DEF SendRequest
<1>4. [kind |-> "request", stream |-> stream', of |-> 0, id |-> <<current, answered>>] \in PcapFrames
  BY <1>2, <1>3 DEF PcapFrames
<1>5. pcap' \in Seq(PcapFrames) /\ asked' \in Nat
  BY <1>2, <1>4, PcapGrows DEF SendRequest
<1> QED
  BY <1>1, <1>2, <1>3, <1>5 DEF PacketInv, Captured, Logged, Parsed, Merged

LEMMA RowLogged ==
    ASSUME PacketInv, LogRow PROVE Logged'
<1>1. /\ packetRows \in Seq(SUBSET (Nat \X Nat)) /\ sidecar \in Seq(Nat) /\ Len(packetRows) = Len(sidecar)
      /\ current \in Nat
  BY DEF PacketInv, Logged, Captured
<1>2. {} \in SUBSET (Nat \X Nat)
  OBVIOUS
<1> QED
  BY <1>1, <1>2 DEF LogRow, Logged

LEMMA AnswerKeeps ==
    ASSUME PacketInv, Answer PROVE PacketInv'
<1>1. pkPc = "wait" /\ asked' = 0 /\ stream' = stream /\ parsed' = parsed
  BY DEF Answer, merged
<1>2. current \in Nat /\ answered \in Nat /\ stream \in Nat /\ asked \in Nat /\ pcap \in Seq(PcapFrames)
  BY DEF PacketInv, Captured
<1>3. [kind |-> "response", stream |-> stream, of |-> asked, id |-> <<current, answered>>] \in PcapFrames
  BY <1>2 DEF PcapFrames
<1>4. pcap' \in Seq(PcapFrames)
  BY <1>2, <1>3, PcapGrows DEF Answer
<1>5. /\ pkPc' \in {"send", "parse"} /\ current' \in Nat /\ answered' \in Nat
      /\ LogRow \/ UNCHANGED <<packetRows, sidecar>>
  BY <1>2 DEF Answer, NextWindow, published
<1>6. Logged'
  BY <1>5, RowLogged DEF PacketInv, Logged
<1> QED
  BY <1>1, <1>2, <1>4, <1>5, <1>6 DEF PacketInv, Captured, Parsed, Merged

LEMMA EndOfWindowKeeps ==
    ASSUME PacketInv, EndOfWindow PROVE PacketInv'
<1>1. pkPc = "send" /\ asked' = asked /\ stream' = stream /\ pcap' = pcap /\ parsed' = parsed
  BY DEF EndOfWindow, merged
<1>2. current \in Nat /\ answered \in Nat /\ stream \in Nat /\ asked \in Nat /\ pcap \in Seq(PcapFrames)
  BY DEF PacketInv, Captured
<1>3. pkPc' \in {"send", "parse"} /\ current' \in Nat /\ answered' \in Nat /\ LogRow
  BY <1>2 DEF EndOfWindow, NextWindow
<1>4. Logged'
  BY <1>3, RowLogged
<1> QED
  BY <1>1, <1>2, <1>3, <1>4 DEF PacketInv, Captured, Parsed, Merged

LEMMA ParseKeeps ==
    ASSUME PacketInv, Parse PROVE PacketInv'
<1>1. pkPc' = "merge" /\ UNCHANGED <<current, answered, stream, pcap, asked, packetRows, sidecar>>
  BY DEF Parse, published
<1>2. parsed' = Records
  BY DEF Parse, Records
<1>3. Records' = Records
  BY <1>1 DEF Records, Key, Matched, Frames, Bytes, Alone
<1> QED
  BY <1>1, <1>2, <1>3 DEF PacketInv, Captured, Logged, Parsed, Merged

LEMMA MergeKeeps ==
    ASSUME PacketInv, Merge PROVE PacketInv'
<1>1. /\ pkPc = "merge" /\ pkPc' = "done"
      /\ UNCHANGED <<current, answered, stream, pcap, asked, sidecar, parsed>>
  BY DEF Merge
<1>2. packetRows' = [k \in DOMAIN packetRows |-> {parsed[q].latency : q \in GroupRecords(k)}]
  BY DEF Merge
<1>3. parsed = Records
  BY <1>1 DEF PacketInv, Parsed
<1>4. Records' = Records
  BY <1>1 DEF Records, Key, Matched, Frames, Bytes, Alone
<1>5. ASSUME NEW k \in DOMAIN packetRows PROVE {parsed[q].latency : q \in GroupRecords(k)} \in SUBSET (Nat \X Nat)
  <2> SUFFICES ASSUME NEW q \in DOMAIN parsed PROVE parsed[q].latency \in Nat \X Nat
    BY DEF GroupRecords
  <2>1. PICK f \in Matched : q = Key(f)
    BY <1>3, RecordsAre
  <2>2. f \in DOMAIN pcap
    BY DEF Matched, Frames
  <2> QED
    BY <1>3, <2>1, <2>2, RecordOf, PacketBounds
<1>6. /\ DOMAIN packetRows = 1..Len(sidecar) /\ Len(sidecar) \in Nat /\ sidecar \in Seq(Nat)
  BY PacketBounds DEF PacketInv, Logged
<1>7. packetRows' \in [1..Len(sidecar) -> SUBSET (Nat \X Nat)]
  BY <1>2, <1>5, <1>6
<1>8. Logged'
  <2>1. packetRows' \in Seq(SUBSET (Nat \X Nat)) /\ Len(packetRows') = Len(sidecar)
    BY <1>6, <1>7
  <2> QED
    BY <1>1, <1>6, <2>1 DEF Logged
<1>9. Merged'
  BY <1>1, <1>2 DEF Merged, GroupRecords
<1> QED
  BY <1>1, <1>3, <1>4, <1>8, <1>9 DEF PacketInv, Captured, Parsed

LEMMA PacketStarts == PacketInit => PacketInv
<1> SUFFICES ASSUME PacketInit PROVE PacketInv
  OBVIOUS
<1>1. <<>> \in Seq(PcapFrames) /\ <<>> \in Seq(SUBSET (Nat \X Nat)) /\ <<>> \in Seq(Nat) /\ Len(<<>>) = 0
  OBVIOUS
<1> QED
  BY <1>1 DEF PacketInit, PacketInv, Captured, Logged, Parsed, Merged

LEMMA PacketStepKeeps == PacketInv /\ [PacketNext]_packetVars => PacketInv'
<1> SUFFICES ASSUME PacketInv, [PacketNext]_packetVars PROVE PacketInv'
  OBVIOUS
<1>1. CASE UNCHANGED packetVars
  <2>1. UNCHANGED <<pkPc, current, answered, stream, pcap, asked, packetRows, sidecar, parsed>>
    BY <1>1 DEF packetVars
  <2>2. Records' = Records
    BY <2>1 DEF Records, Key, Matched, Frames, Bytes, Alone
  <2>3. Merged'
    BY <2>1 DEF PacketInv, Merged, GroupRecords
  <2> QED
    BY <2>1, <2>2, <2>3 DEF PacketInv, Captured, Logged, Parsed
<1> QED
  BY <1>1, OtherFrameKeeps, SendRequestKeeps, AnswerKeeps, EndOfWindowKeeps, ParseKeeps, MergeKeeps
     DEF PacketNext

\* When the packets have been merged, each row has the latencies of exactly the
\* requests of its window whose two messages were captured, whatever was lost,
\* whichever connections were used again and whichever window was fatal; and no
\* byte counts for two requests (sniff_parse_pcap.py, merge_packet_latency.py).
THEOREM RowsHaveTheirPackets == PacketSpec => []RowsAreTheirWindows
<1>1. PacketInit => PacketInv
  BY PacketStarts
<1>2. PacketInv /\ [PacketNext]_packetVars => PacketInv'
  BY PacketStepKeeps
<1>3. PacketInv => RowsAreTheirWindows
  <2> SUFFICES ASSUME PacketInv PROVE RowsAreTheirWindows
    OBVIOUS
  <2>1. ASSUME pkPc = "done", NEW k \in DOMAIN packetRows
        PROVE  packetRows[k] = {id \in Seen : id[1] = sidecar[k]}
    <3>1. packetRows[k] = {parsed[q].latency : q \in GroupRecords(k)} /\ parsed = Records
      BY <2>1 DEF PacketInv, Merged, Parsed
    <3>2. ASSUME NEW q \in GroupRecords(k) PROVE parsed[q].latency \in {id \in Seen : id[1] = sidecar[k]}
      <4>1. q \in DOMAIN Records /\ q[1] = sidecar[k]
        BY <3>1 DEF GroupRecords
      <4>2. PICK f \in Matched : q = Key(f)
        BY <4>1, RecordsAre
      <4> QED
        BY <3>1, <4>1, <4>2, RecordOf DEF Seen
    <3>3. ASSUME NEW id \in Seen, id[1] = sidecar[k]
          PROVE  \E q \in GroupRecords(k) : id = parsed[q].latency
      <4>1. PICK f \in Matched : id = pcap[f].id
        BY DEF Seen
      <4>2. Key(f) \in GroupRecords(k)
        BY <3>1, <3>3, <4>1, RecordOf DEF GroupRecords
      <4> QED
        BY <3>1, <4>1, <4>2, RecordOf
    <3> QED
      BY <3>1, <3>2, <3>3
  <2>2. ASSUME NEW q1 \in DOMAIN parsed, NEW q2 \in DOMAIN parsed, q1 # q2
        PROVE  parsed[q1].bytes \cap parsed[q2].bytes = {}
    <3>1. parsed = Records \/ parsed = <<>>
      BY DEF PacketInv, Parsed
    <3>2. parsed = Records
      BY <3>1
    <3> QED
      BY <3>2, <2>2, NoByteTwice
  <2> QED
    BY <2>1, <2>2 DEF RowsAreTheirWindows
<1> QED
  BY <1>1, <1>2, <1>3, PTL DEF PacketSpec
-----------------------------------------------------------------------------
(* The requests of a case.  The invariant: at most one is open, and while  *)
(* the client has not given up it waits for that one; the device works for *)
(* it or for requests that were answered with a 500; what the shared model *)
(* has observed is of the open request, as far as it has come; and of each *)
(* request, what was cut and refused is what its size calls for.           *)

Copies(n, r) == [i \in 1..n |-> r]
Through == {"predict", "encode", "run", "decode", "frames", "complete", "postprocess", "answered"}

\* Where a request may be while the device works for it.
Leaving == {"decode", "complete", "failed"}

RequestRecords ==
    [at : Places, size : Nat, honest : BOOLEAN, batch : Nat \ {0}, scale : Nat, cut : BOOLEAN,
     done : Nat, heard : Seq(SUBSET Numbers), tokens : Seq(Numbers)]

Typed ==
    /\ handler \in Handlers /\ request \in [Numbers -> RequestRecords]
    /\ waits \subseteq Numbers /\ giveUp \in BOOLEAN
    /\ recurrent \subseteq Numbers /\ computing \subseteq Numbers
    /\ observation \in [inputs : Seq(Numbers), outputs : Seq(Numbers), batch : Nat]

OneByOne ==
    /\ waits \subseteq Open
    /\ \A q, r \in Open : q = r
    /\ ~giveUp => Open \subseteq waits
    /\ giveUp => waits = {}
    /\ \A r \in computing : request[r].at \in Leaving

EvidenceFits(h, obs, rec, r, q) ==
    /\ q.at \in {"preprocess", "predict"} => q.done = 0 /\ q.heard = <<>>
    /\ q.at = "encode" =>
          /\ h.task = "generation" /\ q.done < q.batch
          /\ obs.inputs = Copies(q.done, r) /\ obs.outputs = <<>> /\ obs.batch = q.batch
    /\ q.at = "run" =>
          /\ h.task # "voice"
          /\ h.task = "generation" =>
                /\ q.done = 0
                /\ obs.inputs = Copies(q.batch, r) /\ obs.outputs = <<>> /\ obs.batch = q.batch
    /\ q.at = "decode" =>
          /\ h.task = "generation" /\ q.done < q.batch
          /\ obs.inputs = Copies(q.batch, r) /\ obs.outputs = Copies(q.done, r) /\ obs.batch = q.batch
    /\ q.at = "frames" =>
          /\ h.task = "voice"
          /\ \/ q.done = 0 /\ q.heard = <<>> /\ rec = {}
             \/ q.done = 1 /\ q.heard = <<{}>> /\ rec = {r}
    /\ q.at \in {"complete", "postprocess"} =>
          /\ h.task = "generation" =>
                /\ obs.inputs = Copies(q.batch, r) /\ obs.outputs = Copies(q.batch, r) /\ obs.batch = q.batch
          /\ h.task = "voice" => q.heard = <<{}, {r}>>
    /\ q.at = "answered" =>
          /\ h.task = "generation" => q.tokens = Copies(q.batch, r)
          /\ h.task = "voice" => q.heard = <<{}, {r}>>

ScaleFits(h, q) ==
    /\ q.at # "none" => q.size # 0
    /\ q.cut => q.at # "none" /\ Exceeds(h, q)
    /\ q.at \in Through => ~Refuses(h, q) /\ (Exceeds(h, q) => q.cut) /\ (~q.cut => q.scale = q.size)
    /\ q.at = "refused" => Refuses(h, q) \/ MayRefuse(h, q) \/ (h.task = "whisper" /\ q.cut)

Evident == \A r \in Numbers : EvidenceFits(handler, observation, recurrent, r, request[r])
Scaled == \A r \in Numbers : ScaleFits(handler, request[r])

ServingInv == Typed /\ Scaled /\ (~Parallel => OneByOne /\ Evident)

LEMMA ServingBounds ==
    ASSUME ServingInv, NEW r \in Numbers
    PROVE  /\ Typed /\ request \in [Numbers -> RequestRecords] /\ request[r] \in RequestRecords
           /\ request[r].at \in Places /\ request[r].size \in Nat /\ request[r].honest \in BOOLEAN
           /\ request[r].batch \in Nat \ {0} /\ request[r].scale \in Nat /\ request[r].cut \in BOOLEAN
           /\ request[r].done \in Nat /\ request[r].heard \in Seq(SUBSET Numbers)
           /\ request[r].tokens \in Seq(Numbers)
           /\ observation.inputs \in Seq(Numbers) /\ observation.outputs \in Seq(Numbers)
           /\ observation.batch \in Nat
           /\ ScaleFits(handler, request[r])
<1>1. /\ request \in [Numbers -> RequestRecords]
      /\ observation \in [inputs : Seq(Numbers), outputs : Seq(Numbers), batch : Nat]
  BY DEF ServingInv, Typed
<1>2. request[r] \in RequestRecords /\ ScaleFits(handler, request[r])
  BY <1>1 DEF ServingInv, Scaled
<1> QED
  BY <1>1, <1>2 DEF ServingInv, RequestRecords

LEMMA NoCopies == \A r : Copies(0, r) = <<>>
BY DEF Copies

LEMMA OneCopyMore ==
    ASSUME NEW n \in Nat, NEW r \in Numbers
    PROVE  /\ Copies(n, r) \in Seq(Numbers) /\ Len(Copies(n, r)) = n
           /\ Append(Copies(n, r), r) = Copies(n + 1, r)
<1>1. Copies(n, r) \in Seq(Numbers) /\ Len(Copies(n, r)) = n
  BY DEF Copies
<1>2. Append(Copies(n, r), r) \in Seq(Numbers) /\ Len(Append(Copies(n, r), r)) = n + 1
  BY <1>1
<1>3. Copies(n + 1, r) \in Seq(Numbers) /\ Len(Copies(n + 1, r)) = n + 1
  BY DEF Copies
<1>4. \A i \in 1..(n + 1) : Append(Copies(n, r), r)[i] = Copies(n + 1, r)[i]
  BY <1>1 DEF Copies
<1> QED
  BY <1>1, <1>2, <1>3, <1>4

\* What a handler does with an input depends on the input alone.
LEMMA SameInput ==
    ASSUME NEW h, NEW q, NEW p, p.size = q.size, p.honest = q.honest, p.batch = q.batch
    PROVE  /\ Exceeds(h, p) <=> Exceeds(h, q)
           /\ Refuses(h, p) <=> Refuses(h, q)
           /\ MayRefuse(h, p) <=> MayRefuse(h, q)
           /\ EffectiveScales(h, p) = EffectiveScales(h, q)
<1>1. Exceeds(h, p) <=> Exceeds(h, q)
  BY DEF Exceeds
<1>2. Refuses(h, p) <=> Refuses(h, q)
  BY DEF Refuses, RefusesText, RefusesSeries, RefusesOnnxText, RefusesRows, RefusesFeatures,
         RefusesImage, RefusesMedia, RefusesPicture, RefusesNative
<1>3. EffectiveScales(h, p) = EffectiveScales(h, q)
  BY <1>1 DEF EffectiveScales
<1> QED
  BY <1>1, <1>2, <1>3 DEF MayRefuse

LEMMA ScaleMoves ==
    ASSUME NEW h, NEW q, NEW p, ScaleFits(h, q), q.at # "none", p.at # "none",
           p.size = q.size, p.honest = q.honest, p.batch = q.batch, p.scale = q.scale, p.cut = q.cut,
           p.at \in Through => q.at \in Through,
           p.at = "refused" => h.task = "whisper" /\ q.cut
    PROVE  ScaleFits(h, p)
BY SameInput DEF ScaleFits

\* The thread of a request goes on; when it has answered, nobody waits for it.
LEMMA ThreadKeeps ==
    ASSUME ServingInv, NEW r \in Numbers, request[r].at \notin Over,
           NEW q \in RequestRecords, q.at # "none", request' = [request EXCEPT ![r] = q],
           UNCHANGED <<handler, giveUp>>,
           observation' \in [inputs : Seq(Numbers), outputs : Seq(Numbers), batch : Nat],
           recurrent' \in SUBSET Numbers, computing' \in SUBSET (computing \cup {r}),
           waits' = IF q.at \in Over THEN waits \ {r} ELSE waits,
           ScaleFits(handler, q),
           ~Parallel /\ OneByOne /\ Evident =>
                /\ r \in computing' => q.at \in Leaving
                /\ EvidenceFits(handler, observation', recurrent', r, q)
    PROVE  ServingInv'
<1>1. /\ request' \in [Numbers -> RequestRecords] /\ request'[r] = q
      /\ \A c \in Numbers \ {r} : request'[c] = request[c]
  BY ServingBounds
<1>2. Typed'
  BY <1>1 DEF ServingInv, Typed
<1>3. Scaled'
  BY <1>1 DEF ServingInv, Scaled
<1>4. ASSUME ~Parallel PROVE OneByOne' /\ Evident'
  <2>1. OneByOne /\ Evident
    BY <1>4 DEF ServingInv
  <2>2. r \in Open /\ Open \subseteq {r}
    BY <2>1 DEF OneByOne, Open
  <2>3. Open' = IF q.at \in Over THEN Open \ {r} ELSE Open
    BY <1>1, <2>2 DEF Open
  <2>4. r \in computing' => q.at \in Leaving
    BY <1>4, <2>1
  <2>5. \A c \in computing' : request'[c].at \in Leaving
    BY <1>1, <1>2, <2>1, <2>4 DEF OneByOne, Typed
  <2>6. OneByOne'
    BY <2>1, <2>2, <2>3, <2>4, <2>5 DEF OneByOne, Over
  <2>7. \A c \in Numbers \ {r} : request[c].at \in Over
    BY <2>2 DEF Open
  <2>8. ASSUME NEW c \in Numbers \ {r} PROVE EvidenceFits(handler, observation', recurrent', c, request[c])
    BY <2>1, <2>7 DEF Evident, EvidenceFits, Over
  <2>9. EvidenceFits(handler, observation', recurrent', r, q)
    BY <1>4, <2>1
  <2>10. Evident'
    BY <1>1, <2>8, <2>9 DEF Evident
  <2> QED
    BY <2>6, <2>10
<1> QED
  BY <1>2, <1>3, <1>4 DEF ServingInv

\* It goes on without anything new in its record.
LEMMA GoesOn ==
    ASSUME ServingInv, NEW r \in Numbers, request[r].at \notin Over,
           NEW place \in Places \ {"none"}, To(r, place), UNCHANGED <<handler, giveUp>>,
           observation' \in [inputs : Seq(Numbers), outputs : Seq(Numbers), batch : Nat],
           recurrent' \in SUBSET Numbers, computing' \in SUBSET (computing \cup {r}),
           waits' = IF place \in Over THEN waits \ {r} ELSE waits,
           place \in Through => request[r].at \in Through,
           place = "refused" => handler.task = "whisper" /\ request[r].cut,
           ~Parallel /\ OneByOne /\ Evident =>
                /\ r \in computing' => place \in Leaving
                /\ \A q \in RequestRecords :
                      /\ q.at = place /\ q.done = request[r].done /\ q.heard = request[r].heard
                      /\ q.batch = request[r].batch
                      => EvidenceFits(handler, observation', recurrent', r, q)
    PROVE  ServingInv'
<1> DEFINE q == [request[r] EXCEPT !.at = place]
<1>1. request' = [request EXCEPT ![r] = q]
  BY ServingBounds DEF To
<1>2. /\ q \in RequestRecords /\ q.at = place /\ q.done = request[r].done /\ q.heard = request[r].heard
      /\ q.batch = request[r].batch /\ q.size = request[r].size /\ q.honest = request[r].honest
      /\ q.scale = request[r].scale /\ q.cut = request[r].cut
  BY ServingBounds DEF RequestRecords
<1> HIDE DEF q
<1>3. ScaleFits(handler, q)
  BY <1>2, ScaleMoves, ServingBounds DEF Over
<1> QED
  BY <1>1, <1>2, <1>3, ThreadKeeps
-----------------------------------------------------------------------------
(* The actions of RequestServing                                           *)

LEMMA PreprocessKeeps ==
    ASSUME ServingInv, NEW r \in Numbers, Preprocess(r) PROVE ServingInv'
<1>1. /\ request[r].at = "preprocess" /\ request[r].at \notin Over /\ request[r].at \notin Through
      /\ UNCHANGED <<handler, giveUp, observation, recurrent, computing>>
  BY DEF Preprocess, shared, Over, Through
<1>2. /\ observation' \in [inputs : Seq(Numbers), outputs : Seq(Numbers), batch : Nat]
      /\ recurrent' \in SUBSET Numbers /\ computing' \in SUBSET (computing \cup {r})
  BY <1>1 DEF ServingInv, Typed
<1>3. OneByOne => r \notin computing
  BY <1>1 DEF OneByOne, Leaving
<1>4. ~request[r].cut \/ Exceeds(handler, request[r])
  BY ServingBounds DEF ScaleFits
<1>5. CASE /\ Refuses(handler, request[r]) \/ MayRefuse(handler, request[r])
           /\ To(r, "refused") /\ waits' = waits \ {r}
  <2> DEFINE q == [request[r] EXCEPT !.at = "refused"]
  <2>1. request' = [request EXCEPT ![r] = q]
    BY <1>5, ServingBounds DEF To
  <2>2. /\ q \in RequestRecords /\ q.at = "refused" /\ q.batch = request[r].batch
        /\ q.size = request[r].size /\ q.honest = request[r].honest /\ q.cut = request[r].cut
    BY ServingBounds DEF RequestRecords, Places, Over
  <2> HIDE DEF q
  <2>3. ScaleFits(handler, q)
    BY <1>1, <1>5, <2>2, SameInput, ServingBounds DEF ScaleFits, Through
  <2>4. EvidenceFits(handler, observation', recurrent', r, q)
    BY <2>2 DEF EvidenceFits
  <2>5. q.at \in Over
    BY <2>2 DEF Over
  <2> QED
    BY <1>1, <1>2, <1>3, <1>5, <2>1, <2>2, <2>3, <2>4, <2>5, ThreadKeeps
<1>6. CASE ~Refuses(handler, request[r]) /\ waits' = waits
           /\ \E scale \in EffectiveScales(handler, request[r]) :
                 request' = [request EXCEPT ![r].at = "predict", ![r].scale = scale,
                                            ![r].cut = Exceeds(handler, request[r])]
  <2>1. PICK scale \in EffectiveScales(handler, request[r]) :
                 request' = [request EXCEPT ![r].at = "predict", ![r].scale = scale,
                                            ![r].cut = Exceeds(handler, request[r])]
    BY <1>6
  <2> DEFINE big == Exceeds(handler, request[r])
             q == [request[r] EXCEPT !.at = "predict", !.scale = scale, !.cut = big]
  <2>2. big \in BOOLEAN
    BY DEF Exceeds
  <2>3. scale \in Nat /\ (~big => scale = request[r].size)
    BY ServingBounds DEF EffectiveScales
  <2> HIDE DEF big
  <2>4. request' = [request EXCEPT ![r] = q]
    BY <2>1, ServingBounds DEF big
  <2>5. /\ q \in RequestRecords /\ q.at = "predict" /\ q.batch = request[r].batch
        /\ q.size = request[r].size /\ q.honest = request[r].honest /\ q.cut = big /\ q.scale = scale
        /\ q.done = request[r].done /\ q.heard = request[r].heard
    BY <2>2, <2>3, ServingBounds DEF RequestRecords, Places, Over
  <2> HIDE DEF q
  <2>6. ScaleFits(handler, q)
    BY <1>1, <1>6, <2>2, <2>3, <2>5, SameInput, ServingBounds DEF ScaleFits, big
  <2>7. Evident => EvidenceFits(handler, observation', recurrent', r, q)
    BY <1>1, <2>5 DEF EvidenceFits, Evident
  <2>8. q.at \notin Over
    BY <2>5 DEF Over
  <2> QED
    BY <1>1, <1>2, <1>3, <1>6, <2>4, <2>5, <2>6, <2>7, <2>8, ThreadKeeps
<1> QED
  BY <1>5, <1>6 DEF Preprocess

LEMMA StartGenerationKeeps ==
    ASSUME ServingInv, NEW r \in Numbers, StartGeneration(r) PROVE ServingInv'
<1>1. /\ request[r].at = "predict" /\ request[r].at \notin Over /\ request[r].at \in Through
      /\ handler.task = "generation" /\ To(r, "encode") /\ "encode" \in Places \ {"none"}
      /\ "encode" \notin Over
      /\ UNCHANGED <<handler, waits, giveUp, recurrent, computing>>
  BY DEF StartGeneration, patience, Over, Through, Places
<1>2. /\ observation'.inputs = <<>> /\ observation'.outputs = <<>> /\ observation'.batch = request[r].batch
      /\ observation' \in [inputs : Seq(Numbers), outputs : Seq(Numbers), batch : Nat]
  <2>1. observation' = [inputs |-> <<>>, outputs |-> <<>>, batch |-> request[r].batch]
    BY DEF StartGeneration, Observe, Blank, Nothing
  <2>2. request[r].batch \in Nat /\ <<>> \in Seq(Numbers)
    BY ServingBounds
  <2> HIDE DEF Numbers
  <2> QED
    BY <2>1, <2>2
<1>3. recurrent' \in SUBSET Numbers /\ computing' \in SUBSET (computing \cup {r})
  BY <1>1 DEF ServingInv, Typed
<1>4. OneByOne => r \notin computing
  BY <1>1 DEF OneByOne, Leaving
<1>5. ASSUME Evident, NEW q \in RequestRecords, q.at = "encode", q.done = request[r].done, q.batch = request[r].batch
      PROVE  EvidenceFits(handler, observation', recurrent', r, q)
  <2>1. q.done = 0 /\ q.batch \in Nat \ {0}
    BY <1>1, <1>5, ServingBounds DEF Evident, EvidenceFits
  <2> QED
    BY <1>1, <1>2, <1>5, <2>1, NoCopies DEF EvidenceFits
<1> QED
  BY <1>1, <1>2, <1>3, <1>4, <1>5, GoesOn

LEMMA StartVoiceKeeps ==
    ASSUME ServingInv, NEW r \in Numbers, StartVoice(r) PROVE ServingInv'
<1>1. /\ request[r].at = "predict" /\ request[r].at \notin Over /\ request[r].at \in Through
      /\ handler.task = "voice" /\ To(r, "frames") /\ "frames" \in Places \ {"none"}
      /\ "frames" \notin Over /\ recurrent' = {}
      /\ UNCHANGED <<handler, waits, giveUp, observation, computing>>
  BY DEF StartVoice, Forget, patience, Over, Through, Places
<1>2. /\ observation' \in [inputs : Seq(Numbers), outputs : Seq(Numbers), batch : Nat]
      /\ recurrent' \in SUBSET Numbers /\ computing' \in SUBSET (computing \cup {r})
  BY <1>1 DEF ServingInv, Typed
<1>3. OneByOne => r \notin computing
  BY <1>1 DEF OneByOne, Leaving
<1>4. ASSUME Evident, NEW q \in RequestRecords, q.at = "frames", q.done = request[r].done, q.heard = request[r].heard
      PROVE  EvidenceFits(handler, observation', recurrent', r, q)
  <2>1. q.done = 0 /\ q.heard = <<>>
    BY <1>1, <1>4 DEF Evident, EvidenceFits
  <2> QED
    BY <1>1, <1>4, <2>1 DEF EvidenceFits
<1> QED
  BY <1>1, <1>2, <1>3, <1>4, GoesOn

LEMMA PredictKeeps ==
    ASSUME ServingInv, NEW r \in Numbers, Predict(r) PROVE ServingInv'
<1>1. /\ request[r].at = "predict" /\ request[r].at \notin Over /\ request[r].at \in Through
      /\ handler.task \notin {"generation", "voice"}
      /\ UNCHANGED <<handler, giveUp, observation, recurrent, computing>>
      /\ "run" \in Places \ {"none"} /\ "refused" \in Places \ {"none"} /\ "refused" \in Over
      /\ "run" \notin Over /\ "refused" \notin Through
  BY DEF Predict, shared, Over, Through, Places
<1>2. /\ observation' \in [inputs : Seq(Numbers), outputs : Seq(Numbers), batch : Nat]
      /\ recurrent' \in SUBSET Numbers /\ computing' \in SUBSET (computing \cup {r})
  BY <1>1 DEF ServingInv, Typed
<1>3. OneByOne => r \notin computing
  BY <1>1 DEF OneByOne, Leaving
<1>4. CASE handler.task = "whisper" /\ request[r].cut
  <2>1. To(r, "refused") /\ waits' = waits \ {r}
    BY <1>4 DEF Predict
  <2>2. \A q \in RequestRecords : q.at = "refused" => EvidenceFits(handler, observation', recurrent', r, q)
    BY DEF EvidenceFits
  <2> QED
    BY <1>1, <1>2, <1>3, <1>4, <2>1, <2>2, GoesOn
<1>5. CASE ~(handler.task = "whisper" /\ request[r].cut)
  <2>1. To(r, "run") /\ waits' = waits
    BY <1>5 DEF Predict
  <2>2. \A q \in RequestRecords : q.at = "run" => EvidenceFits(handler, observation', recurrent', r, q)
    BY <1>1 DEF EvidenceFits
  <2> QED
    BY <1>1, <1>2, <1>3, <2>1, <2>2, GoesOn
<1> QED
  BY <1>4, <1>5

LEMMA CountedIs ==
    ASSUME ServingInv, NEW r \in Numbers, NEW total, NEW next \in Places,
           NEW q, q = Counted(r, total, next)
    PROVE  /\ q \in RequestRecords
           /\ request[r].done + 1 = total => q.done = 0 /\ q.at = next
           /\ request[r].done + 1 # total => q.done = request[r].done + 1 /\ q.at = request[r].at
           /\ q.size = request[r].size /\ q.honest = request[r].honest /\ q.batch = request[r].batch
           /\ q.scale = request[r].scale /\ q.cut = request[r].cut /\ q.heard = request[r].heard
           /\ q.tokens = request[r].tokens
<1>1. request[r] \in RequestRecords /\ request[r].done \in Nat /\ request[r].at \in Places
  BY ServingBounds
<1>2. CASE request[r].done + 1 = total
  <2>1. q = [request[r] EXCEPT !.done = 0, !.at = next]
    BY <1>1, <1>2 DEF Counted, RequestRecords
  <2> DEFINE p == [request[r] EXCEPT !.done = 0]
  <2>2. /\ p \in RequestRecords /\ p.done = 0 /\ p.size = request[r].size /\ p.honest = request[r].honest
        /\ p.batch = request[r].batch /\ p.scale = request[r].scale /\ p.cut = request[r].cut
        /\ p.heard = request[r].heard /\ p.tokens = request[r].tokens
    BY <1>1 DEF RequestRecords
  <2>3. q = [p EXCEPT !.at = next]
    BY <2>1
  <2> HIDE DEF p
  <2>4. /\ q \in RequestRecords /\ q.at = next /\ q.done = p.done /\ q.size = p.size /\ q.honest = p.honest
        /\ q.batch = p.batch /\ q.scale = p.scale /\ q.cut = p.cut
        /\ q.heard = p.heard /\ q.tokens = p.tokens
    BY <2>2, <2>3 DEF RequestRecords
  <2> QED
    BY <1>2, <2>2, <2>4
<1>3. CASE request[r].done + 1 # total
  <2>1. q = [request[r] EXCEPT !.done = request[r].done + 1]
    BY <1>1, <1>3 DEF Counted, RequestRecords
  <2> QED
    BY <1>1, <1>3, <2>1 DEF RequestRecords
<1> QED
  BY <1>2, <1>3

LEMMA SameSequence ==
    ASSUME NEW S, NEW s \in Seq(S), NEW t \in Seq(S), Len(s) = Len(t), \A i \in 1..Len(s) : s[i] = t[i]
    PROVE  s = t
OBVIOUS

LEMMA TwoHeard ==
    ASSUME NEW S, NEW a \in S, NEW b \in S PROVE Append(<<a>>, b) = <<a, b>>
<1>1. <<a>> \in Seq(S) /\ Len(<<a>>) = 1 /\ <<a>>[1] = a
  OBVIOUS
<1>2. <<a, b>> \in Seq(S) /\ Len(<<a, b>>) = 2 /\ <<a, b>>[1] = a /\ <<a, b>>[2] = b
  OBVIOUS
<1>3. Append(<<a>>, b) \in Seq(S) /\ Len(Append(<<a>>, b)) = 2
  BY <1>1
<1>4. Append(<<a>>, b)[1] = a /\ Append(<<a>>, b)[2] = b
  BY <1>1
<1>5. \A i \in 1..2 : Append(<<a>>, b)[i] = <<a, b>>[i]
  BY <1>2, <1>4
<1> QED
  BY <1>2, <1>3, <1>5, SameSequence

LEMMA EncodeKeeps ==
    ASSUME ServingInv, NEW r \in Numbers, Encode(r) PROVE ServingInv'
<1> DEFINE q == Counted(r, request[r].batch, "run")
<1>1. /\ request[r].at = "encode" /\ request[r].at \notin Over /\ request[r].at \in Through
      /\ request' = [request EXCEPT ![r] = q] /\ observation' = [observation EXCEPT !.inputs = Append(@, r)]
      /\ UNCHANGED <<handler, waits, giveUp, recurrent, computing>>
      /\ "run" \in Places /\ "run" \notin Over /\ "run" \in Through
  BY DEF Encode, patience, Over, Through, Places
<1>2. /\ q \in RequestRecords
      /\ request[r].done + 1 = request[r].batch => q.done = 0 /\ q.at = "run"
      /\ request[r].done + 1 # request[r].batch => q.done = request[r].done + 1 /\ q.at = request[r].at
      /\ q.size = request[r].size /\ q.honest = request[r].honest /\ q.batch = request[r].batch
      /\ q.scale = request[r].scale /\ q.cut = request[r].cut
  BY <1>1, CountedIs
<1> HIDE DEF q
<1>3. q.at \in {"encode", "run"}
  BY <1>1, <1>2
<1>4. q.at \in Through /\ q.at \notin Over
  BY <1>3 DEF Over, Through
<1>5. /\ observation' \in [inputs : Seq(Numbers), outputs : Seq(Numbers), batch : Nat]
      /\ observation'.inputs = Append(observation.inputs, r)
      /\ observation'.outputs = observation.outputs /\ observation'.batch = observation.batch
  <2>1. observation \in [inputs : Seq(Numbers), outputs : Seq(Numbers), batch : Nat]
    BY DEF ServingInv, Typed
  <2>2. Append(observation.inputs, r) \in Seq(Numbers)
    BY ServingBounds
  <2> HIDE DEF Numbers
  <2> QED
    BY <1>1, <2>1, <2>2
<1>6. recurrent' \in SUBSET Numbers /\ computing' \in SUBSET (computing \cup {r})
  BY <1>1 DEF ServingInv, Typed
<1>7. OneByOne => r \notin computing
  BY <1>1 DEF OneByOne, Leaving
<1>8. ScaleFits(handler, q)
  BY <1>1, <1>2, <1>4, ScaleMoves, ServingBounds DEF Over, Through
<1>9. ASSUME Evident PROVE EvidenceFits(handler, observation', recurrent', r, q)
  <2>1. /\ handler.task = "generation" /\ request[r].done < request[r].batch
        /\ observation.inputs = Copies(request[r].done, r) /\ observation.outputs = <<>>
        /\ observation.batch = request[r].batch
    BY <1>1, <1>9 DEF Evident, EvidenceFits
  <2>2. observation'.inputs = Copies(request[r].done + 1, r)
    <3>1. Append(Copies(request[r].done, r), r) = Copies(request[r].done + 1, r)
      BY OneCopyMore, ServingBounds
    <3> QED
      BY <1>5, <2>1, <3>1
  <2>3. request[r].done \in Nat /\ request[r].batch \in Nat \ {0}
    BY ServingBounds
  <2>4. CASE request[r].done + 1 = request[r].batch
    BY <1>2, <1>5, <2>1, <2>2, <2>4 DEF EvidenceFits
  <2>5. CASE request[r].done + 1 # request[r].batch
    <3>1. /\ q.at = request[r].at /\ q.done = request[r].done + 1 /\ q.done < q.batch
          /\ q.batch = request[r].batch
      BY <1>2, <2>1, <2>3, <2>5
    <3> QED
      BY <1>1, <1>5, <2>1, <2>2, <3>1 DEF EvidenceFits
  <2> QED
    BY <2>4, <2>5
<1> QED
  BY <1>1, <1>2, <1>3, <1>4, <1>5, <1>6, <1>7, <1>8, <1>9, ThreadKeeps

LEMMA DecodeKeeps ==
    ASSUME ServingInv, NEW r \in Numbers, Decode(r) PROVE ServingInv'
<1> DEFINE q == Counted(r, request[r].batch, "complete")
<1>1. /\ request[r].at = "decode" /\ request[r].at \notin Over /\ request[r].at \in Through
      /\ r \notin computing
      /\ request' = [request EXCEPT ![r] = q] /\ observation' = [observation EXCEPT !.outputs = Append(@, r)]
      /\ UNCHANGED <<handler, waits, giveUp, recurrent, computing>>
      /\ "complete" \in Places
  BY DEF Decode, patience, Over, Through, Places
<1>2. /\ q \in RequestRecords
      /\ request[r].done + 1 = request[r].batch => q.done = 0 /\ q.at = "complete"
      /\ request[r].done + 1 # request[r].batch => q.done = request[r].done + 1 /\ q.at = request[r].at
      /\ q.size = request[r].size /\ q.honest = request[r].honest /\ q.batch = request[r].batch
      /\ q.scale = request[r].scale /\ q.cut = request[r].cut
  BY <1>1, CountedIs
<1> HIDE DEF q
<1>3. q.at \in {"decode", "complete"}
  BY <1>1, <1>2
<1>4. q.at \in Through /\ q.at \notin Over
  BY <1>3 DEF Over, Through
<1>5. /\ observation' \in [inputs : Seq(Numbers), outputs : Seq(Numbers), batch : Nat]
      /\ observation'.outputs = Append(observation.outputs, r)
      /\ observation'.inputs = observation.inputs /\ observation'.batch = observation.batch
  <2>1. observation \in [inputs : Seq(Numbers), outputs : Seq(Numbers), batch : Nat]
    BY DEF ServingInv, Typed
  <2>2. Append(observation.outputs, r) \in Seq(Numbers)
    BY ServingBounds
  <2> HIDE DEF Numbers
  <2> QED
    BY <1>1, <2>1, <2>2
<1>6. recurrent' \in SUBSET Numbers /\ computing' \in SUBSET (computing \cup {r})
  BY <1>1 DEF ServingInv, Typed
<1>7. ScaleFits(handler, q)
  BY <1>1, <1>2, <1>4, ScaleMoves, ServingBounds DEF Over, Through
<1>8. ASSUME Evident PROVE EvidenceFits(handler, observation', recurrent', r, q)
  <2>1. /\ handler.task = "generation" /\ request[r].done < request[r].batch
        /\ observation.outputs = Copies(request[r].done, r)
        /\ observation.inputs = Copies(request[r].batch, r) /\ observation.batch = request[r].batch
    BY <1>1, <1>8 DEF Evident, EvidenceFits
  <2>2. observation'.outputs = Copies(request[r].done + 1, r)
    <3>1. Append(Copies(request[r].done, r), r) = Copies(request[r].done + 1, r)
      BY OneCopyMore, ServingBounds
    <3> QED
      BY <1>5, <2>1, <3>1
  <2>3. request[r].done \in Nat /\ request[r].batch \in Nat \ {0}
    BY ServingBounds
  <2>4. CASE request[r].done + 1 = request[r].batch
    BY <1>2, <1>5, <2>1, <2>2, <2>4 DEF EvidenceFits
  <2>5. CASE request[r].done + 1 # request[r].batch
    <3>1. /\ q.at = request[r].at /\ q.done = request[r].done + 1 /\ q.done < q.batch
          /\ q.batch = request[r].batch
      BY <1>2, <2>1, <2>3, <2>5
    <3> QED
      BY <1>1, <1>5, <2>1, <2>2, <3>1 DEF EvidenceFits
  <2> QED
    BY <2>4, <2>5
<1> QED
  BY <1>1, <1>2, <1>3, <1>4, <1>5, <1>6, <1>7, <1>8, ThreadKeeps

LEMMA FrameKeeps ==
    ASSUME ServingInv, NEW r \in Numbers, Frame(r) PROVE ServingInv'
<1> DEFINE p == Counted(r, FrameCount, "complete")
           q == [p EXCEPT !.heard = Append(p.heard, recurrent)]
<1>1. /\ request[r].at = "frames" /\ request[r].at \notin Over /\ request[r].at \in Through
      /\ recurrent' = recurrent \cup {r} /\ request' = [request EXCEPT ![r] = [p EXCEPT !.heard = Append(@, recurrent)]]
      /\ UNCHANGED <<handler, waits, giveUp, observation, computing>> /\ "complete" \in Places
  BY DEF Frame, patience, Over, Through, Places
<1>2. /\ p \in RequestRecords
      /\ request[r].done + 1 = FrameCount => p.done = 0 /\ p.at = "complete"
      /\ request[r].done + 1 # FrameCount => p.done = request[r].done + 1 /\ p.at = request[r].at
      /\ p.size = request[r].size /\ p.honest = request[r].honest /\ p.batch = request[r].batch
      /\ p.scale = request[r].scale /\ p.cut = request[r].cut /\ p.heard = request[r].heard
  BY <1>1, CountedIs
<1>3. recurrent \in SUBSET Numbers /\ p.heard \in Seq(SUBSET Numbers)
      /\ Append(p.heard, recurrent) \in Seq(SUBSET Numbers)
  BY <1>2, ServingBounds DEF Typed
<1> HIDE DEF p
<1>4. /\ q \in RequestRecords /\ q.at = p.at /\ q.done = p.done /\ q.size = p.size /\ q.honest = p.honest
      /\ q.batch = p.batch /\ q.scale = p.scale /\ q.cut = p.cut /\ q.heard = Append(p.heard, recurrent)
  BY <1>2, <1>3 DEF RequestRecords
<1>5. request' = [request EXCEPT ![r] = q]
  BY <1>1, <1>2 DEF RequestRecords
<1> HIDE DEF q
<1>6. q.at \in {"frames", "complete"}
  BY <1>1, <1>2, <1>4
<1>7. q.at \in Through /\ q.at \notin Over
  BY <1>6 DEF Over, Through
<1>8. /\ observation' \in [inputs : Seq(Numbers), outputs : Seq(Numbers), batch : Nat]
      /\ recurrent' \in SUBSET Numbers /\ computing' \in SUBSET (computing \cup {r})
  BY <1>1, <1>3 DEF ServingInv, Typed
<1>9. OneByOne => r \notin computing
  BY <1>1 DEF OneByOne, Leaving
<1>10. ScaleFits(handler, q)
  BY <1>1, <1>2, <1>4, <1>7, ScaleMoves, ServingBounds DEF Over, Through
<1>11. ASSUME Evident PROVE EvidenceFits(handler, observation', recurrent', r, q)
  <2>1. /\ handler.task = "voice"
        /\ \/ request[r].done = 0 /\ request[r].heard = <<>> /\ recurrent = {}
           \/ request[r].done = 1 /\ request[r].heard = <<{}>> /\ recurrent = {r}
    BY <1>1, <1>11 DEF Evident, EvidenceFits
  <2>2. CASE request[r].done = 0 /\ request[r].heard = <<>> /\ recurrent = {}
    <3>1. q.at = "frames" /\ q.done = 1 /\ q.heard = <<{}>> /\ recurrent' = {r}
      BY <1>1, <1>2, <1>4, <2>2 DEF FrameCount
    <3> QED
      BY <2>1, <3>1 DEF EvidenceFits
  <2>3. CASE request[r].done = 1 /\ request[r].heard = <<{}>> /\ recurrent = {r}
    <3>1. q.at = "complete" /\ q.heard = <<{}, {r}>>
      <4>1. q.at = "complete" /\ q.heard = Append(<<{}>>, {r})
        BY <1>2, <1>4, <2>3 DEF FrameCount
      <4>2. {} \in SUBSET Numbers /\ {r} \in SUBSET Numbers
        OBVIOUS
      <4>3. Append(<<{}>>, {r}) = <<{}, {r}>>
        BY <4>2, TwoHeard
      <4> QED
        BY <4>1, <4>3
    <3> QED
      BY <2>1, <3>1 DEF EvidenceFits
  <2> QED
    BY <2>1, <2>2, <2>3
<1> QED
  BY <1>1, <1>4, <1>5, <1>6, <1>7, <1>8, <1>9, <1>10, <1>11, ThreadKeeps

LEMMA DeviceDoneKeeps ==
    ASSUME ServingInv, NEW r \in Numbers, DeviceDone(r) PROVE ServingInv'
<1>1. computing' = computing \ {r} /\ UNCHANGED <<handler, waits, giveUp, request, observation, recurrent>>
  BY DEF DeviceDone, patience
<1>2. Typed' /\ Scaled'
  BY <1>1 DEF ServingInv, Typed, Scaled
<1>3. OneByOne => OneByOne'
  BY <1>1 DEF OneByOne, Open
<1>4. Evident => Evident'
  BY <1>1 DEF Evident
<1> QED
  BY <1>2, <1>3, <1>4 DEF ServingInv

LEMMA RunKeeps ==
    ASSUME ServingInv, NEW r \in Numbers, Run(r) PROVE ServingInv'
<1> DEFINE place == IF handler.task = "generation" THEN "decode" ELSE "complete"
<1>1. /\ request[r].at = "run" /\ request[r].at \notin Over /\ request[r].at \in Through
      /\ UNCHANGED <<handler, giveUp, observation, recurrent>>
  BY DEF Run, Over, Through
<1>2. /\ observation' \in [inputs : Seq(Numbers), outputs : Seq(Numbers), batch : Nat]
      /\ recurrent' \in SUBSET Numbers
  BY <1>1 DEF ServingInv, Typed
<1>3. KernelsOf(r) = computing \/ KernelsOf(r) = computing \cup {r}
  BY DEF KernelsOf
<1>4. CASE AnswersError(r) /\ computing' \in {computing, KernelsOf(r)}
  <2>1. To(r, "failed") /\ waits' = waits \ {r}
    BY <1>4 DEF AnswersError
  <2>2. "failed" \in Places \ {"none"} /\ "failed" \in Over /\ "failed" \notin Through
    BY DEF Places, Over, Through
  <2>3. \A q \in RequestRecords : q.at = "failed" => EvidenceFits(handler, observation', recurrent', r, q)
    BY DEF EvidenceFits
  <2>4. "failed" \in Leaving /\ computing' \in SUBSET (computing \cup {r})
    <3>1. computing' = computing \/ computing' = computing \cup {r}
      BY <1>3, <1>4
    <3> QED
      BY <3>1 DEF Leaving
  <2> QED
    BY <1>1, <1>2, <1>4, <2>1, <2>2, <2>3, <2>4, GoesOn
<1>5. CASE To(r, place) /\ waits' = waits /\ computing' = KernelsOf(r)
  <2>1. place \in Places \ {"none"} /\ place \notin Over /\ place # "refused" /\ place \in Leaving
    BY DEF Places, Over, Leaving
  <2>2. ASSUME Evident, NEW q \in RequestRecords, q.at = place, q.done = request[r].done, q.batch = request[r].batch
        PROVE  EvidenceFits(handler, observation', recurrent', r, q)
    <3>1. q.batch \in Nat \ {0}
      BY DEF RequestRecords
    <3>2. handler.task # "voice"
      BY <1>1, <2>2 DEF Evident, EvidenceFits
    <3>3. handler.task = "generation" =>
             /\ q.done = 0 /\ observation'.inputs = Copies(q.batch, r) /\ observation'.outputs = <<>>
             /\ observation'.batch = q.batch
      BY <1>1, <2>2 DEF Evident, EvidenceFits
    <3>4. handler.task = "generation" => q.done < q.batch /\ observation'.outputs = Copies(q.done, r)
      BY <3>1, <3>3, NoCopies
    <3> QED
      BY <2>2, <3>2, <3>3, <3>4 DEF EvidenceFits
  <2>3. computing' \in SUBSET (computing \cup {r})
    BY <1>3, <1>5
  <2> HIDE DEF place
  <2> QED
    BY <1>1, <1>2, <1>5, <2>1, <2>2, <2>3, GoesOn
<1>6. \/ AnswersError(r) /\ computing' \in {computing, KernelsOf(r)}
      \/ To(r, place) /\ waits' = waits /\ computing' = KernelsOf(r)
  BY DEF Run
<1> QED
  BY <1>4, <1>5, <1>6

LEMMA CompleteKeeps ==
    ASSUME ServingInv, NEW r \in Numbers, Complete(r) PROVE ServingInv'
<1>1. /\ request[r].at = "complete" /\ request[r].at \notin Over /\ request[r].at \in Through
      /\ UNCHANGED <<handler, giveUp, observation, recurrent, computing>>
  BY DEF Complete, shared, Over, Through
<1>2. /\ observation' \in [inputs : Seq(Numbers), outputs : Seq(Numbers), batch : Nat]
      /\ recurrent' \in SUBSET Numbers /\ computing' \in SUBSET (computing \cup {r})
  BY <1>1 DEF ServingInv, Typed
<1>3. CASE r \notin computing /\ To(r, "postprocess") /\ waits' = waits
  <2>1. "postprocess" \in Places \ {"none"} /\ "postprocess" \notin Over
    BY DEF Places, Over
  <2>2. ASSUME Evident, NEW q \in RequestRecords, q.at = "postprocess", q.heard = request[r].heard,
               q.batch = request[r].batch
        PROVE  EvidenceFits(handler, observation', recurrent', r, q)
    BY <1>1, <2>2 DEF Evident, EvidenceFits
  <2> QED
    BY <1>1, <1>2, <1>3, <2>1, <2>2, GoesOn
<1>4. CASE r \in computing /\ AnswersError(r)
  <2>1. To(r, "failed") /\ waits' = waits \ {r}
    BY <1>4 DEF AnswersError
  <2>2. "failed" \in Places \ {"none"} /\ "failed" \in Over /\ "failed" \notin Through
    BY DEF Places, Over, Through
  <2>3. \A q \in RequestRecords : q.at = "failed" => EvidenceFits(handler, observation', recurrent', r, q)
    BY DEF EvidenceFits
  <2>4. "failed" \in Leaving
    BY DEF Leaving
  <2> QED
    BY <1>1, <1>2, <1>4, <2>1, <2>2, <2>3, <2>4, GoesOn
<1> QED
  BY <1>3, <1>4 DEF Complete

LEMMA PostprocessKeeps ==
    ASSUME ServingInv, NEW r \in Numbers, Postprocess(r) PROVE ServingInv'
<1> DEFINE reported == IF handler.task = "generation" THEN ObservedTokens ELSE Nothing
           q == [request[r] EXCEPT !.at = "answered", !.tokens = reported]
<1>1. /\ request[r].at = "postprocess" /\ request[r].at \notin Over /\ request[r].at \in Through
      /\ UNCHANGED <<handler, giveUp, observation, recurrent, computing>>
  BY DEF Postprocess, shared, Over, Through
<1>2. /\ observation' \in [inputs : Seq(Numbers), outputs : Seq(Numbers), batch : Nat]
      /\ recurrent' \in SUBSET Numbers /\ computing' \in SUBSET (computing \cup {r})
  BY <1>1 DEF ServingInv, Typed
<1>3. OneByOne => r \notin computing
  BY <1>1 DEF OneByOne, Leaving
<1>4. CASE AnswersError(r)
  <2>1. To(r, "failed") /\ waits' = waits \ {r}
    BY <1>4 DEF AnswersError
  <2>2. "failed" \in Places \ {"none"} /\ "failed" \in Over /\ "failed" \notin Through
    BY DEF Places, Over, Through
  <2>3. \A c \in RequestRecords : c.at = "failed" => EvidenceFits(handler, observation', recurrent', r, c)
    BY DEF EvidenceFits
  <2> QED
    BY <1>1, <1>2, <1>3, <2>1, <2>2, <2>3, GoesOn
<1>5. CASE /\ request' = [request EXCEPT ![r].at = "answered", ![r].tokens = reported]
           /\ waits' = waits \ {r}
  <2>1. reported \in Seq(Numbers)
    BY ServingBounds DEF ObservedTokens, Nothing
  <2> HIDE DEF reported
  <2>2. request' = [request EXCEPT ![r] = q]
    BY <1>5, ServingBounds
  <2>3. /\ q \in RequestRecords /\ q.at = "answered" /\ q.tokens = reported
        /\ q.size = request[r].size /\ q.honest = request[r].honest /\ q.batch = request[r].batch
        /\ q.scale = request[r].scale /\ q.cut = request[r].cut /\ q.heard = request[r].heard
    BY <2>1, ServingBounds DEF RequestRecords, Places, Over
  <2> HIDE DEF q
  <2>4. ScaleFits(handler, q)
    BY <1>1, <2>3, ScaleMoves, ServingBounds
  <2>5. ASSUME Evident PROVE EvidenceFits(handler, observation', recurrent', r, q)
    <3>1. /\ handler.task = "generation" =>
                /\ observation.inputs = Copies(q.batch, r) /\ observation.outputs = Copies(q.batch, r)
                /\ observation.batch = q.batch
          /\ handler.task = "voice" => q.heard = <<{}, {r}>>
      BY <1>1, <2>3, <2>5 DEF Evident, EvidenceFits
    <3>2. Len(Copies(q.batch, r)) = q.batch
      BY <2>3, OneCopyMore, ServingBounds
    <3>3. handler.task = "generation" => q.tokens = Copies(q.batch, r)
      BY <2>3, <3>1, <3>2 DEF ObservedTokens, reported
    <3> QED
      BY <2>3, <3>1, <3>3 DEF EvidenceFits
  <2>6. q.at \in Over /\ q.at \notin {"decode", "complete"}
    BY <2>3 DEF Over
  <2> QED
    BY <1>1, <1>2, <1>3, <1>5, <2>2, <2>3, <2>4, <2>5, <2>6, ThreadKeeps
<1> QED
  BY <1>4, <1>5 DEF Postprocess

LEMMA AskKeeps ==
    ASSUME ServingInv, NEW r \in Numbers, Ask(r) PROVE ServingInv'
<1>1. /\ ~giveUp /\ request[r].at = "none" /\ (Parallel \/ waits = {}) /\ waits' = waits \cup {r}
      /\ UNCHANGED <<handler, giveUp, observation, recurrent, computing>>
  BY DEF Ask, shared
<1>2. PICK size \in Sizes, batch \in Batches, honest \in BOOLEAN :
         request' = [request EXCEPT ![r] = [NoRequest EXCEPT
                       !.at = "preprocess", !.size = size, !.batch = batch, !.honest = honest]]
  BY DEF Ask
<1> DEFINE q == [NoRequest EXCEPT !.at = "preprocess", !.size = size, !.batch = batch, !.honest = honest]
<1>3. size \in Nat \ {0} /\ batch \in Nat \ {0}
  BY ServingAssumption
<1>4. <<>> \in Seq(SUBSET Numbers) /\ <<>> \in Seq(Numbers) /\ "preprocess" \in Places
  BY DEF Places
<1>5. /\ q \in RequestRecords /\ q.at = "preprocess" /\ q.size = size /\ ~q.cut /\ q.done = 0 /\ q.heard = <<>>
  BY <1>3, <1>4 DEF RequestRecords, NoRequest, Nothing
<1> HIDE DEF q
<1>6. /\ request' \in [Numbers -> RequestRecords] /\ request'[r] = q
      /\ \A c \in Numbers \ {r} : request'[c] = request[c]
  BY <1>2, <1>5, ServingBounds DEF q
<1>7. Typed'
  BY <1>1, <1>6 DEF ServingInv, Typed
<1>8. ScaleFits(handler, q)
  BY <1>3, <1>5 DEF ScaleFits, Through
<1>9. Scaled'
  BY <1>1, <1>6, <1>8 DEF ServingInv, Scaled
<1>10. ASSUME ~Parallel PROVE OneByOne' /\ Evident'
  <2>1. OneByOne /\ Evident /\ waits = {}
    BY <1>1, <1>10 DEF ServingInv
  <2>2. Open = {} /\ r \notin computing
    BY <1>1, <2>1 DEF OneByOne, Leaving
  <2>3. Open' = {r} /\ computing' = computing /\ waits' = {r} /\ ~giveUp'
    BY <1>1, <1>5, <1>6, <2>1, <2>2 DEF Open, Over
  <2>4. \A c \in computing' : request'[c].at \in Leaving
    BY <1>6, <1>7, <2>1, <2>2, <2>3 DEF OneByOne, Typed
  <2>5. OneByOne'
    BY <2>3, <2>4 DEF OneByOne
  <2>6. EvidenceFits(handler, observation, recurrent, r, q)
    BY <1>5 DEF EvidenceFits
  <2>7. Evident'
    BY <1>1, <1>6, <2>1, <2>6 DEF Evident
  <2> QED
    BY <2>5, <2>7
<1> QED
  BY <1>7, <1>9, <1>10 DEF ServingInv

LEMMA TimesOutKeeps ==
    ASSUME ServingInv, NEW r \in Numbers, TimesOut(r) PROVE ServingInv'
<1>1. /\ r \in waits /\ waits' = waits \ {r} /\ giveUp' = ~Parallel
      /\ UNCHANGED <<handler, request, observation, recurrent, computing>>
  BY DEF TimesOut, shared
<1>2. Typed' /\ Scaled'
  BY <1>1, ServingAssumption DEF ServingInv, Typed, Scaled
<1>3. ASSUME ~Parallel PROVE OneByOne' /\ Evident'
  <2>1. OneByOne /\ Evident
    BY <1>3 DEF ServingInv
  <2>2. waits' = {} /\ giveUp' = TRUE /\ Open' = Open
    <3>1. \A q \in waits : q = r
      BY <1>1, <2>1 DEF OneByOne
    <3>2. giveUp' = TRUE
      BY <1>1, <1>3
    <3> QED
      BY <1>1, <3>1, <3>2 DEF Open
  <2>3. OneByOne'
    BY <1>1, <2>1, <2>2 DEF OneByOne
  <2>4. Evident'
    BY <1>1, <2>1 DEF Evident
  <2> QED
    BY <2>3, <2>4
<1> QED
  BY <1>2, <1>3 DEF ServingInv

LEMMA NextCaseKeeps ==
    ASSUME ServingInv, NextCase PROVE ServingInv'
<1> DEFINE Left(r) == IF r \in Open THEN [request[r] EXCEPT !.at = "gone"] ELSE request[r]
<1>1. /\ giveUp /\ giveUp' = FALSE /\ request' = [r \in Numbers |-> Left(r)]
      /\ observation' = [inputs |-> <<>>, outputs |-> <<>>, batch |-> 0]
      /\ recurrent' = {} /\ computing' = {} /\ UNCHANGED <<handler, waits>>
  BY DEF NextCase, Blank, Nothing
<1>2. ASSUME NEW r \in Numbers
      PROVE  /\ Left(r) \in RequestRecords /\ Left(r).at = IF r \in Open THEN "gone" ELSE request[r].at
             /\ Left(r).at \in Over /\ (r \notin Open => Left(r) = request[r])
             /\ Left(r).size = request[r].size /\ Left(r).honest = request[r].honest
             /\ Left(r).batch = request[r].batch /\ Left(r).cut = request[r].cut
             /\ Left(r).scale = request[r].scale
  <2>1. "gone" \in Places /\ "gone" \in Over
    BY DEF Places, Over
  <2>2. r \notin Open => request[r].at \in Over
    BY DEF Open
  <2> QED
    BY <2>1, <2>2, ServingBounds DEF RequestRecords
<1> HIDE DEF Left
<1>3. \A r \in Numbers : request'[r] = Left(r)
  BY <1>1
<1>4. request' \in [Numbers -> RequestRecords]
  BY <1>1, <1>2
<1>5. observation' \in [inputs : Seq(Numbers), outputs : Seq(Numbers), batch : Nat]
  <2>1. <<>> \in Seq(Numbers) /\ 0 \in Nat
    OBVIOUS
  <2> HIDE DEF Numbers
  <2> QED
    BY <1>1, <2>1
<1>6. Typed'
  BY <1>1, <1>4, <1>5 DEF ServingInv, Typed
<1>7. ASSUME NEW r \in Numbers PROVE ScaleFits(handler, Left(r))
  <2>1. CASE r \notin Open
    BY <1>2, <2>1, ServingBounds
  <2>2. CASE r \in Open
    <3>1. request[r].at # "none"
      BY <2>2 DEF Open, Over
    <3>2. Left(r).at = "gone" /\ "gone" \notin Through
      BY <1>2, <2>2 DEF Through
    <3> QED
      BY <1>2, <3>1, <3>2, ScaleMoves, ServingBounds
  <2> QED
    BY <2>1, <2>2
<1>8. Scaled'
  BY <1>1, <1>3, <1>7 DEF Scaled
<1>9. Open' = {}
  BY <1>2, <1>3 DEF Open
<1>10. ASSUME ~Parallel PROVE OneByOne' /\ Evident'
  <2>1. OneByOne /\ Evident
    BY <1>10 DEF ServingInv
  <2>2. OneByOne'
    BY <1>1, <1>9, <2>1 DEF OneByOne
  <2>3. ASSUME NEW r \in Numbers PROVE EvidenceFits(handler, observation', recurrent', r, Left(r))
    <3>1. CASE r \notin Open
      BY <1>2, <2>1, <3>1 DEF Evident, EvidenceFits, Over
    <3>2. CASE r \in Open
      BY <1>2, <3>2 DEF EvidenceFits
    <3> QED
      BY <3>1, <3>2
  <2>4. Evident'
    BY <1>1, <1>3, <2>3 DEF Evident
  <2> QED
    BY <2>2, <2>4
<1> QED
  BY <1>6, <1>8, <1>10 DEF ServingInv

\* The server comes up, or a step of some other part.
LEMMA ServingRests ==
    ASSUME ServingInv, UNCHANGED <<handler, waits, giveUp, request, observation, recurrent, computing>>
    PROVE  ServingInv'
<1>1. Typed' /\ Scaled'
  BY DEF ServingInv, Typed, Scaled
<1>2. OneByOne => OneByOne'
  BY DEF OneByOne, Open
<1>3. Evident => Evident'
  BY DEF Evident
<1> QED
  BY <1>1, <1>2, <1>3 DEF ServingInv

LEMMA ServingStarts == ServingInit => ServingInv
<1> SUFFICES ASSUME ServingInit PROVE ServingInv
  OBVIOUS
<1>1. <<>> \in Seq(SUBSET Numbers) /\ <<>> \in Seq(Numbers) /\ "none" \in Places
  BY DEF Places, Over
<1>2. /\ NoRequest \in RequestRecords /\ NoRequest.at = "none" /\ ~NoRequest.cut
      /\ Blank \in [inputs : Seq(Numbers), outputs : Seq(Numbers), batch : Nat]
  BY <1>1 DEF RequestRecords, NoRequest, Blank, Nothing
<1>3. /\ \A r \in Numbers : request[r] = NoRequest
      /\ Typed
  BY <1>2 DEF ServingInit, Typed
<1>4. Scaled
  BY <1>2, <1>3 DEF Scaled, ScaleFits, Through
<1>5. Open = {}
  BY <1>2, <1>3 DEF Open, Over
<1>6. OneByOne
  BY <1>5 DEF OneByOne, ServingInit
<1>7. Evident
  BY <1>2, <1>3 DEF Evident, EvidenceFits
<1> QED
  BY <1>3, <1>4, <1>6, <1>7 DEF ServingInv

LEMMA ServingKeeps == ServingInv /\ [ServingNext]_servingVars => ServingInv'
<1> SUFFICES ASSUME ServingInv, [ServingNext]_servingVars PROVE ServingInv'
  OBVIOUS
<1>1. CASE Serve
  BY <1>1, ServingRests DEF Serve, patience, shared
<1>2. CASE NextCase
  BY <1>2, NextCaseKeeps
<1>3. ASSUME NEW r \in Numbers,
             \/ Ask(r) \/ TimesOut(r) \/ Preprocess(r) \/ StartGeneration(r)
             \/ StartVoice(r) \/ Predict(r) \/ Encode(r) \/ Run(r) \/ Decode(r) \/ Frame(r)
             \/ DeviceDone(r) \/ Complete(r) \/ Postprocess(r)
      PROVE  ServingInv'
  BY <1>3, AskKeeps, TimesOutKeeps, PreprocessKeeps, StartGenerationKeeps, StartVoiceKeeps,
     PredictKeeps, EncodeKeeps, RunKeeps, DecodeKeeps, FrameKeeps, DeviceDoneKeeps, CompleteKeeps,
     PostprocessKeeps
<1>4. CASE UNCHANGED servingVars
  BY <1>4, ServingRests DEF servingVars
<1> QED
  BY <1>1, <1>2, <1>3, <1>4 DEF ServingNext

\* Of requests sent one after another: the tokens and frames reported for one are its
\* own, and while the client waits for it no other has a thread and the device works for
\* no other but those that were answered with a 500; an answer comes when its work is
\* done.  Deadlines of the server, errors amid the work of the device and timeouts of
\* the client come at any time.  (container/server.py, container/handlers, host/client.py)
THEOREM RequestsAreServedInTurn ==
    ASSUME ~Parallel PROVE ServingSpec => []ServedInTurn
<1>1. ServingInv => ServedInTurn
  <2> SUFFICES ASSUME ServingInv PROVE ServedInTurn
    OBVIOUS
  <2>1. OneByOne /\ Evident /\ Typed
    BY DEF ServingInv
  <2>2. OwnEvidence
    BY <2>1 DEF OwnEvidence, Evident, EvidenceFits, Answered, Copies
  <2>3. ASSUME NEW r \in waits PROVE Open \subseteq {r}
    BY <2>1 DEF OneByOne
  <2>4. ASSUME NEW r \in waits, NEW q \in computing \ {r} PROVE request[q].at = "failed"
    <3>1. request[q].at \in Leaving /\ q \in Numbers
      BY <2>1 DEF OneByOne, Typed
    <3>2. q \notin Open
      BY <2>3
    <3> QED
      BY <3>1, <3>2 DEF Open, Over, Leaving
  <2>5. Answered \cap computing = {}
    BY <2>1 DEF OneByOne, Answered, Leaving
  <2> QED
    BY <2>2, <2>3, <2>4, <2>5 DEF ServedInTurn, OneAtWork
<1> QED
  BY <1>1, ServingStarts, ServingKeeps, PTL DEF ServingSpec
-----------------------------------------------------------------------------
(* What /scale_meta promises                                               *)

LEMMA HandlerFields ==
    ASSUME ServingInv
    PROVE  /\ handler.limit \in Nat /\ handler.overhead \in Nat /\ handler.reserve \in Nat
           /\ handler.task \in Tasks
BY ServingAssumption DEF ServingInv, Typed

LEMMA PromiseIsRoom ==
    ASSUME ServingInv, Cuts(handler) \/ Marks(handler), Promise(handler) # NoMaximum
    PROVE  /\ Promise(handler) = Room(handler)
           /\ handler.limit > 0 \/ handler.task \in {"speech", "whisper"}
           /\ ~RefusesText(handler, [size |-> 0])
<1>1. CASE handler.task \in SingleTexts
  <2>1. Promise(handler) = TextPromise(handler) /\ Room(handler) = TextBudget(handler)
    BY <1>1 DEF Promise, Room, SingleTexts, Pairs, Sounds
  <2>2. handler.limit # 0 /\ ~NoTextBudget(handler)
    BY <2>1 DEF TextPromise
  <2>3. TextPromise(handler) = TextBudget(handler)
    BY <1>1, <2>2 DEF TextPromise, SingleTexts, Pairs
  <2> QED
    BY <2>1, <2>2, <2>3, HandlerFields DEF RefusesText
<1>2. CASE handler.task \in Pairs
  <2>1. Promise(handler) = TextPromise(handler) /\ Room(handler) = PairBudget(handler)
    BY <1>2 DEF Promise, Room, SingleTexts, Pairs, Sounds
  <2>2. handler.limit # 0
    BY <2>1 DEF TextPromise
  <2>3. TextPromise(handler) = PairBudget(handler)
    BY <1>2, <2>1 DEF TextPromise
  <2> QED
    BY <1>2, <2>1, <2>2, <2>3, HandlerFields DEF RefusesText, SingleTexts, Pairs
<1>3. CASE handler.task = "speech"
  BY <1>3, HandlerFields DEF Promise, SoundPromise, SpeechBudget, Room, SingleTexts, Pairs, Sounds, RefusesText
<1>4. CASE handler.task = "whisper"
  BY <1>4, HandlerFields DEF Promise, SoundPromise, ShortFormLimit, Room, SingleTexts, Pairs, Sounds, RefusesText
<1>5. CASE handler.task = "waveform"
  BY <1>5, HandlerFields DEF Promise, SoundPromise, Room, SingleTexts, Pairs, Sounds, NoMaximum, RefusesText
<1> QED
  BY <1>1, <1>2, <1>3, <1>4, <1>5 DEF Cuts, Marks

LEMMA WithinIsWhole ==
    ASSUME ServingInv, NEW r \in Numbers, Promise(handler) # NoMaximum,
           request[r].size <= Promise(handler)
    PROVE  ~Exceeds(handler, request[r]) /\ ~request[r].cut
<1>1. ~Exceeds(handler, request[r])
  <2>1. CASE Cuts(handler) \/ Marks(handler)
    <3>1. ~(request[r].size > Promise(handler))
      <4>1. Promise(handler) \in Int
        BY <2>1, PromiseIsRoom, HandlerFields DEF Room, TextBudget, PairBudget, SpeechBudget, ShortFormLimit,
           Greater, Cuts, Marks, SingleTexts, Pairs, TextAudioCap, ShortForm
      <4> QED
        BY <4>1, ServingBounds
    <3> QED
      BY <2>1, <3>1, PromiseIsRoom DEF Exceeds
  <2>2. CASE ~(Cuts(handler) \/ Marks(handler))
    BY <2>2 DEF Exceeds
  <2> QED
    BY <2>1, <2>2
<1> QED
  BY <1>1, ServingBounds DEF ScaleFits

LEMMA WithinIsTaken ==
    ASSUME ServingInv, NEW r \in Numbers, Promise(handler) # NoMaximum, request[r].honest,
           request[r].size <= Promise(handler), request[r].at = "refused"
    PROVE  handler.task = "embedding"
<1>1. ~Exceeds(handler, request[r]) /\ ~request[r].cut /\ request[r].size # 0
  BY WithinIsWhole, ServingBounds DEF ScaleFits
<1>2. Refuses(handler, request[r]) \/ MayRefuse(handler, request[r])
  BY <1>1, ServingBounds DEF ScaleFits
<1>3. ~RefusesText(handler, request[r])
  BY PromiseIsRoom DEF RefusesText, Cuts
<1>4. ~RefusesSeries(handler, request[r])
  BY HandlerFields, ServingBounds DEF RefusesSeries, Promise, SeriesPromise, SingleTexts, Pairs, Sounds
<1>5. ~RefusesOnnxText(handler, request[r])
  BY HandlerFields, ServingBounds DEF RefusesOnnxText, Promise, OnnxTextPromise, SingleTexts, Pairs, Sounds
<1>6. handler.task \notin {"rows", "features", "image", "media", "text-to-image", "conditioned", "native"}
  BY DEF Promise, SingleTexts, Pairs, Sounds
<1>7. ~Refuses(handler, request[r])
  BY <1>3, <1>4, <1>5, <1>6 DEF Refuses, RefusesRows, RefusesFeatures, RefusesImage, RefusesMedia,
     RefusesPicture, RefusesNative
<1>8. 0 \notin EffectiveScales(handler, request[r])
  BY <1>1 DEF EffectiveScales
<1> QED
  BY <1>2, <1>7, <1>8 DEF MayRefuse

LEMMA BeyondIsCut ==
    ASSUME ServingInv, NEW r \in Numbers, Promise(handler) # NoMaximum,
           request[r].size > Promise(handler), request[r].at = "answered"
    PROVE  request[r].cut
<1>1. ~Refuses(handler, request[r]) /\ (Exceeds(handler, request[r]) => request[r].cut)
  BY ServingBounds DEF ScaleFits, Through
<1>2. CASE Cuts(handler) \/ Marks(handler)
  BY <1>1, <1>2, PromiseIsRoom DEF Exceeds
<1>3. CASE handler.task = "series"
  <2>1. RefusesSeries(handler, request[r])
    BY <1>3, HandlerFields, ServingBounds DEF RefusesSeries, Promise, SeriesPromise, SingleTexts, Pairs, Sounds
  <2> QED
    BY <1>1, <2>1 DEF Refuses
<1>4. CASE handler.task = "onnx-text"
  <2>1. RefusesOnnxText(handler, request[r])
    BY <1>4, HandlerFields, ServingBounds DEF RefusesOnnxText, Promise, OnnxTextPromise, SingleTexts, Pairs, Sounds
  <2> QED
    BY <1>1, <2>1 DEF Refuses
<1>5. CASE handler.task = "voice"
  BY <1>5 DEF Promise, SoundPromise, SingleTexts, Pairs, Sounds
<1>6. handler.task \in SingleTexts \cup Pairs \cup {"speech", "whisper", "waveform", "series", "onnx-text", "voice"}
  BY DEF Promise, Sounds
<1> QED
  BY <1>2, <1>3, <1>4, <1>5, <1>6 DEF Cuts, Marks

LEMMA AdmittedIsTaken ==
    ASSUME ServingInv, NEW r \in Numbers, handler.task \in Pictures, request[r].honest,
           Admits(handler, request[r].size)
    PROVE  request[r].at # "refused"
<1>1. ~Refuses(handler, request[r])
  <2>1. ~(request[r].size < Smallest)
    BY ServingBounds DEF Admits, Smallest
  <2>2. ~RefusesPicture(handler, request[r])
    BY <2>1 DEF RefusesPicture, Admits
  <2>3. ~RefusesNative(handler, request[r])
    BY DEF RefusesNative
  <2> QED
    BY <2>2, <2>3 DEF Refuses, RefusesText, RefusesSeries, RefusesOnnxText, RefusesRows,
       RefusesFeatures, RefusesImage, RefusesMedia, Pictures, SingleTexts
<1>2. ~MayRefuse(handler, request[r]) /\ handler.task # "whisper"
  BY DEF MayRefuse, Pictures
<1> QED
  BY <1>1, <1>2, ServingBounds DEF ScaleFits

\* Whatever the requests of a case and their order, what /scale_meta promises is what
\* /predict does: an honest input within the maximum is answered whole, one beyond it
\* is not answered uncut, an admitted resolution is accepted, and an uncut answer
\* reports the true scale.  (handlers/nlp.py, handlers/audio.py, handlers/image.py)
THEOREM ScalesAreServed == ServingSpec => []ScalesAreKept
<1>1. ASSUME ServingInv PROVE ScalesAreKept
  <2>1. ASSUME NEW r \in Numbers
        PROVE  request[r].at = "answered" /\ ~request[r].cut => request[r].scale = request[r].size
    BY <1>1, ServingBounds DEF ScaleFits, Through
  <2> QED
    BY <1>1, <2>1, WithinIsWhole, WithinIsTaken, BeyondIsCut, AdmittedIsTaken DEF ScalesAreKept
<1> QED
  BY <1>1, ServingStarts, ServingKeeps, PTL DEF ServingSpec
-----------------------------------------------------------------------------
(* MonitorWindow, for any collectors, windows and failures: the properties   *)
(* of a window follow from what its phases find and leave (BeforeStop,       *)
(* WhileEnding), and that an interrupt is never lost (Heard).                *)

Begun == {"prepare", "start", "run"}

\* What a phase finds: nothing has failed before the collectors are stopped; a
\* collector that was started samples; a window has its baseline.
BeforeStop ==
    /\ pc \in Begun \cup {"build", "ended"} => exc = "none" /\ failures = {} /\ unwritten = "none"
    /\ pc \in {"stop", "close"} => unwritten = "none"
    /\ pc = "build" => /\ owned = {} /\ group = "control"
                       /\ \A m \in Monitors : smp[m] = "off"
    /\ pc \in Begun \cup {"build"} => results = {}
    /\ pc \in Begun \/ (pc = "stop" /\ group = "control") => owned = Monitors
    /\ pc \in Begun /\ group = "window" => baseline = Energy \cap Monitors
    /\ group = "control" => baseline = {}
    /\ pc = "start" => \A m \in started : smp[m] = "on"
    /\ pc = "run" => started = Monitors /\ \A m \in Monitors : smp[m] = "on"

\* What is known while the group ends, if nothing has failed: who has a result,
\* and that whoever samples has still to be closed.
WhileEnding ==
    /\ pc = "stop" /\ exc = "none" /\ failures = {} => results = Monitors \ started
    /\ pc \in {"close", "settle"} /\ exc = "none" /\ failures = {} => results = Monitors
    /\ pc = "stop" => \A m \in Monitors : smp[m] # "off" => m \in owned
    /\ pc \in {"close", "settle"} /\ failures = {} => \A m \in Monitors : smp[m] = "on" => m \in owned
    /\ pc = "settle" => owned = {}
    /\ pc = "settle" /\ unwritten = "none" => window \in journal

\* A Ctrl-C is somewhere on its way to the end of the client.
Heard == struck => \/ ended \in Fatal
                   \/ exc = "cancelled" \/ "cancelled" \in failures \/ unwritten = "cancelled"

\* Every window before this one has its row.
RowsOK == pc # "ended" => Len(rows) = window - 1 /\ ended = "no"

WindowInv == WindowTypeOK /\ BeforeStop /\ WhileEnding /\ Heard /\ RowsOK

LEMMA ForemostIsLeft ==
  ASSUME NEW order, NEW left, DOMAIN order = 1..4,
         \E i \in 1..4 : order[i] \in left
  PROVE  Foremost(order, left) \in left
  <1> DEFINE P(i) == i \in 1..4 /\ order[i] \in left /\ \A j \in 1..4 : order[j] \in left => i <= j
  <1>1. \E i : P(i)
    <2>1. CASE order[1] \in left
      <3>1. P(1)
        BY <2>1
      <3> QED BY <3>1
    <2>2. CASE order[1] \notin left /\ order[2] \in left
      <3>1. P(2)
        BY <2>2
      <3> QED BY <3>1
    <2>3. CASE order[1] \notin left /\ order[2] \notin left /\ order[3] \in left
      <3>1. P(3)
        BY <2>3
      <3> QED BY <3>1
    <2>4. CASE order[1] \notin left /\ order[2] \notin left /\ order[3] \notin left
      <3>1. P(4)
        BY <2>4
      <3> QED BY <3>1
    <2> QED BY <2>1, <2>2, <2>3, <2>4
  <1>2. \E i \in DOMAIN order : order[i] \in left /\ \A j \in DOMAIN order : order[j] \in left => i <= j
    BY <1>1
  <1> QED BY <1>2 DEF Foremost

LEMMA TurnsAreTaken ==
  ASSUME NEW left, left \subseteq Monitors, left # {}
  PROVE  /\ Foremost(Start_Order, left) \in left
         /\ Foremost(Stop_Order, left) \in left
         /\ Foremost(Close_Order, left) \in left
  <1>1. PICK m \in left : m \in {"gpu", "cpu", "resource", "mips"}
    BY WindowAssumption DEF ToSet, Start_Order
  <1>2. DOMAIN Start_Order = 1..4 /\ \E i \in 1..4 : Start_Order[i] = m
    BY <1>1 DEF Start_Order
  <1>3. DOMAIN Stop_Order = 1..4 /\ \E i \in 1..4 : Stop_Order[i] = m
    BY <1>1 DEF Stop_Order
  <1>4. DOMAIN Close_Order = 1..4 /\ \E i \in 1..4 : Close_Order[i] = m
    <2>1. Close_Order = [i \in 1..4 |-> Start_Order[(4 - i) + 1]]
      BY DEF Close_Order, Reverse, Start_Order
    <2>2. Close_Order[1] = "mips" /\ Close_Order[2] = "resource" /\ Close_Order[3] = "cpu" /\ Close_Order[4] = "gpu"
      BY <2>1 DEF Start_Order
    <2> QED BY <1>1, <2>1, <2>2
  <1> QED BY <1>1, <1>2, <1>3, <1>4, ForemostIsLeft

\* What a stop() and a close() may leave.
Left(m, r) ==
    /\ r[1] \in Sampler /\ r[2] \in Error
    /\ smp[m] = "off" => r[1] = "off"
    /\ r[2] = "none" => r[1] # "on"
    /\ r[1] = "on" => smp[m] = "on"

LEMMA StopLeaves ==
  ASSUME NEW m \in Monitors, smp[m] \in Sampler, NEW r \in StopFaults(m) \cup {StopResult(m)}
  PROVE  Left(m, r)
  <1>1. CASE m = "mips"
    BY <1>1 DEF Left, StopFaults, StopResult, Sampler, Error
  <1>2. CASE m # "mips"
    BY <1>2 DEF Left, StopFaults, StopResult, Sampler, Error
  <1> QED BY <1>1, <1>2

LEMMA CloseLeaves ==
  ASSUME NEW m \in Monitors, smp[m] \in Sampler, NEW r \in CloseFaults(m) \cup {<<"off", "none">>}
  PROVE  Left(m, r)
  <1>1. CASE r = <<"off", "none">> \/ r = <<"off", "error">> \/ r = <<smp[m], "cancelled">>
    BY <1>1 DEF Left, Sampler, Error
  <1>2. CASE r \in StopFaults(m)
    BY <1>2, StopLeaves
  <1> QED BY <1>1, <1>2 DEF CloseFaults

LEMMA FaultsAreFew ==
  ASSUME faults \in 0..MaxFaults, struck \in BOOLEAN, NEW what, Fault(what) \/ NoFault
  PROVE  faults' \in 0..MaxFaults /\ struck' \in BOOLEAN
  <1>1. faults' \in 0..MaxFaults
    BY WindowAssumption DEF Fault, NoFault
  <1>2. CASE Fault(what)
    <2>1. struck' = (struck \/ what = "cancelled")
      BY <1>2 DEF Fault
    <2> QED BY <1>1, <2>1
  <1>3. CASE NoFault
    BY <1>1, <1>3 DEF NoFault
  <1> QED BY <1>2, <1>3

LEMMA RaisedIsFatal ==
  ASSUME NEW bad
  PROVE  /\ bad = {} => Raised(bad) = "none"
         /\ bad # {} => Raised(bad) \in {"cancelled", "cleanup"}
         /\ "cancelled" \in bad => Raised(bad) = "cancelled"
  BY DEF Raised

LEMMA OutcomeIsHeard ==
  ASSUME WindowTypeOK
  PROVE  /\ Outcome \in Error
         /\ exc = "cancelled" \/ "cancelled" \in failures \/ unwritten = "cancelled" => Outcome \in Fatal
         /\ Outcome \notin Fatal => failures = {}
         /\ Outcome = "none" => exc = "none" /\ failures = {} /\ unwritten = "none"
  BY RaisedIsFatal DEF Outcome, Fatal, WindowTypeOK, Error

LEMMA WindowStarts == WindowInit => WindowInv
  <1> SUFFICES ASSUME WindowInit PROVE WindowInv
    OBVIOUS
  <1> USE WindowAssumption DEF WindowInit
  <1>1. WindowTypeOK
    <2>1. rows \in Seq({"ok", "error"}) /\ Len(rows) = 0
      OBVIOUS
    <2>2. /\ faults \in 0..MaxFaults /\ window \in 1..NumWindows
          /\ smp \in [Monitors -> Sampler] /\ exc \in Error
      BY DEF Sampler, Error
    <2>3. ended \in {"no", "ok"} \cup Fatal
      OBVIOUS
    <2>4. /\ journal \subseteq 1..NumWindows /\ old \subseteq Monitors \X {"on", "told"}
          /\ baseline \subseteq Energy /\ failures \subseteq Error \ {"none"}
          /\ Len(rows) <= NumWindows
      BY <2>1
    <2> QED BY <2>1, <2>2, <2>3, <2>4 DEF WindowTypeOK, PCs
  <1>2. BeforeStop /\ WhileEnding /\ Heard /\ RowsOK
    BY DEF BeforeStop, WhileEnding, Heard, RowsOK, Begun
  <1> QED BY <1>1, <1>2 DEF WindowInv

\* The step of a collector's stop() or close().
LEMMA AttemptLeaves ==
  ASSUME WindowTypeOK, NEW m \in Monitors, NEW good, NEW bad, Attempt(m, good, bad),
         \A r \in bad \cup {good} : Left(m, r)
  PROVE  \E r :
            /\ Left(m, r)
            /\ smp' = [smp EXCEPT ![m] = r[1]] /\ smp' \in [Monitors -> Sampler]
            /\ failures' = failures \cup ({r[2]} \ {"none"}) /\ failures' \subseteq Error \ {"none"}
            /\ results' = IF pc = "stop" /\ r[2] = "none" THEN results \cup {m} ELSE results
            /\ faults' \in 0..MaxFaults /\ struck' \in BOOLEAN
            /\ struck' => struck \/ r[2] = "cancelled"
  <1>1. PICK r \in bad \cup {good} : Leaves(m, r) /\ (Fault(r[2]) \/ NoFault)
    BY DEF Attempt
  <1>2. Left(m, r)
    BY <1>1
  <1>3. faults' \in 0..MaxFaults /\ struck' \in BOOLEAN
    BY <1>1, FaultsAreFew DEF WindowTypeOK
  <1>4. struck' => struck \/ r[2] = "cancelled"
    BY <1>1 DEF Fault, NoFault
  <1>5. smp' \in [Monitors -> Sampler]
    BY <1>1, <1>2 DEF Left, Leaves, WindowTypeOK
  <1>6. failures' \subseteq Error \ {"none"}
    BY <1>1, <1>2 DEF Left, Leaves, WindowTypeOK
  <1> QED BY <1>1, <1>2, <1>3, <1>4, <1>5, <1>6 DEF Leaves

LEMMA WindowTypesStep ==
  ASSUME WindowInv, [WindowNext]_windowVars
  PROVE  WindowTypeOK'
  <1> USE WindowAssumption DEF WindowInv, WindowTypeOK, PCs, Error
  <1>1. CASE Build
    BY <1>1, FaultsAreFew DEF Build, world, Fault, NoFault, Fails, StopStarted
  <1>2. CASE Prepare
    <2>1. exc' \in Error
      BY <1>2 DEF Prepare, Fails
    <2>2. pc' \in PCs /\ started' \subseteq Monitors
      BY <1>2 DEF Prepare, Fails, StopStarted
    <2>4. armed' \in BOOLEAN
      <3>1. armed' = armed \/ armed' = ("mips" \in Monitors) \/ armed' = FALSE
        BY <1>2 DEF Prepare
      <3>2. ("mips" \in Monitors) \in BOOLEAN
        OBVIOUS
      <3>3. armed \in BOOLEAN
        OBVIOUS
      <3> QED BY <3>1, <3>2, <3>3, Zenon
    <2>3. faults' \in 0..MaxFaults /\ struck' \in BOOLEAN
      <3>1. \E what : Fault(what) \/ NoFault
        BY <1>2 DEF Prepare
      <3> QED BY <3>1, FaultsAreFew
    <2> QED BY <1>2, <2>1, <2>2, <2>3, <2>4 DEF Prepare, world
  <1>3. CASE Start
    <2> DEFINE m == Foremost(Start_Order, ToStart)
    <2>1. m \in Monitors
      BY <1>3, TurnsAreTaken DEF Start, ToStart
    <2> HIDE DEF m
    <2>2. exc' \in Error
      BY <1>3 DEF Start, Fails, ErrorOf, m
    <2>3. pc' \in PCs
      BY <1>3 DEF Start, Fails, StopStarted, m
    <2>4. started' = started \cup {m}
      BY <1>3 DEF Start, m
    <2>5. \E s \in Sampler : smp' = [smp EXCEPT ![m] = s] \/ smp' = smp
      BY <1>3 DEF Start, Sampler, m
    <2>6. faults' \in 0..MaxFaults /\ struck' \in BOOLEAN
      <3>1. \E what : Fault(what) \/ NoFault
        BY <1>3 DEF Start, m
      <3> QED BY <3>1, FaultsAreFew
    <2> QED BY <1>3, <2>1, <2>2, <2>3, <2>4, <2>5, <2>6 DEF Start, world
  <1>4. CASE Started
    BY <1>4, FaultsAreFew DEF Started, world, Fault, NoFault
  <1>5. CASE Idle
    <2>1. exc' \in Error
      BY <1>5 DEF Idle, Fails
    <2>2. pc' \in PCs /\ started' \subseteq Monitors
      BY <1>5 DEF Idle, StopStarted
    <2>4. armed' \in BOOLEAN
      <3>1. armed' = armed \/ armed' = ("mips" \in Monitors) \/ armed' = FALSE
        BY <1>5 DEF Idle
      <3>2. ("mips" \in Monitors) \in BOOLEAN
        OBVIOUS
      <3>3. armed \in BOOLEAN
        OBVIOUS
      <3> QED BY <3>1, <3>2, <3>3, Zenon
    <2>3. faults' \in 0..MaxFaults /\ struck' \in BOOLEAN
      <3>1. \E what : Fault(what) \/ NoFault
        BY <1>5 DEF Idle
      <3> QED BY <3>1, FaultsAreFew
    <2> QED BY <1>5, <2>1, <2>2, <2>3, <2>4 DEF Idle, world
  <1>6. CASE Requests
    <2>1. exc' \in Error
      BY <1>6 DEF Requests, Fails
    <2>2. pc' \in PCs /\ started' \subseteq Monitors
      BY <1>6 DEF Requests, StopStarted
    <2>4. armed' \in BOOLEAN
      <3>1. armed' = armed \/ armed' = ("mips" \in Monitors) \/ armed' = FALSE
        BY <1>6 DEF Requests
      <3>2. ("mips" \in Monitors) \in BOOLEAN
        OBVIOUS
      <3>3. armed \in BOOLEAN
        OBVIOUS
      <3> QED BY <3>1, <3>2, <3>3, Zenon
    <2>3. faults' \in 0..MaxFaults /\ struck' \in BOOLEAN
      <3>1. \E what : Fault(what) \/ NoFault
        BY <1>6 DEF Requests
      <3> QED BY <3>1, FaultsAreFew
    <2> QED BY <1>6, <2>1, <2>2, <2>3, <2>4 DEF Requests, world
  <1>7. CASE StopNext
    <2> DEFINE m == Foremost(Stop_Order, started)
    <2>1. m \in started /\ m \in Monitors /\ smp[m] \in Sampler
      BY <1>7, TurnsAreTaken DEF StopNext, WindowTypeOK
    <2>2. Attempt(m, StopResult(m), StopFaults(m)) /\ started' = started \ {m} /\ armed' = (armed /\ m # "mips")
      BY <1>7 DEF StopNext
    <2> HIDE DEF m
    <2>3. PICK r :
            /\ Left(m, r)
            /\ smp' = [smp EXCEPT ![m] = r[1]] /\ smp' \in [Monitors -> Sampler]
            /\ failures' = failures \cup ({r[2]} \ {"none"}) /\ failures' \subseteq Error \ {"none"}
            /\ results' = IF pc = "stop" /\ r[2] = "none" THEN results \cup {m} ELSE results
            /\ faults' \in 0..MaxFaults /\ struck' \in BOOLEAN
            /\ struck' => struck \/ r[2] = "cancelled"
      BY <2>1, <2>2, AttemptLeaves, StopLeaves
    <2>4. smp \in [Monitors -> Sampler]
      BY DEF WindowTypeOK
    <2> QED BY <1>7, <2>1, <2>2, <2>3, <2>4 DEF StopNext, world, Left, Sampler
  <1>8. CASE Drain
    BY <1>8, FaultsAreFew DEF Drain, world, Fault, NoFault, Sampler
  <1>9. CASE ControlEnds
    BY <1>9, FaultsAreFew DEF ControlEnds, world, Fault, NoFault, ControlError, Raised
  <1>10. CASE BeginClose
    BY <1>10, FaultsAreFew DEF BeginClose, world, Fault, NoFault
  <1>11. CASE CloseNext
    <2> DEFINE m == Foremost(Close_Order, owned)
    <2>1. m \in owned /\ m \in Monitors /\ smp[m] \in Sampler
      BY <1>11, TurnsAreTaken DEF CloseNext, WindowTypeOK
    <2>2. Attempt(m, <<"off", "none">>, CloseFaults(m)) /\ owned' = owned \ {m} /\ armed' = (armed /\ m # "mips")
      BY <1>11 DEF CloseNext
    <2> HIDE DEF m
    <2>3. PICK r :
            /\ Left(m, r)
            /\ smp' = [smp EXCEPT ![m] = r[1]] /\ smp' \in [Monitors -> Sampler]
            /\ failures' = failures \cup ({r[2]} \ {"none"}) /\ failures' \subseteq Error \ {"none"}
            /\ results' = IF pc = "stop" /\ r[2] = "none" THEN results \cup {m} ELSE results
            /\ faults' \in 0..MaxFaults /\ struck' \in BOOLEAN
            /\ struck' => struck \/ r[2] = "cancelled"
      BY <2>1, <2>2, AttemptLeaves, CloseLeaves
    <2>4. smp \in [Monitors -> Sampler]
      BY DEF WindowTypeOK
    <2> QED BY <1>11, <2>1, <2>2, <2>3, <2>4 DEF CloseNext, world, Left
  <1>12. CASE Publish
    BY <1>12, FaultsAreFew DEF Publish, world, Fault, NoFault
  <1>13. CASE Settle
    <2>1. /\ pc' \in PCs /\ ended' \in {"no", "ok"} \cup Fatal /\ window' \in 1..NumWindows
      BY <1>13, OutcomeIsHeard DEF Settle
    <2>2. rows' \in Seq({"ok", "error"}) /\ Len(rows') <= NumWindows
      BY <1>13 DEF Settle, RowsOK
    <2>3. old' \subseteq Monitors \X {"on", "told"}
      BY <1>13 DEF Settle, NewObjects, Sampler
    <2> QED BY <1>13, <2>1, <2>2, <2>3 DEF Settle, NewObjects, NoFault, Sampler
  <1>20. CASE UNCHANGED windowVars
    BY <1>20 DEF windowVars
  <1> QED BY <1>1, <1>2, <1>3, <1>4, <1>5, <1>6, <1>7, <1>8, <1>9, <1>10, <1>11, <1>12, <1>13, <1>20 DEF WindowNext

LEMMA BeforeStopStep ==
  ASSUME WindowInv, [WindowNext]_windowVars
  PROVE  BeforeStop'
  <1> USE WindowAssumption DEF WindowInv, BeforeStop, Begun
  <1>1. CASE Build
    BY <1>1, FaultsAreFew DEF Build, world, Fault, NoFault, Fails, StopStarted, WindowTypeOK
  <1>2. CASE Prepare
    BY <1>2, FaultsAreFew DEF Prepare, world, Fault, NoFault, Fails, StopStarted
  <1>3. CASE Start
    <2> DEFINE m == Foremost(Start_Order, ToStart)
    <2>1. m \in Monitors
      BY <1>3, TurnsAreTaken DEF Start, ToStart
    <2> HIDE DEF m
    <2>2. CASE pc' = "start"
      <3>1. smp' = [smp EXCEPT ![m] = "on"] /\ started' = started \cup {m} /\ exc' = exc
        BY <1>3, <2>2 DEF Start, Fails, StopStarted, m
      <3>2. \A x \in started' : smp'[x] = "on"
        BY <1>3, <2>1, <3>1 DEF WindowTypeOK, Start
      <3> QED BY <1>3, <2>2, <3>1, <3>2 DEF Start, world
    <2>3. CASE pc' # "start"
      <3>1. pc' = "stop"
        BY <1>3, <2>3 DEF Start, Fails, StopStarted
      <3> QED BY <1>3, <3>1 DEF Start, world
    <2> QED BY <2>2, <2>3
  <1>4. CASE Started
    BY <1>4, FaultsAreFew DEF Started, world, Fault, NoFault, ToStart, WindowTypeOK
  <1>5. CASE Idle
    BY <1>5, FaultsAreFew DEF Idle, world, Fault, NoFault, StopStarted
  <1>6. CASE Requests
    BY <1>6, FaultsAreFew DEF Requests, world, Fault, NoFault, StopStarted
  <1>7. CASE StopNext
    <2> DEFINE m == Foremost(Stop_Order, started)
    <2>1. m \in started /\ m \in Monitors /\ smp[m] \in Sampler
      BY <1>7, TurnsAreTaken DEF StopNext, WindowTypeOK
    <2>2. Attempt(m, StopResult(m), StopFaults(m)) /\ started' = started \ {m} /\ armed' = (armed /\ m # "mips")
      BY <1>7 DEF StopNext
    <2> HIDE DEF m
    <2>3. PICK r :
            /\ Left(m, r)
            /\ smp' = [smp EXCEPT ![m] = r[1]] /\ smp' \in [Monitors -> Sampler]
            /\ failures' = failures \cup ({r[2]} \ {"none"}) /\ failures' \subseteq Error \ {"none"}
            /\ results' = IF pc = "stop" /\ r[2] = "none" THEN results \cup {m} ELSE results
            /\ faults' \in 0..MaxFaults /\ struck' \in BOOLEAN
            /\ struck' => struck \/ r[2] = "cancelled"
      BY <2>1, <2>2, AttemptLeaves, StopLeaves
    <2>4. smp \in [Monitors -> Sampler]
      BY DEF WindowTypeOK
    <2> QED BY <1>7, <2>1, <2>2, <2>3, <2>4 DEF StopNext, world, Left
  <1>8. CASE Drain
    BY <1>8, FaultsAreFew DEF Drain, world, Fault, NoFault, WindowTypeOK
  <1>9. CASE ControlEnds
    <2>1. CASE ControlError = "none"
      <3>1. exc = "none" /\ failures = {}
        BY <2>1, RaisedIsFatal DEF ControlError
      <3>2. results = Monitors
        BY <1>9, <3>1 DEF ControlEnds, WhileEnding
      <3> QED BY <1>9, <2>1, <3>1, <3>2 DEF ControlEnds, world, WindowTypeOK
    <2>2. CASE ControlError # "none"
      BY <1>9, <2>2 DEF ControlEnds, world
    <2> QED BY <2>1, <2>2
  <1>10. CASE BeginClose
    BY <1>10, FaultsAreFew DEF BeginClose, world, Fault, NoFault
  <1>11. CASE CloseNext
    <2> DEFINE m == Foremost(Close_Order, owned)
    <2>1. m \in owned /\ m \in Monitors /\ smp[m] \in Sampler
      BY <1>11, TurnsAreTaken DEF CloseNext, WindowTypeOK
    <2>2. Attempt(m, <<"off", "none">>, CloseFaults(m)) /\ owned' = owned \ {m} /\ armed' = (armed /\ m # "mips")
      BY <1>11 DEF CloseNext
    <2> HIDE DEF m
    <2>3. PICK r :
            /\ Left(m, r)
            /\ smp' = [smp EXCEPT ![m] = r[1]] /\ smp' \in [Monitors -> Sampler]
            /\ failures' = failures \cup ({r[2]} \ {"none"}) /\ failures' \subseteq Error \ {"none"}
            /\ results' = IF pc = "stop" /\ r[2] = "none" THEN results \cup {m} ELSE results
            /\ faults' \in 0..MaxFaults /\ struck' \in BOOLEAN
            /\ struck' => struck \/ r[2] = "cancelled"
      BY <2>1, <2>2, AttemptLeaves, CloseLeaves
    <2>4. smp \in [Monitors -> Sampler]
      BY DEF WindowTypeOK
    <2> QED BY <1>11, <2>1, <2>2, <2>3, <2>4 DEF CloseNext, world, Left
  <1>12. CASE Publish
    BY <1>12, FaultsAreFew DEF Publish, world, Fault, NoFault
  <1>13. CASE Settle
    BY <1>13, FaultsAreFew DEF Settle, world, Fault, NoFault, NewObjects
  <1>20. CASE UNCHANGED windowVars
    BY <1>20 DEF windowVars
  <1> QED BY <1>1, <1>2, <1>3, <1>4, <1>5, <1>6, <1>7, <1>8, <1>9, <1>10, <1>11, <1>12, <1>13, <1>20 DEF WindowNext

LEMMA WhileEndingStep ==
  ASSUME WindowInv, [WindowNext]_windowVars
  PROVE  WhileEnding'
  <1> USE WindowAssumption DEF WindowInv, WhileEnding, BeforeStop, Begun
  <1>1. CASE Build
    BY <1>1, FaultsAreFew DEF Build, world, Fault, NoFault, Fails, StopStarted
  <1>2. CASE Prepare
    BY <1>2, FaultsAreFew DEF Prepare, world, Fault, NoFault, Fails, StopStarted
  <1>3. CASE Start
    BY <1>3, FaultsAreFew DEF Start, world, Fault, NoFault, Fails, StopStarted, ErrorOf, ToStart, WindowTypeOK
  <1>4. CASE Started
    BY <1>4, FaultsAreFew DEF Started, world, Fault, NoFault, ToStart
  <1>5. CASE Idle
    BY <1>5, FaultsAreFew DEF Idle, world, Fault, NoFault, StopStarted
  <1>6. CASE Requests
    BY <1>6, FaultsAreFew DEF Requests, world, Fault, NoFault, StopStarted
  <1>7. CASE StopNext
    <2> DEFINE m == Foremost(Stop_Order, started)
    <2>1. m \in started /\ m \in Monitors /\ smp[m] \in Sampler
      BY <1>7, TurnsAreTaken DEF StopNext, WindowTypeOK
    <2>2. Attempt(m, StopResult(m), StopFaults(m)) /\ started' = started \ {m} /\ armed' = (armed /\ m # "mips")
      BY <1>7 DEF StopNext
    <2> HIDE DEF m
    <2>3. PICK r :
            /\ Left(m, r)
            /\ smp' = [smp EXCEPT ![m] = r[1]] /\ smp' \in [Monitors -> Sampler]
            /\ failures' = failures \cup ({r[2]} \ {"none"}) /\ failures' \subseteq Error \ {"none"}
            /\ results' = IF pc = "stop" /\ r[2] = "none" THEN results \cup {m} ELSE results
            /\ faults' \in 0..MaxFaults /\ struck' \in BOOLEAN
            /\ struck' => struck \/ r[2] = "cancelled"
      BY <2>1, <2>2, AttemptLeaves, StopLeaves
    <2>4. smp \in [Monitors -> Sampler]
      BY DEF WindowTypeOK
    <2> QED BY <1>7, <2>1, <2>2, <2>3, <2>4 DEF StopNext, world, Left
  <1>8. CASE Drain
    BY <1>8, FaultsAreFew DEF Drain, world, Fault, NoFault, WindowTypeOK
  <1>9. CASE ControlEnds
    BY <1>9, FaultsAreFew DEF ControlEnds, world, Fault, NoFault, ControlError, Raised
  <1>10. CASE BeginClose
    BY <1>10, FaultsAreFew DEF BeginClose, world, Fault, NoFault
  <1>11. CASE CloseNext
    <2> DEFINE m == Foremost(Close_Order, owned)
    <2>1. m \in owned /\ m \in Monitors /\ smp[m] \in Sampler
      BY <1>11, TurnsAreTaken DEF CloseNext, WindowTypeOK
    <2>2. Attempt(m, <<"off", "none">>, CloseFaults(m)) /\ owned' = owned \ {m} /\ armed' = (armed /\ m # "mips")
      BY <1>11 DEF CloseNext
    <2> HIDE DEF m
    <2>3. PICK r :
            /\ Left(m, r)
            /\ smp' = [smp EXCEPT ![m] = r[1]] /\ smp' \in [Monitors -> Sampler]
            /\ failures' = failures \cup ({r[2]} \ {"none"}) /\ failures' \subseteq Error \ {"none"}
            /\ results' = IF pc = "stop" /\ r[2] = "none" THEN results \cup {m} ELSE results
            /\ faults' \in 0..MaxFaults /\ struck' \in BOOLEAN
            /\ struck' => struck \/ r[2] = "cancelled"
      BY <2>1, <2>2, AttemptLeaves, CloseLeaves
    <2>4. smp \in [Monitors -> Sampler]
      BY DEF WindowTypeOK
    <2> QED BY <1>11, <2>1, <2>2, <2>3, <2>4 DEF CloseNext, world, Left
  <1>12. CASE Publish
    BY <1>12, FaultsAreFew DEF Publish, world, Fault, NoFault
  <1>13. CASE Settle
    BY <1>13, FaultsAreFew DEF Settle, world, Fault, NoFault, NewObjects
  <1>20. CASE UNCHANGED windowVars
    BY <1>20 DEF windowVars
  <1> QED BY <1>1, <1>2, <1>3, <1>4, <1>5, <1>6, <1>7, <1>8, <1>9, <1>10, <1>11, <1>12, <1>13, <1>20 DEF WindowNext

LEMMA HeardStep ==
  ASSUME WindowInv, [WindowNext]_windowVars
  PROVE  Heard'
  <1> USE WindowAssumption DEF WindowInv, Heard, BeforeStop, Begun
  <1>1. CASE Build
    BY <1>1 DEF Build, world, Fault, NoFault, Fails, StopStarted
  <1>2. CASE Prepare
    BY <1>2 DEF Prepare, world, Fault, NoFault, Fails, StopStarted
  <1>3. CASE Start
    BY <1>3 DEF Start, world, Fault, NoFault, Fails, StopStarted, ErrorOf, ToStart
  <1>4. CASE Started
    BY <1>4 DEF Started, world, Fault, NoFault, ToStart
  <1>5. CASE Idle
    BY <1>5 DEF Idle, world, Fault, NoFault, StopStarted
  <1>6. CASE Requests
    BY <1>6 DEF Requests, world, Fault, NoFault, StopStarted
  <1>7. CASE StopNext
    <2> DEFINE m == Foremost(Stop_Order, started)
    <2>1. m \in started /\ m \in Monitors /\ smp[m] \in Sampler
      BY <1>7, TurnsAreTaken DEF StopNext, WindowTypeOK
    <2>2. Attempt(m, StopResult(m), StopFaults(m)) /\ started' = started \ {m} /\ armed' = (armed /\ m # "mips")
      BY <1>7 DEF StopNext
    <2> HIDE DEF m
    <2>3. PICK r :
            /\ Left(m, r)
            /\ smp' = [smp EXCEPT ![m] = r[1]] /\ smp' \in [Monitors -> Sampler]
            /\ failures' = failures \cup ({r[2]} \ {"none"}) /\ failures' \subseteq Error \ {"none"}
            /\ results' = IF pc = "stop" /\ r[2] = "none" THEN results \cup {m} ELSE results
            /\ faults' \in 0..MaxFaults /\ struck' \in BOOLEAN
            /\ struck' => struck \/ r[2] = "cancelled"
      BY <2>1, <2>2, AttemptLeaves, StopLeaves
    <2>4. smp \in [Monitors -> Sampler]
      BY DEF WindowTypeOK
    <2> QED BY <1>7, <2>1, <2>2, <2>3, <2>4 DEF StopNext, world, Left
  <1>8. CASE Drain
    BY <1>8 DEF Drain, world, Fault, NoFault
  <1>9. CASE ControlEnds
    BY <1>9 DEF ControlEnds, world, Fault, NoFault, ControlError, Raised, WindowTypeOK, Fatal
  <1>10. CASE BeginClose
    BY <1>10 DEF BeginClose, world, Fault, NoFault
  <1>11. CASE CloseNext
    <2> DEFINE m == Foremost(Close_Order, owned)
    <2>1. m \in owned /\ m \in Monitors /\ smp[m] \in Sampler
      BY <1>11, TurnsAreTaken DEF CloseNext, WindowTypeOK
    <2>2. Attempt(m, <<"off", "none">>, CloseFaults(m)) /\ owned' = owned \ {m} /\ armed' = (armed /\ m # "mips")
      BY <1>11 DEF CloseNext
    <2> HIDE DEF m
    <2>3. PICK r :
            /\ Left(m, r)
            /\ smp' = [smp EXCEPT ![m] = r[1]] /\ smp' \in [Monitors -> Sampler]
            /\ failures' = failures \cup ({r[2]} \ {"none"}) /\ failures' \subseteq Error \ {"none"}
            /\ results' = IF pc = "stop" /\ r[2] = "none" THEN results \cup {m} ELSE results
            /\ faults' \in 0..MaxFaults /\ struck' \in BOOLEAN
            /\ struck' => struck \/ r[2] = "cancelled"
      BY <2>1, <2>2, AttemptLeaves, CloseLeaves
    <2>4. smp \in [Monitors -> Sampler]
      BY DEF WindowTypeOK
    <2> QED BY <1>11, <2>1, <2>2, <2>3, <2>4 DEF CloseNext, world, Left
  <1>12. CASE Publish
    BY <1>12 DEF Publish, world, Fault, NoFault
  <1>13. CASE Settle
    <2>1. CASE Outcome \in Fatal
      BY <1>13, <2>1 DEF Settle
    <2>2. CASE Outcome \notin Fatal
      <3>1. struck => ended \in Fatal
        BY <2>2, OutcomeIsHeard
      <3>2. ended = "no"
        BY <1>13 DEF Settle, RowsOK
      <3> QED BY <1>13, <3>1, <3>2 DEF Settle, NewObjects, NoFault, Fatal
    <2> QED BY <2>1, <2>2
  <1>20. CASE UNCHANGED windowVars
    BY <1>20 DEF windowVars
  <1> QED BY <1>1, <1>2, <1>3, <1>4, <1>5, <1>6, <1>7, <1>8, <1>9, <1>10, <1>11, <1>12, <1>13, <1>20 DEF WindowNext

LEMMA RowsStep ==
  ASSUME WindowInv, [WindowNext]_windowVars
  PROVE  RowsOK'
  <1> USE WindowAssumption DEF WindowInv, RowsOK
  <1>1. CASE Build
    BY <1>1 DEF Build, world, Fault, NoFault, Fails, StopStarted
  <1>2. CASE Prepare
    BY <1>2 DEF Prepare, world, Fault, NoFault, Fails, StopStarted
  <1>3. CASE Start
    BY <1>3 DEF Start, world, Fault, NoFault, Fails, StopStarted, ErrorOf, ToStart
  <1>4. CASE Started
    BY <1>4 DEF Started, world, Fault, NoFault, ToStart
  <1>5. CASE Idle
    BY <1>5 DEF Idle, world, Fault, NoFault, StopStarted
  <1>6. CASE Requests
    BY <1>6 DEF Requests, world, Fault, NoFault, StopStarted
  <1>7. CASE StopNext
    <2> DEFINE m == Foremost(Stop_Order, started)
    <2>1. m \in started /\ m \in Monitors /\ smp[m] \in Sampler
      BY <1>7, TurnsAreTaken DEF StopNext, WindowTypeOK
    <2>2. Attempt(m, StopResult(m), StopFaults(m)) /\ started' = started \ {m} /\ armed' = (armed /\ m # "mips")
      BY <1>7 DEF StopNext
    <2> HIDE DEF m
    <2>3. PICK r :
            /\ Left(m, r)
            /\ smp' = [smp EXCEPT ![m] = r[1]] /\ smp' \in [Monitors -> Sampler]
            /\ failures' = failures \cup ({r[2]} \ {"none"}) /\ failures' \subseteq Error \ {"none"}
            /\ results' = IF pc = "stop" /\ r[2] = "none" THEN results \cup {m} ELSE results
            /\ faults' \in 0..MaxFaults /\ struck' \in BOOLEAN
            /\ struck' => struck \/ r[2] = "cancelled"
      BY <2>1, <2>2, AttemptLeaves, StopLeaves
    <2>4. smp \in [Monitors -> Sampler]
      BY DEF WindowTypeOK
    <2> QED BY <1>7, <2>1, <2>2, <2>3, <2>4 DEF StopNext, world, Left
  <1>8. CASE Drain
    BY <1>8 DEF Drain, world, Fault, NoFault
  <1>9. CASE ControlEnds
    BY <1>9 DEF ControlEnds, world, Fault, NoFault, ControlError, Raised
  <1>10. CASE BeginClose
    BY <1>10 DEF BeginClose, world, Fault, NoFault
  <1>11. CASE CloseNext
    <2> DEFINE m == Foremost(Close_Order, owned)
    <2>1. m \in owned /\ m \in Monitors /\ smp[m] \in Sampler
      BY <1>11, TurnsAreTaken DEF CloseNext, WindowTypeOK
    <2>2. Attempt(m, <<"off", "none">>, CloseFaults(m)) /\ owned' = owned \ {m} /\ armed' = (armed /\ m # "mips")
      BY <1>11 DEF CloseNext
    <2> HIDE DEF m
    <2>3. PICK r :
            /\ Left(m, r)
            /\ smp' = [smp EXCEPT ![m] = r[1]] /\ smp' \in [Monitors -> Sampler]
            /\ failures' = failures \cup ({r[2]} \ {"none"}) /\ failures' \subseteq Error \ {"none"}
            /\ results' = IF pc = "stop" /\ r[2] = "none" THEN results \cup {m} ELSE results
            /\ faults' \in 0..MaxFaults /\ struck' \in BOOLEAN
            /\ struck' => struck \/ r[2] = "cancelled"
      BY <2>1, <2>2, AttemptLeaves, CloseLeaves
    <2>4. smp \in [Monitors -> Sampler]
      BY DEF WindowTypeOK
    <2> QED BY <1>11, <2>1, <2>2, <2>3, <2>4 DEF CloseNext, world, Left
  <1>12. CASE Publish
    BY <1>12 DEF Publish, world, Fault, NoFault
  <1>13. CASE Settle
    BY <1>13 DEF Settle, world, Fault, NoFault, NewObjects, Outcome, Raised, Fatal, WhileEnding, WindowTypeOK, Sampler
  <1>20. CASE UNCHANGED windowVars
    BY <1>20 DEF windowVars
  <1> QED BY <1>1, <1>2, <1>3, <1>4, <1>5, <1>6, <1>7, <1>8, <1>9, <1>10, <1>11, <1>12, <1>13, <1>20 DEF WindowNext

\* Requests are measured by all collectors over the baseline of their window; after a
\* failed cleanup, a sampler nobody told to end, or an interrupt no window follows and no
\* row is added; and a row without an error has its evidence.  (measurement_window.py)
THEOREM WindowsAreMeasured == WindowSpec => RowsAreMeasured
  <1>1. WindowSpec => []WindowInv
    <2>1. WindowInv /\ [WindowNext]_windowVars => WindowInv'
      BY WindowTypesStep, BeforeStopStep, WhileEndingStep, HeardStep, RowsStep DEF WindowInv
    <2> QED BY WindowStarts, <2>1, PTL DEF WindowSpec
  <1>2. WindowInv => WindowTypeOK /\ RequestsMeasured /\ InterruptEnds
    BY DEF WindowInv, RequestsMeasured, InterruptEnds, BeforeStop, Heard, Begun
  <1>3. ASSUME WindowNext, rows' # rows \/ window' # window PROVE Settle /\ Outcome \notin Fatal
    BY <1>3 DEF WindowNext, Build, Prepare, Start, Started, Idle, Requests, StopNext, Drain, ControlEnds,
           BeginClose, CloseNext, Publish, Settle, world
  <1>4. WindowInv /\ [WindowNext]_windowVars =>
            [rows' # rows /\ Last(rows') = "ok" => results = Monitors /\ window \in journal]_windowVars
    <2> SUFFICES ASSUME WindowInv, WindowNext, rows' # rows, Last(rows') = "ok"
                 PROVE  results = Monitors /\ window \in journal
      OBVIOUS
    <2>1. Settle
      BY <1>3
    <2>2. Outcome = "none"
      BY <2>1 DEF Settle, Last, WindowInv, WindowTypeOK
    <2> QED BY <2>1, <2>2 DEF Settle, Outcome, Raised, WindowInv, WhileEnding
  <1>5. WindowInv /\ [WindowNext]_windowVars =>
            [rows' # rows \/ window' # window =>
                failures = {} /\ \A m \in Monitors : smp[m] # "on"]_windowVars
    <2> SUFFICES ASSUME WindowInv, WindowNext, rows' # rows \/ window' # window
                 PROVE  failures = {} /\ \A m \in Monitors : smp[m] # "on"
      OBVIOUS
    <2>1. Settle /\ Outcome \notin Fatal
      BY <1>3
    <2>2. failures = {}
      BY <2>1, OutcomeIsHeard DEF WindowInv
    <2> QED BY <2>1, <2>2 DEF Settle, WindowInv, WhileEnding
  <1> QED BY <1>1, <1>2, <1>4, <1>5, PTL DEF WindowSpec, RowsAreMeasured, RowHasEvidence, CleanupFailureEnds
-----------------------------------------------------------------------------
(* Profiler reports.  The invariant: an attempt's pairs have their entries *)
(* or are still to come, those of a forced attempt are its own, a report   *)
(* about to be parsed was written by this attempt, and a raw stream lies   *)
(* beside no pair that has a value.                                        *)

ReportPairs == ResourceCases \X Scales

\* What an attempt has asked for, and where it stands: every pair has its entry
\* or is still to come.
AttemptOK ==
    entryAt # "idle" =>
        /\ profileAsked \in Asks
        /\ keys \subseteq ReportPairs /\ KeysOf(profileAsked) \subseteq DOMAIN collected \cup keys
        /\ entryAt \in {"entry", "collect", "parse", "publish"}
        /\ entryAt = "publish" <=> keys = {}

\* A forced attempt has entries of its own only.
ForcedOK ==
    entryAt # "idle" /\ tool # "nsys" /\ profileAsked.force =>
        \A k \in DOMAIN collected : collected[k].ok => collected[k].run = attempt

\* A report that is about to be parsed is this attempt's, and no raw stream
\* lies beside it.
FilesOK ==
    /\ tool \in ReportTools /\ DOMAIN report = Files
    /\ entryAt = "idle" => collected = <<>>
    /\ tool # "nsys" => rawStream = {}
    /\ entryAt = "parse" => /\ file \notin rawStream
                            /\ tool # "nsys" => report[file].run = attempt

ReportsInv == AttemptOK /\ ForcedOK /\ FilesOK /\ EvidenceInOrder

LEMMA MinimumIn ==
  ASSUME NEW Less, IsWellFoundedOn(Less, Nat), NEW T, T \subseteq Nat, T # {}
  PROVE  \E x \in T : \A y \in T : ~ (<<y, x>> \in Less)
  BY WFMin

LEMMA LeastIn ==
  ASSUME NEW T, T \subseteq Nat, T # {}
  PROVE  \E x \in T : \A y \in T : x <= y
  <1>1. ASSUME NEW Less, IsWellFoundedOn(Less, Nat), \A a, b \in Nat : a < b => <<a, b>> \in Less
        PROVE  \E x \in T : \A y \in T : x <= y
    <2>1. PICK x \in T : \A y \in T : ~ (<<y, x>> \in Less)
      BY <1>1, MinimumIn
    <2>2. \A y \in T : ~(y < x)
      BY <1>1, <2>1
    <2>3. \A y \in T : x <= y
      BY <2>2
    <2> QED BY <2>3
  <1>2. \A a, b \in Nat : a < b => <<a, b>> \in OpToRel(<, Nat)
    BY Zenon DEF OpToRel
  <1> QED BY <1>1, <1>2, NatLessThanWellFounded, Zenon

\* The pair whose turn it is is one of those that are left.
LEMMA KeyIsLeft ==
  ASSUME keys \subseteq ReportPairs, keys # {}
  PROVE  key \in keys
  <1>0. ASSUME NEW k \in keys
        PROVE  /\ k[1][1] \in Nat /\ k[1][2] \in Nat /\ k[2] \in Nat
               /\ k = <<<<k[1][1], k[1][2]>>, k[2]>>
    <2>1. k \in (Cpus \X Mems) \X Scales
      BY <1>0 DEF ReportPairs, ResourceCases
    <2>2. k[1] \in Cpus \X Mems /\ k[2] \in Scales /\ k = <<k[1], k[2]>>
      BY <2>1
    <2>3. k[1][1] \in Cpus /\ k[1][2] \in Mems /\ k[1] = <<k[1][1], k[1][2]>>
      BY <2>2
    <2>4. k[1][1] \in Nat /\ k[1][2] \in Nat /\ k[2] \in Nat
      BY <2>2, <2>3, ReportsAssumption
    <2> QED BY <2>2, <2>3, <2>4
  <1> DEFINE A == {k[1][1] : k \in keys}
  <1>1. PICK a \in A : \A x \in A : a <= x
    <2>1. A \subseteq Nat /\ A # {}
      BY <1>0
    <2> HIDE DEF A
    <2> QED BY <2>1, LeastIn
  <1> DEFINE B == {k[1][2] : k \in {x \in keys : x[1][1] = a}}
  <1>2. PICK b \in B : \A x \in B : b <= x
    <2>1. B \subseteq Nat /\ B # {}
      BY <1>0, <1>1
    <2> HIDE DEF B
    <2> QED BY <2>1, LeastIn
  <1> DEFINE C == {k[2] : k \in {x \in keys : x[1][1] = a /\ x[1][2] = b}}
  <1>3. PICK c \in C : \A x \in C : c <= x
    <2>1. C \subseteq Nat /\ C # {}
      BY <1>0, <1>2
    <2> HIDE DEF C
    <2> QED BY <2>1, LeastIn
  <1>4. PICK k \in keys : k[1][1] = a /\ k[1][2] = b /\ k[2] = c
    BY <1>3
  <1>5. ASSUME NEW j \in keys PROVE j = k \/ Before(k, j)
    <2>1. a <= j[1][1] /\ a \in Nat /\ j[1][1] \in Nat
      BY <1>0, <1>1, <1>4
    <2>2. j[1][1] = a => b <= j[1][2] /\ b \in Nat /\ j[1][2] \in Nat
      BY <1>0, <1>2, <1>4
    <2>3. j[1][1] = a /\ j[1][2] = b => c <= j[2] /\ c \in Nat /\ j[2] \in Nat
      BY <1>0, <1>3, <1>4
    <2>4. CASE j[1][1] # a
      BY <2>1, <2>4, <1>4 DEF Before
    <2>5. CASE j[1][1] = a /\ j[1][2] # b
      BY <2>2, <2>5, <1>4 DEF Before
    <2>6. CASE j[1][1] = a /\ j[1][2] = b
      <3>1. j[1] = k[1]
        BY <1>0, <1>4, <2>6
      <3>2. j[2] = c => j = k
        BY <1>0, <1>4, <2>6
      <3> QED BY <2>3, <2>6, <3>1, <3>2, <1>4 DEF Before
    <2> QED BY <2>4, <2>5, <2>6
  <1> QED BY <1>5, <1>4 DEF key

LEMMA AskedPairs ==
  ASSUME NEW a \in Asks, tool \in ReportTools
  PROVE  /\ KeysOf(a) \subseteq ReportPairs /\ KeysOf(a) # {}
         /\ \A c \in ResourceCases, s \in Scales : <<SourceOf(c, a.sampling, a.reference), s>> \in KeysOf(a)
  <1>1. a.sampling \in {"full", "per-cpu-scale", "per-scale"} /\ a.reference \in ResourceCases
    BY DEF Asks, Samplings, ReportTools
  <1> DEFINE Sampled == SampledCases(a.sampling, a.reference)
  <1>2. a.reference[1] \in Cpus /\ a.reference[2] \in Mems /\ Scales # {}
    BY <1>1, ReportsAssumption DEF ResourceCases
  <1>3. /\ Sampled \subseteq ResourceCases /\ a.reference \in Sampled
        /\ \A c \in ResourceCases : SourceOf(c, a.sampling, a.reference) \in Sampled
    <2>1. CASE a.sampling = "full"
      BY <1>1, <2>1 DEF SampledCases, SourceOf
    <2>2. CASE a.sampling = "per-cpu-scale"
      <3>1. Sampled = Cpus \X {a.reference[2]}
        BY <2>2 DEF SampledCases
      <3>2. \A c \in ResourceCases : SourceOf(c, a.sampling, a.reference) = <<c[1], a.reference[2]>> /\ c[1] \in Cpus
        BY <2>2 DEF SourceOf, ResourceCases
      <3>3. a.reference = <<a.reference[1], a.reference[2]>>
        BY <1>1 DEF ResourceCases
      <3>4. Sampled \subseteq ResourceCases
        BY <1>2, <3>1 DEF ResourceCases
      <3>5. a.reference \in Sampled
        BY <1>2, <3>1, <3>3
      <3> HIDE DEF Sampled
      <3> QED BY <3>1, <3>2, <3>4, <3>5
    <2>3. CASE a.sampling = "per-scale"
      BY <1>1, <2>3 DEF SampledCases, SourceOf
    <2> QED BY <1>1, <2>1, <2>2, <2>3
  <1>4. KeysOf(a) = Sampled \X Scales
    BY DEF KeysOf
  <1> HIDE DEF Sampled
  <1>5. PICK s \in Scales : TRUE
    BY <1>2
  <1>6. <<a.reference, s>> \in KeysOf(a)
    BY <1>3, <1>4, <1>5
  <1> QED BY <1>3, <1>4, <1>6 DEF ReportPairs

LEMMA FileIsNamed ==
  ASSUME keys \subseteq ReportPairs, keys # {}
  PROVE  file \in Files
  <1>1. key \in ReportPairs
    BY KeyIsLeft
  <1> QED BY <1>1 DEF file, FileOf, Files, ReportPairs

LEMMA ReportsStart == ReportsInit => ReportsInv
  <1> SUFFICES ASSUME ReportsInit PROVE ReportsInv
    OBVIOUS
  <1>1. collected = <<>> /\ DOMAIN collected = {}
    BY DEF ReportsInit
  <1>2. ~profilePlan.asked.force /\ profilePlan = NoPlan
    BY DEF ReportsInit, NoPlan, NoAsked
  <1> QED BY <1>1, <1>2 DEF ReportsInit, ReportsInv, AttemptOK, ForcedOK, FilesOK, EvidenceInOrder

\* An entry is settled: what was settled stays.
LEMMA SettlingKeeps ==
  ASSUME AttemptOK, keys # {}, entryAt # "idle", NEW entry, SettleEntry(entry),
         UNCHANGED <<profileAsked, tool>>
  PROVE  /\ AttemptOK' /\ entryAt' \in {"entry", "publish"}
         /\ \A k \in DOMAIN collected' :
             (k = key /\ collected'[k] = entry) \/ (k \in DOMAIN collected /\ collected'[k] = collected[k])
  <1>1. DOMAIN collected' = DOMAIN collected \cup {key}
    BY DEF SettleEntry
  <1>2. \A k \in DOMAIN collected \cup {key} : collected'[k] = IF k = key THEN entry ELSE collected[k]
    BY DEF SettleEntry
  <1>3. keys' = keys \ {key} /\ entryAt' = IF keys' = {} THEN "publish" ELSE "entry"
    BY DEF SettleEntry
  <1>4. Asks' = Asks
    BY DEF Asks, Samplings
  <1>5. KeysOf(profileAsked)' = KeysOf(profileAsked)
    BY DEF KeysOf
  <1>6. AttemptOK'
    BY <1>1, <1>3, <1>4, <1>5 DEF AttemptOK
  <1>7. entryAt' \in {"entry", "publish"}
    BY <1>3
  <1>8. ASSUME NEW k \in DOMAIN collected'
        PROVE  (k = key /\ collected'[k] = entry) \/ (k \in DOMAIN collected /\ collected'[k] = collected[k])
    <2>1. CASE k = key
      BY <1>2, <2>1
    <2>2. CASE k # key
      BY <1>1, <1>2, <2>2
    <2> QED BY <2>1, <2>2
  <1>9. \A k \in DOMAIN collected' :
             (k = key /\ collected'[k] = entry) \/ (k \in DOMAIN collected /\ collected'[k] = collected[k])
    BY <1>8
  <1> QED BY <1>6, <1>7, <1>9

\* What a step does to the entries is all that can disturb what is published.
LEMMA PlanStands ==
  ASSUME EvidenceInOrder, UNCHANGED <<profilePlan, tool>>,
         \A k \in DOMAIN collected' : collected'[k].ok => FileOf(tool, k) \notin rawStream'
  PROVE  EvidenceInOrder'
  BY DEF EvidenceInOrder, Entries

\* A step that settles an entry of this attempt, or one without a value.
LEMMA SettlingFits ==
  ASSUME ReportsInv, NEW entry, SettleEntry(entry), keys # {}, entryAt # "idle",
         UNCHANGED <<tool, attempt, profileAsked, profilePlan>>,
         DOMAIN report' = Files, rawStream' \subseteq rawStream,
         entry.ok => FileOf(tool, key) \notin rawStream',
         entry.ok /\ tool # "nsys" /\ profileAsked.force => entry.run = attempt
  PROVE  ReportsInv'
  <1>1. /\ AttemptOK' /\ entryAt' \in {"entry", "publish"}
        /\ \A k \in DOMAIN collected' :
             (k = key /\ collected'[k] = entry) \/ (k \in DOMAIN collected /\ collected'[k] = collected[k])
    BY SettlingKeeps DEF ReportsInv
  <1>2. ForcedOK'
    BY <1>1 DEF ReportsInv, ForcedOK
  <1>3. FilesOK'
    BY <1>1 DEF ReportsInv, FilesOK
  <1>4. \A k \in DOMAIN collected' : collected'[k].ok => FileOf(tool, k) \notin rawStream'
    BY <1>1 DEF ReportsInv, EvidenceInOrder
  <1>5. EvidenceInOrder'
    BY <1>4, PlanStands DEF ReportsInv
  <1> QED BY <1>1, <1>2, <1>3, <1>5 DEF ReportsInv

\* A step that leaves the entries alone and goes on to collect or to parse.
LEMMA GoingOnFits ==
  ASSUME ReportsInv, Later("collect") \/ Later("parse"), keys # {}, entryAt # "idle",
         UNCHANGED <<tool, attempt, profileAsked, profilePlan>>,
         DOMAIN report' = Files, rawStream' \subseteq rawStream,
         entryAt' = "parse" => /\ file \notin rawStream'
                               /\ tool # "nsys" => report'[file].run = attempt
  PROVE  ReportsInv'
  <1>1. keys' = keys /\ collected' = collected /\ entryAt' \in {"collect", "parse"}
    BY DEF Later
  <1>2. Asks' = Asks /\ KeysOf(profileAsked)' = KeysOf(profileAsked) /\ file' = file
    BY <1>1 DEF Asks, Samplings, KeysOf, file, key
  <1>3. AttemptOK'
    BY <1>1, <1>2 DEF ReportsInv, AttemptOK
  <1>4. ForcedOK'
    BY <1>1 DEF ReportsInv, ForcedOK
  <1>5. FilesOK'
    BY <1>1, <1>2 DEF ReportsInv, FilesOK
  <1>6. \A k \in DOMAIN collected' : collected'[k].ok => FileOf(tool, k) \notin rawStream'
    BY <1>1 DEF ReportsInv, EvidenceInOrder
  <1>7. EvidenceInOrder'
    BY <1>6, PlanStands DEF ReportsInv
  <1> QED BY <1>3, <1>4, <1>5, <1>7 DEF ReportsInv

LEMMA BeginFits ==
  ASSUME ReportsInv, Begin
  PROVE  ReportsInv'
  <1>1. PICK a \in Asks :
           /\ profileAsked' = a
           /\ \/ entryAt' = "entry" /\ keys' = KeysOf(a) /\ collected' = <<>>
              \/ entryAt' = "publish" /\ keys' = {} /\ collected' = [k \in KeysOf(a) |-> NoEntry]
    BY DEF Begin
  <1>2. UNCHANGED <<tool, profilePlan, report, rawStream>>
    BY DEF Begin, OnDisk
  <1>3. /\ tool \in ReportTools /\ Asks' = Asks
    BY <1>2 DEF ReportsInv, FilesOK, Asks, Samplings
  <1>4. KeysOf(a) \subseteq ReportPairs /\ KeysOf(a) # {}
    BY <1>3, AskedPairs
  <1>5. KeysOf(profileAsked)' = KeysOf(a)
    BY <1>1 DEF KeysOf
  <1>6. AttemptOK'
    BY <1>1, <1>3, <1>4, <1>5 DEF AttemptOK
  <1>7. \A k \in DOMAIN collected' : collected'[k] = NoEntry
    <2>1. CASE collected' = <<>>
      BY <2>1
    <2>2. CASE collected' = [k \in KeysOf(a) |-> NoEntry]
      BY <2>2
    <2> QED BY <1>1, <2>1, <2>2
  <1>8. \A k \in DOMAIN collected' : ~collected'[k].ok
    BY <1>7 DEF NoEntry
  <1>9. ForcedOK' /\ FilesOK'
    BY <1>1, <1>2, <1>8 DEF ReportsInv, ForcedOK, FilesOK
  <1>10. EvidenceInOrder'
    BY <1>2, <1>8, PlanStands DEF ReportsInv
  <1> QED BY <1>6, <1>9, <1>10 DEF ReportsInv

LEMMA AtWork ==
  ASSUME ReportsInv, entryAt \in {"entry", "collect", "parse"}
  PROVE  keys # {} /\ keys \subseteq ReportPairs /\ key \in keys /\ file \in Files /\ file = FileOf(tool, key)
  BY KeyIsLeft, FileIsNamed DEF ReportsInv, AttemptOK, file

\* The report of the pair, as the container has left it.
LEMMA WrittenIsOurs ==
  ASSUME ReportsInv, entryAt = "collect", NEW whole, NEW reads, Wrote(whole, reads)
  PROVE  DOMAIN report' = Files /\ report'[file].run = attempt
  BY AtWork DEF Wrote, ReportsInv, FilesOK

LEMMA ReportsStep == ReportsInv /\ [ReportsNext]_reportVars => ReportsInv'
  <1> SUFFICES ASSUME ReportsInv, [ReportsNext]_reportVars PROVE ReportsInv'
    OBVIOUS
  <1>0. tool \in ReportTools /\ DOMAIN report = Files /\ NoEntry.ok = FALSE
    BY DEF ReportsInv, FilesOK, NoEntry
  <1>1. CASE ReusePlan
    <2>1. \A k \in DOMAIN collected' : collected'[k].ok => FileOf(tool, k) \notin rawStream'
      BY <1>1 DEF ReusePlan, OnDisk, ReportsInv, EvidenceInOrder
    <2>2. EvidenceInOrder'
      BY <1>1, <2>1, PlanStands DEF ReusePlan, ReportsInv
    <2> QED BY <1>1, <2>2 DEF ReusePlan, OnDisk, ReportsInv, AttemptOK, ForcedOK, FilesOK
  <1>2. CASE Begin
    BY <1>2, BeginFits
  <1>3. CASE TakeUp
    <2>1. /\ entryAt = "entry" /\ tool # "nsys" /\ ~profileAsked.force /\ SettleEntry(EntryOf(Data[file]))
          /\ UNCHANGED <<report, rawStream, tool, attempt, profileAsked, profilePlan>>
      BY <1>3 DEF TakeUp, Resumes, OfAttempt
    <2>2. rawStream = {}
      BY <2>1 DEF ReportsInv, FilesOK
    <2> QED BY <1>0, <2>1, <2>2, AtWork, SettlingFits
  <1>4. CASE Recover
    <2>1. /\ entryAt = "entry" /\ tool # "nsys" /\ ~profileAsked.force
          /\ UNCHANGED <<report, rawStream, tool, attempt, profileAsked, profilePlan>>
          /\ (Later("collect") \/ SettleEntry(EntryOf(report[file])))
      BY <1>4 DEF Recover, Resumes, OfAttempt
    <2>2. rawStream = {} /\ keys # {}
      BY <2>1, AtWork DEF ReportsInv, FilesOK
    <2>3. CASE SettleEntry(EntryOf(report[file]))
      BY <1>0, <2>1, <2>2, <2>3, SettlingFits
    <2>4. CASE Later("collect")
      BY <1>0, <2>1, <2>2, <2>4, GoingOnFits DEF Later
    <2> QED BY <2>1, <2>3, <2>4
  <1>5. CASE StartAfresh
    <2>1. /\ entryAt = "entry" /\ Later("collect") /\ entryAt' = "collect"
          /\ UNCHANGED <<report, rawStream, tool, attempt, profileAsked, profilePlan>>
      BY <1>5 DEF StartAfresh, OfAttempt, OnDisk, Later
    <2> QED BY <1>0, <2>1, AtWork, GoingOnFits
  <1>6. CASE RunContainer
    <2>1. /\ entryAt = "collect" /\ rawStream' = rawStream \ {file}
          /\ UNCHANGED <<tool, attempt, profileAsked, profilePlan>>
      BY <1>6 DEF RunContainer, OfAttempt
    <2>2. keys # {} /\ file = FileOf(tool, key)
      BY <2>1, AtWork
    <2>3. CASE (\E reads \in BOOLEAN : Wrote(TRUE, reads)) /\ Later("parse")
      BY <2>1, <2>2, <2>3, WrittenIsOurs, GoingOnFits
    <2>4. CASE (UNCHANGED report \/ \E reads \in BOOLEAN : Wrote(FALSE, reads)) /\ SettleEntry(NoEntry)
      BY <1>0, <2>1, <2>2, <2>4, WrittenIsOurs, SettlingFits
    <2>5. CASE tool = "nsys" /\ UNCHANGED report /\ SettleEntry(NoEntry)
      BY <1>0, <2>1, <2>2, <2>5, SettlingFits
    <2>6. CASE tool = "nsys" /\ UNCHANGED report /\ Later("parse")
      BY <1>0, <2>1, <2>2, <2>6, GoingOnFits
    <2> QED BY <1>6, <2>3, <2>4, <2>5, <2>6 DEF RunContainer
  <1>7. CASE ParseReport
    <2>1. /\ entryAt = "parse"
          /\ UNCHANGED <<report, rawStream, tool, attempt, profileAsked, profilePlan>>
          /\ (SettleEntry(EntryOf(report[file])) \/ SettleEntry(NoEntry))
      BY <1>7 DEF ParseReport, OfAttempt
    <2>2. keys # {} /\ file = FileOf(tool, key)
      BY <2>1, AtWork
    <2>3. file \notin rawStream /\ (tool # "nsys" => report[file].run = attempt)
      BY <2>1 DEF ReportsInv, FilesOK
    <2>4. EntryOf(report[file]).run = report[file].run
      BY DEF EntryOf
    <2>5. CASE SettleEntry(NoEntry)
      BY <1>0, <2>1, <2>2, <2>5, SettlingFits
    <2>6. CASE SettleEntry(EntryOf(report[file]))
      BY <1>0, <2>1, <2>2, <2>3, <2>4, <2>6, SettlingFits
    <2> QED BY <2>1, <2>5, <2>6
  <1>8. CASE PublishPlan
    <2>1. /\ entryAt = "publish" /\ profilePlan' = [asked |-> profileAsked, entries |-> collected, of |-> attempt]
          /\ entryAt' = "idle" /\ collected' = <<>> /\ DOMAIN collected' = {}
          /\ UNCHANGED <<report, rawStream, tool, attempt>>
      BY <1>8 DEF PublishPlan, OnDisk
    <2>2. profileAsked \in Asks /\ KeysOf(profileAsked) \subseteq DOMAIN collected
      BY <2>1 DEF ReportsInv, AttemptOK
    <2>3. \A c \in ResourceCases, s \in Scales :
             <<SourceOf(c, profileAsked.sampling, profileAsked.reference), s>> \in DOMAIN collected
      BY <1>0, <2>2, AskedPairs
    <2>4. tool # "nsys" /\ profileAsked.force => \A e \in {collected[k] : k \in DOMAIN collected} : e.ok => e.run = attempt
      BY <2>1 DEF ReportsInv, ForcedOK
    <2>5. EvidenceInOrder'
      BY <2>1, <2>3, <2>4 DEF EvidenceInOrder, Entries
    <2> QED BY <2>1, <2>5 DEF ReportsInv, AttemptOK, ForcedOK, FilesOK
  <1>9. CASE Stopped
    <2>1. /\ entryAt' = "idle" /\ collected' = <<>> /\ DOMAIN collected' = {}
          /\ UNCHANGED <<tool, attempt, profilePlan>>
      BY <1>9 DEF Stopped
    <2>4. (tool # "nsys" => rawStream' = rawStream)
      BY <1>9 DEF Stopped
    <2>5. UNCHANGED report \/ \E reads \in BOOLEAN : Wrote(FALSE, reads)
      BY <1>9 DEF Stopped
    <2>2. DOMAIN report' = Files
      BY <1>0, <2>5 DEF Wrote
    <2>3. EvidenceInOrder'
      BY <2>1, PlanStands DEF ReportsInv
    <2> QED BY <2>1, <2>2, <2>3, <2>4 DEF ReportsInv, AttemptOK, ForcedOK, FilesOK
  <1>10. CASE UNCHANGED reportVars
    <2>1. UNCHANGED <<tool, attempt, profileAsked, entryAt, keys, collected, report, rawStream, profilePlan>>
      BY <1>10 DEF reportVars
    <2>2. Asks' = Asks /\ KeysOf(profileAsked)' = KeysOf(profileAsked) /\ file' = file
      BY <2>1 DEF Asks, Samplings, KeysOf, file, key
    <2> QED BY <2>1, <2>2 DEF ReportsInv, AttemptOK, ForcedOK, FilesOK, EvidenceInOrder, Entries
  <1> QED BY <1>1, <1>2, <1>3, <1>4, <1>5, <1>6, <1>7, <1>8, <1>9, <1>10 DEF ReportsNext

\* A published plan leaves no case out, a forced one has only what its own
\* attempt measured, and no raw stream lies beside a value.
THEOREM EvidenceIsInOrder == ReportsSpec => []EvidenceInOrder
  <1>1. ReportsInv => EvidenceInOrder
    BY DEF ReportsInv
  <1> QED BY <1>1, ReportsStart, ReportsStep, PTL DEF ReportsSpec
-----------------------------------------------------------------------------
(* Cases, for any number of them, of rows and of faults.  The invariant:   *)
(* what a case begins with (Fresh), that its client alone writes results,  *)
(* in their order (Written), that a case that broke off has all its rows   *)
(* (Broken), what the packets of its rows are (Recorded), and where an     *)
(* exception may be on its way (Unraised).                                 *)

\* What a case begins with.
Fresh ==
    stage \in {"start", "capture"} =>
        /\ csvRows = NoRows /\ ~stray /\ measured = {} /\ ~incomplete /\ row = 1
        /\ seen = {} /\ tcp = "off"

\* The client writes the rows in their order, and only it writes results.
Written ==
    /\ cl # "off" => ~stray /\ ~incomplete /\ \A r \in Rows : r >= row => csvRows[r].st = "missing"
    /\ cl = "send" => row \in Rows
    /\ \A r \in Rows : csvRows[r].st = "ok" <=> r \in measured

\* A case that broke off has all its rows, none of them stray.
Broken ==
    /\ incomplete =>
          /\ ~stray /\ \A r \in Rows : csvRows[r].st # "missing"
          /\ stage \notin {"start", "capture", "client", "classify", "done"}
    /\ stage = "classify" /\ stray => rc = "ok"

\* What the capture recorded, and the packets merged from it.
Recorded ==
    /\ stage \in {"merge", "complete"} => full
    /\ stage = "merge" /\ incomplete => measured # {}
    /\ full /\ caseFaults = 0 => measured \subseteq seen /\ (stage = "client" => tcp = "on")
    /\ stage = "complete" => \A r \in Rows : csvRows[r].packet <=> r \in seen
    /\ full /\ (stage = "finish" \/ (stage = "cleanup" /\ raised = "none")) =>
          \A r \in Rows : csvRows[r].st = "ok" => csvRows[r].packet

Unraised == stage \notin {"cleanup", "aborted"} => raised = "none"

CaseInv == NothingLeft /\ BrokenCaseContinues /\ Fresh /\ Written /\ Broken /\ Recorded /\ Unraised

LEMMA RowStates ==
  /\ NoRows \in [Rows -> RowState] /\ \A r \in Rows : NoRows[r].st = "missing"
  /\ \A x \in RowState, b \in BOOLEAN, c \in {"ok", "error"} :
        /\ [x EXCEPT !.st = c] \in RowState
        /\ [x EXCEPT !.packet = b] \in RowState
        /\ [x EXCEPT !.oom = b] \in RowState
        /\ [Unwritten EXCEPT !.st = "error", !.oom = b] \in RowState
  BY DEF NoRows, RowState, Unwritten

\* A row that is written changes nothing else.
LEMMA RowEnds ==
  ASSUME csvRows \in [Rows -> RowState], NEW n \in Rows, NEW s \in {"ok", "error"}
  PROVE  /\ [csvRows EXCEPT ![n].st = s] \in [Rows -> RowState]
         /\ \A r \in Rows : [csvRows EXCEPT ![n].st = s][r].st = IF r = n THEN s ELSE csvRows[r].st
  <1> DEFINE x == csvRows[n]
  <1>0. x \in RowState
    OBVIOUS
  <1> HIDE DEF x
  <1>1. [x EXCEPT !.st = s] \in RowState /\ [x EXCEPT !.st = s].st = s
    BY <1>0 DEF RowState
  <1> USE DEF x
  <1> QED BY <1>1

\* The error rows complete the CSV and touch no result.
LEMMA ErrorRowsFit ==
  ASSUME csvRows \in [Rows -> RowState], NEW oom \in BOOLEAN
  PROVE  /\ ErrorRows(oom) \in [Rows -> RowState]
         /\ \A r \in Rows : /\ ErrorRows(oom)[r].st \in {"ok", "error"}
                            /\ csvRows[r].st = "ok" => ErrorRows(oom)[r] = csvRows[r]
                            /\ ErrorRows(oom)[r].st = "ok" => csvRows[r].st = "ok"
  <1>1. ASSUME NEW r \in Rows
        PROVE  /\ ErrorRows(oom)[r] \in RowState
               /\ ErrorRows(oom)[r].st \in {"ok", "error"}
               /\ csvRows[r].st = "ok" => ErrorRows(oom)[r] = csvRows[r]
               /\ ErrorRows(oom)[r].st = "ok" => csvRows[r].st = "ok"
    <2>1. csvRows[r] \in RowState /\ csvRows[r].oom \in BOOLEAN
      BY DEF RowState
    <2>2. (csvRows[r].oom \/ oom) \in BOOLEAN
      OBVIOUS
    <2>3. CASE csvRows[r].st = "ok"
      BY <2>1, <2>3 DEF ErrorRows
    <2>4. CASE csvRows[r].st = "error"
      <3>1. ErrorRows(oom)[r] = [csvRows[r] EXCEPT !.oom = @ \/ oom]
        BY <2>4 DEF ErrorRows
      <3> QED BY <2>1, <2>2, <2>4, <3>1 DEF RowState
    <2>5. CASE csvRows[r].st = "missing"
      <3>1. ErrorRows(oom)[r] = [Unwritten EXCEPT !.st = "error", !.oom = oom]
        BY <2>5 DEF ErrorRows
      <3> QED BY <2>5, <3>1 DEF RowState, Unwritten
    <2> QED BY <2>1, <2>3, <2>4, <2>5 DEF RowState
  <1>2. ErrorRows(oom) \in [Rows -> RowState]
    BY <1>1 DEF ErrorRows
  <1> QED BY <1>1, <1>2

LEMMA CaseStarts == CaseInit => CaseInv
  <1> SUFFICES ASSUME CaseInit PROVE CaseInv
    OBVIOUS
  <1>1. CaseTypeOK
    <2>1. events \in [Cases -> 0..1] /\ 1 \in Cases /\ 1 \in 1..(NumRows + 1) /\ 0 \in 0..MaxCaseFaults
      BY CaseAssumption DEF CaseInit, Cases
    <2> QED BY <2>1, RowStates DEF CaseInit, CaseTypeOK, Stages
  <1>2. NothingLeft /\ BrokenCaseContinues
    BY <1>1, CaseAssumption DEF CaseInit, NothingLeft, BrokenCaseContinues, Cases
  <1>3. \A r \in Rows : csvRows[r].st = "missing"
    BY RowStates DEF CaseInit
  <1> QED BY <1>2, <1>3 DEF CaseInit, CaseInv, Fresh, Written, Broken, Recorded, Unraised

LEMMA CaseSteps == CaseInv /\ [CaseNext]_caseVars => CaseInv'
  <1> SUFFICES ASSUME CaseInv, [CaseNext]_caseVars PROVE CaseInv'
    OBVIOUS
  <1>1. CASE StartSession /\ UNCHANGED full
    <2>1. NothingLeft' /\ BrokenCaseContinues'
      BY <1>1, CaseAssumption DEF StartSession, CaseInv, NothingLeft, BrokenCaseContinues, Fresh, Written,
         Broken, Recorded, Unraised, CaseTypeOK, Completed, NoRows, Unwritten, RowState, CaseFault, Finished,
         Raise, Exits, NeedsPacket, Stages, capture, client, csv, verdict, ledger, Cases, Rows
    <2>2. Fresh' /\ Written' /\ Broken' /\ Unraised'
      BY <1>1, CaseAssumption DEF StartSession, CaseInv, Fresh, Written, Broken, Unraised, capture, client,
         csv, verdict
    <2>3. Recorded'
      BY <1>1, CaseAssumption DEF StartSession, CaseInv, Recorded, capture, csv
    <2> QED BY <2>1, <2>2, <2>3 DEF CaseInv
  <1>2. CASE StartFails /\ UNCHANGED full
    <2>1. /\ csvRows' \in [Rows -> RowState] /\ \A r \in Rows : csvRows'[r].st = "error"
      BY <1>2, ErrorRowsFit, RowStates DEF StartFails, CaseInv, Fresh
    <2>2. stage = "start" /\ stage' = "finish" /\ events' = [events EXCEPT ![case] = @ + 1]
      BY <1>2 DEF StartFails, Finished
    <2>3. UNCHANGED <<full, case, box, tcp, seen, cl, row, rc, stray, measured, incomplete, raised, caseFaults, oomStruck>>
      BY <1>2 DEF StartFails, capture, client, verdict
    <2> QED BY <2>1, <2>2, <2>3, CaseAssumption DEF CaseInv, NothingLeft, BrokenCaseContinues, Fresh,
               Written, Broken, Recorded, Unraised, CaseTypeOK, Stages, Cases
  <1>3. CASE StartRaises /\ UNCHANGED full
    <2>1. NothingLeft' /\ BrokenCaseContinues'
      BY <1>3, CaseAssumption DEF StartRaises, CaseInv, NothingLeft, BrokenCaseContinues, CaseTypeOK,
         CaseFault, Finished, Stages, capture, client, csv, Cases
    <2>2. Fresh' /\ Written' /\ Broken' /\ Unraised'
      BY <1>3, CaseAssumption DEF StartRaises, CaseInv, Fresh, Written, Broken, Unraised, client, csv
    <2>3. Recorded'
      BY <1>3, CaseAssumption DEF StartRaises, CaseInv, Fresh, Recorded, csv
    <2> QED BY <2>1, <2>2, <2>3 DEF CaseInv
  <1>4. CASE StartCapture /\ UNCHANGED full
    <2>1. NothingLeft' /\ BrokenCaseContinues'
      BY <1>4, CaseAssumption DEF StartCapture, CaseInv, NothingLeft, BrokenCaseContinues, CaseTypeOK,
         CaseFault, Raise, Stages, csv, ledger
    <2>2. Fresh' /\ Written' /\ Broken' /\ Unraised'
      BY <1>4, CaseAssumption DEF StartCapture, CaseInv, Fresh, Written, Broken, Unraised, NoRows, Unwritten,
         Raise, csv
    <2>3. Recorded'
      BY <1>4, CaseAssumption DEF StartCapture, CaseInv, Fresh, Recorded, Raise, csv
    <2> QED BY <2>1, <2>2, <2>3 DEF CaseInv
  <1>5. CASE ClientReady /\ UNCHANGED full
    <2>1. NothingLeft' /\ BrokenCaseContinues'
      BY <1>5, CaseAssumption DEF ClientReady, CaseInv, NothingLeft, BrokenCaseContinues, Unraised,
         CaseTypeOK, Exits, Stages, capture, verdict, ledger
    <2>2. Fresh' /\ Written' /\ Broken' /\ Unraised'
      BY <1>5, CaseAssumption DEF ClientReady, CaseInv, NothingLeft, Fresh, Written, Broken, Unraised,
         CaseTypeOK, Exits, verdict
    <2>3. Recorded'
      BY <1>5, CaseAssumption DEF ClientReady, CaseInv, Recorded, Exits, capture, verdict
    <2> QED BY <2>1, <2>2, <2>3 DEF CaseInv
  <1>6. CASE OpenWindow /\ UNCHANGED full
    <2>1. NothingLeft' /\ BrokenCaseContinues'
      BY <1>6, CaseAssumption DEF OpenWindow, CaseInv, NothingLeft, BrokenCaseContinues, CaseTypeOK,
         CaseFault, Exits, Stages, capture, csv, verdict, ledger
    <2>2. Fresh' /\ Written' /\ Broken' /\ Unraised'
      BY <1>6, CaseAssumption DEF OpenWindow, CaseInv, NothingLeft, Fresh, Written, Broken, Unraised,
         CaseTypeOK, Exits, csv, verdict
    <2>3. Recorded'
      BY <1>6, CaseAssumption DEF OpenWindow, CaseInv, NothingLeft, Recorded, CaseTypeOK, CaseFault, Exits,
         capture, csv
    <2> QED BY <2>1, <2>2, <2>3 DEF CaseInv
  <1>7. CASE WindowOk /\ UNCHANGED full
    <2>1. row \in Rows /\ stage = "client" /\ cl = "send" /\ box = "up"
      BY <1>7 DEF WindowOk, CaseInv, NothingLeft, Written, CaseTypeOK
    <2>2. csvRows' \in [Rows -> RowState] /\ \A r \in Rows : csvRows'[r].st = IF r = row THEN "ok" ELSE csvRows[r].st
      BY <1>7, <2>1, RowEnds DEF WindowOk, CaseInv, NothingLeft, Fresh, CaseTypeOK
    <2>3. /\ measured' = measured \cup {row} /\ cl' = "open" /\ row' = row + 1
          /\ seen' = IF tcp = "on" THEN seen \cup {row} ELSE seen
          /\ UNCHANGED <<full, case, box, tcp, stage, rc, stray, incomplete, raised, events, caseFaults, oomStruck>>
      BY <1>7 DEF WindowOk, verdict, ledger
    <2>4. row \in Nat /\ row + 1 \in 1..(NumRows + 1) /\ \A r \in Rows : r >= row + 1 => r >= row /\ r # row
      BY <2>1, CaseAssumption DEF Rows
    <2>5. CaseTypeOK'
      BY <2>1, <2>2, <2>3, <2>4 DEF CaseInv, NothingLeft, CaseTypeOK
    <2>6. Written'
      BY <2>1, <2>2, <2>3, <2>4 DEF CaseInv, Written
    <2> QED BY <2>1, <2>3, <2>5, <2>6 DEF CaseInv, NothingLeft, BrokenCaseContinues, Fresh, Broken,
               Recorded, Unraised
  <1>8. CASE WindowFails /\ UNCHANGED full
    <2>1. row \in Rows /\ stage = "client" /\ cl = "send" /\ row \notin measured
      BY <1>8 DEF WindowFails, CaseInv, NothingLeft, Written, CaseTypeOK
    <2>2. csvRows' \in [Rows -> RowState] /\ \A r \in Rows : csvRows'[r].st = IF r = row THEN "error" ELSE csvRows[r].st
      BY <1>8, <2>1, RowEnds DEF WindowFails, CaseInv, NothingLeft, CaseTypeOK
    <2>3. /\ cl' = "open" /\ row' = row + 1
          /\ seen \subseteq seen' /\ seen' \subseteq seen \cup {row}
          /\ caseFaults' \in 0..MaxCaseFaults /\ (caseFaults' = 0 => caseFaults = 0)
          /\ UNCHANGED <<full, case, box, tcp, stage, rc, stray, measured, incomplete, raised, events, oomStruck>>
      BY <1>8, CaseAssumption DEF WindowFails, CaseFault, verdict, ledger, CaseInv, NothingLeft, CaseTypeOK
    <2>4. row \in Nat /\ row + 1 \in 1..(NumRows + 1) /\ \A r \in Rows : r >= row + 1 => r >= row /\ r # row
      BY <2>1, CaseAssumption DEF Rows
    <2>5. CaseTypeOK'
      BY <2>1, <2>2, <2>3, <2>4 DEF CaseInv, NothingLeft, CaseTypeOK
    <2>6. Written'
      BY <2>1, <2>2, <2>3, <2>4 DEF CaseInv, Written
    <2> QED BY <2>1, <2>3, <2>5, <2>6 DEF CaseInv, NothingLeft, BrokenCaseContinues, Fresh, Broken,
               Recorded, Unraised
  <1>9. CASE WindowAborts /\ UNCHANGED full
    <2>1. NothingLeft' /\ BrokenCaseContinues'
      BY <1>9, CaseAssumption DEF WindowAborts, CaseInv, NothingLeft, BrokenCaseContinues, CaseTypeOK,
         CaseFault, Exits, Stages, capture, csv, verdict, ledger
    <2>2. Fresh' /\ Written' /\ Broken' /\ Unraised'
      BY <1>9, CaseAssumption DEF WindowAborts, CaseInv, NothingLeft, Fresh, Written, Broken, Unraised,
         CaseTypeOK, Exits, csv, verdict
    <2>3. Recorded'
      BY <1>9, CaseAssumption DEF WindowAborts, CaseInv, NothingLeft, Recorded, CaseTypeOK, CaseFault, Exits,
         capture, csv
    <2> QED BY <2>1, <2>2, <2>3 DEF CaseInv
  <1>10. CASE ClientEnds /\ UNCHANGED full
    <2>1. NothingLeft' /\ BrokenCaseContinues'
      BY <1>10, CaseAssumption DEF ClientEnds, CaseInv, NothingLeft, BrokenCaseContinues, CaseTypeOK, Exits,
         Stages, capture, csv, verdict, ledger
    <2>2. Fresh' /\ Written' /\ Broken' /\ Unraised'
      BY <1>10, CaseAssumption DEF ClientEnds, CaseInv, NothingLeft, Fresh, Written, Broken, Unraised,
         CaseTypeOK, Exits, csv, verdict
    <2>3. Recorded'
      BY <1>10, CaseAssumption DEF ClientEnds, CaseInv, Recorded, Exits, capture, csv
    <2> QED BY <2>1, <2>2, <2>3 DEF CaseInv
  <1>11. CASE OomKill /\ UNCHANGED full
    <2>1. NothingLeft' /\ BrokenCaseContinues'
      BY <1>11, CaseAssumption DEF OomKill, CaseInv, NothingLeft, BrokenCaseContinues, CaseTypeOK, capture,
         client, csv, verdict
    <2>2. Fresh' /\ Written' /\ Broken' /\ Unraised'
      BY <1>11, CaseAssumption DEF OomKill, CaseInv, Fresh, Written, Broken, Unraised, capture, client, csv,
         verdict
    <2>3. Recorded'
      BY <1>11, CaseAssumption DEF OomKill, CaseInv, Recorded, capture, csv, verdict
    <2> QED BY <2>1, <2>2, <2>3 DEF CaseInv
  <1>12. CASE ServerCrashes /\ UNCHANGED full
    <2>1. NothingLeft' /\ BrokenCaseContinues'
      BY <1>12, CaseAssumption DEF ServerCrashes, CaseInv, NothingLeft, BrokenCaseContinues, CaseTypeOK,
         CaseFault, capture, client, csv, verdict, ledger
    <2>2. Fresh' /\ Written' /\ Broken' /\ Unraised'
      BY <1>12, CaseAssumption DEF ServerCrashes, CaseInv, Fresh, Written, Broken, Unraised, capture, client,
         csv, verdict
    <2>3. Recorded'
      BY <1>12, CaseAssumption DEF ServerCrashes, CaseInv, NothingLeft, Recorded, CaseTypeOK, CaseFault,
         capture, csv, verdict
    <2> QED BY <2>1, <2>2, <2>3 DEF CaseInv
  <1>13. CASE CaptureDies /\ UNCHANGED full
    <2>1. NothingLeft' /\ BrokenCaseContinues'
      BY <1>13, CaseAssumption DEF CaptureDies, CaseInv, NothingLeft, BrokenCaseContinues, CaseTypeOK,
         CaseFault, client, csv, verdict, ledger
    <2>2. Fresh' /\ Written' /\ Broken' /\ Unraised'
      BY <1>13, CaseAssumption DEF CaptureDies, CaseInv, Fresh, Written, Broken, Unraised, client, csv,
         verdict
    <2>3. Recorded'
      BY <1>13, CaseAssumption DEF CaptureDies, CaseInv, NothingLeft, Recorded, CaseTypeOK, CaseFault, csv,
         verdict
    <2> QED BY <2>1, <2>2, <2>3 DEF CaseInv
  <1>14. CASE Interrupt /\ UNCHANGED full
    <2>1. NothingLeft' /\ BrokenCaseContinues'
      BY <1>14, CaseAssumption DEF Interrupt, CaseInv, NothingLeft, BrokenCaseContinues, CaseTypeOK,
         CaseFault, Raise, Stages, capture, csv, ledger
    <2>2. Fresh' /\ Written' /\ Broken' /\ Unraised'
      BY <1>14, CaseAssumption DEF Interrupt, CaseInv, Fresh, Written, Broken, Unraised, Raise, csv
    <2>3. Recorded'
      BY <1>14, CaseAssumption DEF Interrupt, CaseInv, NothingLeft, Recorded, CaseTypeOK, CaseFault, Raise
    <2> QED BY <2>1, <2>2, <2>3 DEF CaseInv
  <1>15. CASE Classify /\ UNCHANGED full
    <2>1. /\ stage = "classify"
          /\ UNCHANGED <<full, case, box, tcp, seen, cl, row, rc, stray, measured, events, oomStruck>>
      BY <1>15 DEF Classify, capture, client, ledger
    <2>2. CASE rc = "ok" /\ stage' = "stopCapture" /\ UNCHANGED <<csvRows, incomplete, raised, caseFaults>>
      BY <2>1, <2>2 DEF CaseInv, NothingLeft, BrokenCaseContinues, Fresh, Written, Broken, Recorded, Unraised,
         CaseTypeOK, Stages
    <2>3. CASE /\ rc # "ok" /\ incomplete' = TRUE /\ stage' = "stopCapture" /\ raised' = raised
               /\ \E oom \in BOOLEAN : csvRows' = ErrorRows(oom)
               /\ caseFaults' \in 0..MaxCaseFaults /\ (caseFaults' = 0 => caseFaults = 0)
      <3>1. csvRows' \in [Rows -> RowState]
        BY <2>3, ErrorRowsFit DEF CaseInv, NothingLeft, CaseTypeOK
      <3>2. \A r \in Rows : csvRows'[r].st # "missing" /\ (csvRows'[r].st = "ok" <=> csvRows[r].st = "ok")
        BY <2>3, ErrorRowsFit DEF CaseInv, NothingLeft, CaseTypeOK
      <3>3. CaseTypeOK'
        BY <2>1, <2>3, <3>1 DEF CaseInv, NothingLeft, CaseTypeOK, Stages
      <3> QED BY <2>1, <2>3, <3>2, <3>3 DEF CaseInv, NothingLeft, BrokenCaseContinues, Fresh, Written,
                 Broken, Recorded, Unraised, CaseTypeOK
    <2>4. CASE /\ raised' = "error" /\ stage' = "cleanup" /\ UNCHANGED <<csvRows, incomplete>>
               /\ caseFaults' \in 0..MaxCaseFaults /\ (caseFaults' = 0 => caseFaults = 0)
      BY <2>1, <2>4 DEF CaseInv, NothingLeft, BrokenCaseContinues, Fresh, Written, Broken, Recorded, Unraised,
         CaseTypeOK, Stages
    <2>5. caseFaults \in 0..MaxCaseFaults
      BY DEF CaseInv, NothingLeft, CaseTypeOK
    <2>6. CASE rc # "ok" /\ csvRows' = ErrorRows(TRUE) /\ incomplete' = TRUE /\ stage' = "stopCapture" /\ UNCHANGED <<raised, caseFaults>>
      BY <2>3, <2>5, <2>6
    <2>7. CASE /\ rc = "timeout" /\ (CaseFault \/ UNCHANGED caseFaults)
               /\ csvRows' = ErrorRows(FALSE) /\ incomplete' = TRUE /\ stage' = "stopCapture" /\ UNCHANGED raised
      <3>1. caseFaults' \in 0..MaxCaseFaults /\ (caseFaults' = 0 => caseFaults = 0)
        BY <2>5, <2>7, CaseAssumption DEF CaseFault
      <3>2. rc # "ok" /\ raised' = raised /\ \E oom \in BOOLEAN : csvRows' = ErrorRows(oom)
        BY <2>7
      <3> QED BY <2>3, <2>7, <3>1, <3>2
    <2>8. CASE /\ Raise("error") /\ UNCHANGED <<csvRows, incomplete>> /\ (CaseFault \/ UNCHANGED caseFaults)
      BY <2>4, <2>5, <2>8, CaseAssumption DEF CaseFault, Raise
    <2> QED BY <1>15, <2>2, <2>6, <2>7, <2>8 DEF Classify
  <1>16. CASE StopCapture /\ UNCHANGED full
    <2>1. NothingLeft' /\ BrokenCaseContinues'
      BY <1>16, CaseAssumption DEF StopCapture, CaseInv, NothingLeft, BrokenCaseContinues, CaseTypeOK,
         CaseFault, Raise, Stages, client, csv, ledger
    <2>2. Fresh' /\ Written' /\ Broken' /\ Unraised'
      BY <1>16, CaseAssumption DEF StopCapture, CaseInv, Fresh, Written, Broken, Unraised, Raise, client, csv
    <2>3. Recorded'
      BY <1>16, CaseAssumption DEF StopCapture, CaseInv, NothingLeft, Written, Recorded, CaseTypeOK,
         Completed, CaseFault, Raise, csv
    <2> QED BY <2>1, <2>2, <2>3 DEF CaseInv
  <1>17. CASE MergePackets /\ UNCHANGED full
    <2>1. /\ stage = "merge" /\ full /\ caseFaults \in 0..MaxCaseFaults
          /\ UNCHANGED <<full, case, box, tcp, seen, cl, row, rc, stray, measured, incomplete, events, oomStruck>>
      BY <1>17 DEF MergePackets, capture, client, ledger, CaseInv, NothingLeft, Recorded, CaseTypeOK
    <2>2. CASE /\ csvRows' = [r \in Rows |-> [csvRows[r] EXCEPT !.packet = r \in seen]]
               /\ stage' = "complete" /\ UNCHANGED <<raised, caseFaults>>
      <3>1. ASSUME NEW r \in Rows
            PROVE  /\ csvRows'[r] \in RowState /\ csvRows'[r].st = csvRows[r].st
                   /\ csvRows'[r].packet <=> r \in seen
        <4>1. (r \in seen) \in BOOLEAN
          OBVIOUS
        <4>2. csvRows[r] \in RowState /\ csvRows'[r] = [csvRows[r] EXCEPT !.packet = r \in seen]
          BY <2>2 DEF CaseInv, NothingLeft, BrokenCaseContinues, Fresh, Written, Broken, Recorded, Unraised,
             CaseTypeOK
        <4>3. csvRows'[r].st = csvRows[r].st /\ csvRows'[r].packet = (r \in seen)
          BY <4>2
        <4>4. csvRows'[r] \in RowState
          BY <4>1, <4>2, RowStates, Zenon
        <4> QED BY <4>3, <4>4
      <3>2. csvRows' \in [Rows -> RowState]
        BY <2>2, <3>1
      <3>3. CaseTypeOK'
        BY <2>1, <2>2, <3>2 DEF CaseInv, NothingLeft, BrokenCaseContinues, Fresh, Written, Broken, Recorded,
           Unraised, CaseTypeOK, Stages
      <3> QED BY <2>1, <2>2, <3>1, <3>3 DEF CaseInv, NothingLeft, BrokenCaseContinues, Fresh, Written,
                 Broken, Recorded, Unraised, CaseTypeOK
    <2>3. CASE seen = {} /\ raised' = "error" /\ stage' = "cleanup" /\ UNCHANGED <<csvRows, caseFaults>>
      <3>1. NothingLeft'
        BY <2>1, <2>3 DEF CaseInv, NothingLeft, CaseTypeOK, Stages
      <3>2. caseFaults = 0 => measured = {} /\ ~incomplete
        BY <2>1, <2>3 DEF CaseInv, Recorded
      <3>3. BrokenCaseContinues'
        BY <2>1, <2>3, <3>2 DEF BrokenCaseContinues
      <3>4. Fresh' /\ Written' /\ Broken' /\ Recorded' /\ Unraised'
        BY <2>1, <2>3 DEF CaseInv, Fresh, Written, Broken, Recorded, Unraised
      <3> QED BY <3>1, <3>3, <3>4 DEF CaseInv
    <2>4. CASE /\ raised' = "error" /\ stage' = "cleanup" /\ UNCHANGED csvRows
               /\ caseFaults' = caseFaults + 1 /\ caseFaults < MaxCaseFaults
      <3>1. caseFaults' \in 0..MaxCaseFaults /\ caseFaults' # 0
        BY <2>1, <2>4, CaseAssumption
      <3> QED BY <2>1, <2>4, <3>1 DEF CaseInv, NothingLeft, BrokenCaseContinues, Fresh, Written,
                 Broken, Recorded, Unraised, CaseTypeOK, Stages
    <2> QED BY <1>17, <2>2, <2>3, <2>4 DEF MergePackets, Raise, CaseFault
  <1>18. CASE CheckComplete /\ UNCHANGED full
    <2>1. /\ stage = "complete" /\ full /\ caseFaults \in 0..MaxCaseFaults
          /\ UNCHANGED <<full, case, box, tcp, seen, cl, row, rc, csvRows, stray, measured, incomplete, events, oomStruck>>
      BY <1>18 DEF CheckComplete, capture, client, csv, ledger, CaseInv, NothingLeft, Recorded, CaseTypeOK
    <2>2. CASE /\ \A r \in Rows : NeedsPacket(r) => csvRows[r].packet
               /\ stage' = "cleanup" /\ UNCHANGED <<raised, caseFaults>>
      <3>1. \A r \in Rows : csvRows[r].st = "ok" => csvRows[r].packet
        BY <2>2 DEF NeedsPacket
      <3>2. stage' = "cleanup" /\ UNCHANGED <<raised, caseFaults>>
        BY <2>2
      <3>3. NothingLeft' /\ BrokenCaseContinues'
        BY <2>1, <3>2 DEF CaseInv, NothingLeft, BrokenCaseContinues, Fresh, Written, Broken, Recorded,
           Unraised, CaseTypeOK, Stages
      <3>4. Fresh' /\ Written' /\ Broken' /\ Unraised'
        BY <2>1, <3>2 DEF CaseInv, Fresh, Written, Broken, Unraised
      <3>5. Recorded'
        BY <2>1, <3>1, <3>2 DEF CaseInv, Recorded
      <3> QED BY <3>3, <3>4, <3>5 DEF CaseInv
    <2>3. CASE /\ stray \/ \E r \in Rows : NeedsPacket(r) /\ ~csvRows[r].packet
               /\ raised' = "error" /\ stage' = "cleanup" /\ UNCHANGED caseFaults
      <3>1. ~(incomplete /\ caseFaults = 0)
        BY <2>1, <2>3 DEF CaseInv, Written, Broken, Recorded, NeedsPacket
      <3> QED BY <2>1, <2>3, <3>1 DEF CaseInv, NothingLeft, BrokenCaseContinues, Fresh, Written,
                 Broken, Recorded, Unraised, CaseTypeOK, Stages
    <2>4. CASE /\ raised' = "error" /\ stage' = "cleanup"
               /\ caseFaults' = caseFaults + 1 /\ caseFaults < MaxCaseFaults
      <3>1. caseFaults' \in 0..MaxCaseFaults /\ caseFaults' # 0
        BY <2>1, <2>4, CaseAssumption
      <3> QED BY <2>1, <2>4, <3>1 DEF CaseInv, NothingLeft, BrokenCaseContinues, Fresh, Written,
                 Broken, Recorded, Unraised, CaseTypeOK, Stages
    <2> QED BY <1>18, <2>2, <2>3, <2>4 DEF CheckComplete, Raise, CaseFault
  <1>19. CASE Cleanup /\ UNCHANGED full
    <2>1. NothingLeft' /\ BrokenCaseContinues'
      BY <1>19, CaseAssumption DEF Cleanup, CaseInv, NothingLeft, BrokenCaseContinues, Fresh, Written, Broken,
         Recorded, Unraised, CaseTypeOK, Completed, NoRows, Unwritten, RowState, CaseFault, Finished, Raise,
         Exits, NeedsPacket, Stages, capture, client, csv, verdict, ledger, Cases, Rows
    <2>2. Fresh' /\ Written' /\ Broken' /\ Unraised'
      BY <1>19, CaseAssumption DEF Cleanup, CaseInv, Fresh, Written, Broken, Unraised, client, csv
    <2>3. Recorded'
      BY <1>19, CaseAssumption DEF Cleanup, CaseInv, NothingLeft, Recorded, CaseTypeOK, CaseFault, csv
    <2> QED BY <2>1, <2>2, <2>3 DEF CaseInv
  <1>20. CASE FinishCase /\ UNCHANGED full
    <2>1. /\ stage = "finish" /\ UNCHANGED <<full, box, events, caseFaults>>
          /\ oomStruck' = (oomStruck /\ case' = case)
      BY <1>20 DEF FinishCase
    <2>2. oomStruck' \in BOOLEAN
      <3>1. (oomStruck /\ case' = case) \in BOOLEAN
        OBVIOUS
      <3> QED BY <2>1, <3>1, Zenon
    <2>3. CASE stray \/ \E r \in Rows : csvRows[r].st = "missing"
      <3>1. /\ stage' = "aborted" /\ raised' = "error"
            /\ UNCHANGED <<case, tcp, seen, cl, row, rc, csvRows, stray, measured, incomplete>>
        BY <1>20, <2>3 DEF FinishCase, capture, client, csv
      <3>2. ~incomplete
        BY <2>3 DEF CaseInv, Broken
      <3> QED BY <2>1, <2>2, <3>1, <3>2 DEF CaseInv, NothingLeft, BrokenCaseContinues, Fresh, Written,
                 Broken, Recorded, Unraised, CaseTypeOK, Stages
    <2>4. CASE ~stray /\ \A r \in Rows : csvRows[r].st # "missing"
      <3>1. /\ stage' = IF case = NumCases THEN "done" ELSE "start"
            /\ case' = IF case = NumCases THEN case ELSE case + 1
            /\ tcp' = "off" /\ seen' = {} /\ cl' = "off" /\ row' = 1 /\ rc' = "none"
            /\ csvRows' = NoRows /\ stray' = FALSE /\ measured' = {}
            /\ incomplete' = FALSE /\ UNCHANGED raised
        BY <1>20, <2>4 DEF FinishCase
      <3>2. /\ case \in Nat /\ case' \in Cases /\ 1 \in 1..(NumRows + 1) /\ stage' \in Stages
            /\ \A c \in Cases : c < case' \/ (c = case' /\ stage' = "done") <=> c <= case
        BY <2>1, <3>1, CaseAssumption DEF CaseInv, NothingLeft, CaseTypeOK, Cases, Stages
      <3>3. \A c \in Cases : c <= case <=> c < case \/ c = case
        BY <3>2 DEF Cases
      <3>4. CaseTypeOK'
        BY <2>1, <2>2, <3>1, <3>2, RowStates DEF CaseInv, NothingLeft, CaseTypeOK
      <3>5. \A c \in Cases : events'[c] = IF c < case' \/ (c = case' /\ stage' \in {"finish", "done", "aborted"}) THEN 1 ELSE 0
        BY <2>1, <3>1, <3>2, <3>3 DEF CaseInv, NothingLeft
      <3>6. NothingLeft'
        BY <2>1, <3>1, <3>4, <3>5 DEF CaseInv, NothingLeft
      <3> QED BY <2>1, <3>1, <3>6, RowStates DEF CaseInv, BrokenCaseContinues, Fresh, Written, Broken,
                 Recorded, Unraised
    <2> QED BY <2>3, <2>4
  <1>21. CASE UNCHANGED caseVars
    BY <1>21 DEF caseVars, CaseInv, NothingLeft, BrokenCaseContinues, Fresh, Written, Broken, Recorded,
       Unraised, CaseTypeOK, Completed, NeedsPacket
  <1> QED BY <1>1, <1>2, <1>3, <1>4, <1>5, <1>6, <1>7, <1>8, <1>9, <1>10, <1>11, <1>12, <1>13, <1>14,
             <1>15, <1>16, <1>17, <1>18, <1>19, <1>20, <1>21 DEF CaseNext, Step

\* Every way out of a case cleans up and is told once, one broken case is not the
\* end of all, and what is accepted of a case is what was measured.
THEOREM EveryCaseEndsWell == CaseSpec => CasesEndWell
  <1>1. CaseInv => NothingLeft /\ BrokenCaseContinues
    BY DEF CaseInv
  <1>2. CaseInv /\ [CaseNext]_caseVars =>
            [stage = "finish" /\ stage' # "aborted" =>
                /\ ~stray
                /\ \A r \in Rows :
                     /\ csvRows[r].st # "missing"
                     /\ (csvRows[r].st = "ok") <=> (r \in measured)
                     /\ full /\ csvRows[r].st = "ok" => csvRows[r].packet]_caseVars
    <2> SUFFICES ASSUME CaseInv, CaseNext, stage = "finish", stage' # "aborted"
                 PROVE  /\ ~stray
                        /\ \A r \in Rows :
                             /\ csvRows[r].st # "missing"
                             /\ (csvRows[r].st = "ok") <=> (r \in measured)
                             /\ full /\ csvRows[r].st = "ok" => csvRows[r].packet
      OBVIOUS
    <2>1. box = "absent" /\ tcp # "on" /\ cl = "off"
      BY DEF CaseInv, NothingLeft
    <2>2. FinishCase
      BY <2>1 DEF CaseNext, Step, StartSession, StartFails, StartRaises, StartCapture, ClientReady,
         OpenWindow, WindowOk, WindowFails, WindowAborts, ClientEnds, OomKill, ServerCrashes, CaptureDies,
         Interrupt, Classify, StopCapture, MergePackets, CheckComplete, Cleanup
    <2>3. ~stray /\ \A r \in Rows : csvRows[r].st # "missing"
      BY <2>2 DEF FinishCase
    <2> QED BY <2>3 DEF CaseInv, Written, Recorded
  <1> QED BY <1>1, <1>2, CaseStarts, CaseSteps, PTL DEF CaseSpec, CasesEndWell, AcceptedHonest
================================================================================
