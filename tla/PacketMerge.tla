----------------------------- MODULE PacketMerge -----------------------------
(***************************************************************************)
(* Packet latency of one case: what the client sends and writes down       *)
(* (host/client.py, host/client_publication.py), what tcpdump keeps of it, *)
(* and how packet/sniff_parse_pcap.py and packet/merge_packet_latency.py   *)
(* bring the two together.  A latency is represented by the request it     *)
(* belongs to, so that a number in the wrong place is seen to be wrong.    *)
(***************************************************************************)
EXTENDS Integers, Sequences, FiniteSets

CONSTANTS
    Groups,         \* sniff_group_id of the windows: 1..Groups, in their order
    PerWindow,      \* bound: requests of a window
    MaxNoise        \* bound: frames of the case that are no HTTP message

NoSample == <<0, 0>>            \* null in latency_packet_s

VARIABLES
    pkPc,           \* the client, then the parser, then the merge
    current,        \* the window at hand
    answered,       \* latency_app_values: how many requests of it succeeded
    stream,         \* the last TCP stream
    pcap,           \* the frames that were captured; a frame's number is its place
    asked,          \* the frame of the request that is waiting, or 0 if it was lost
    packetRows,     \* the CSV: latencies merged into each row
    sidecar,        \* sniff_groups.jsonl
    requestLog,     \* requests.jsonl: group and number of latencies
    parsed,         \* lat_case.json: records by <<group, frame>>
    packetSamples   \* latency_packet_s of each line of requests.jsonl

packetVars == <<pkPc, current, answered, stream, pcap, asked, packetRows, sidecar, requestLog,
                parsed, packetSamples>>
published == <<packetRows, sidecar, requestLog>>
merged == <<parsed, packetSamples>>

PacketInit ==
    /\ pkPc = "send" /\ current = 1 /\ answered = 0 /\ stream = 0 /\ pcap = <<>> /\ asked = 0
    /\ packetRows = <<>> /\ sidecar = <<>> /\ requestLog = <<>>
    /\ parsed = <<>> /\ packetSamples = <<>>

Frames(kind_) == {f \in DOMAIN pcap : pcap[f].kind = kind_}
-----------------------------------------------------------------------------
(* The client and tcpdump                                                  *)

\* Handshakes, acknowledgements, /ready and the like.
OtherFrame ==
    /\ pkPc \in {"send", "wait"} /\ Cardinality(Frames("other")) < MaxNoise
    /\ pcap' = Append(pcap, [kind |-> "other", stream |-> stream, of |-> 0, id |-> NoSample])
    /\ UNCHANGED <<pkPc, current, answered, stream, asked, published, merged>>

\* _one_request: X-Req-Id is <group>:<number of the request in the window>.  The
\* client closes each connection, a load may use one again.
SendRequest ==
    /\ pkPc = "send" /\ answered < PerWindow
    /\ stream' \in {stream + 1} \cup (IF stream = 0 THEN {} ELSE {stream})
    /\ \/ /\ pcap' = Append(pcap, [kind |-> "request", stream |-> stream', of |-> 0,
                                   id |-> <<current, answered>>])
          /\ asked' = Len(pcap) + 1
       \/ asked' = 0 /\ UNCHANGED pcap
    /\ pkPc' = "wait"
    /\ UNCHANGED <<current, answered, published, merged>>

\* _append_request_window, then the row, then its group: of a window that is
\* fatal only the first is written.
Log == requestLog' = Append(requestLog, [group |-> current, count |-> answered])
LogRow == packetRows' = Append(packetRows, {}) /\ sidecar' = Append(sidecar, current)

\* The next window, or the end of the client.
NextWindow ==
    /\ current' = current + 1 /\ answered' = 0
    /\ pkPc' = IF current = Groups THEN "parse" ELSE "send"

Answer ==
    /\ pkPc = "wait"
    /\ \/ pcap' = Append(pcap, [kind |-> "response", stream |-> stream, of |-> asked,
                                id |-> <<current, answered>>])
       \/ UNCHANGED pcap
    /\ asked' = 0
    /\ \/ answered' = answered + 1 /\ pkPc' = "send" /\ UNCHANGED <<current, published>>
       \/ Log /\ LogRow /\ NextWindow
       \/ Log /\ pkPc' = "parse" /\ UNCHANGED <<current, answered, packetRows, sidecar>>
    /\ UNCHANGED <<stream, merged>>

EndOfWindow ==
    /\ pkPc = "send" /\ answered > 0
    /\ Log /\ LogRow /\ NextWindow
    /\ UNCHANGED <<stream, pcap, asked, merged>>
-----------------------------------------------------------------------------
(* sniff_parse_pcap                                                        *)

\* Requests that have a response, by frame; http.request_in is blank if the
\* request was not captured.
Matched == {f \in Frames("request") : \E r \in Frames("response") : pcap[r].of = f}

\* The bytes of a stream go to its request if it is the only one in it.
Alone(f) == \A e \in Frames("request") : pcap[e].stream = pcap[f].stream => e = f
Bytes(f) == IF Alone(f) THEN {e \in DOMAIN pcap : pcap[e].stream = pcap[f].stream} ELSE {}

\* Mutant: the latencies of a group have one key.
Key_Group(f) == <<pcap[f].id[1], 0>>

\* The key of a record: the group of the request and its frame number.
Key(f) == <<pcap[f].id[1], f>>

Parse ==
    /\ pkPc = "parse"
    /\ parsed' = [k \in {Key(f) : f \in Matched} |->
                    LET f == CHOOSE f \in Matched : Key(f) = k
                    IN [latency |-> pcap[f].id, bytes |-> Bytes(f)]]
    /\ pkPc' = "merge"
    /\ UNCHANGED <<current, answered, stream, pcap, asked, published, packetSamples>>
-----------------------------------------------------------------------------
(* merge_packet_latency                                                    *)

\* The records of the group that the sidecar has at the place of the row.
GroupRecords(k) == {q \in DOMAIN parsed : q[1] = sidecar[k]}

\* The sample of a request is looked up under <group>:<index>.
SampleAt(g, i) == IF <<g, i>> \in DOMAIN parsed THEN parsed[<<g, i>>].latency ELSE NoSample

Merge ==
    /\ pkPc = "merge"
    /\ packetRows' = [k \in DOMAIN packetRows |-> {parsed[q].latency : q \in GroupRecords(k)}]
    /\ packetSamples' = [n \in DOMAIN requestLog |->
                            [i \in 0..(requestLog[n].count - 1) |-> SampleAt(requestLog[n].group, i)]]
    /\ pkPc' = "done"
    /\ UNCHANGED <<current, answered, stream, pcap, asked, sidecar, requestLog, parsed>>

PacketNext ==
    \/ OtherFrame \/ SendRequest \/ Answer \/ EndOfWindow
    \/ Parse \/ Merge

PacketSpec == PacketInit /\ [][PacketNext]_packetVars
-----------------------------------------------------------------------------
\* The requests whose two messages were captured.
Seen == {pcap[f].id : f \in Matched}

\* The packet latency of a row is that of all requests of its window that were
\* captured, and of no other, whichever frames were lost and windows failed; and
\* no byte on the wire is counted for two requests.
RowsAreTheirWindows ==
    /\ pkPc = "done" =>
        \A k \in DOMAIN packetRows : packetRows[k] = {id \in Seen : id[1] = sidecar[k]}
    /\ \A q1, q2 \in DOMAIN parsed :
        q1 # q2 => parsed[q1].bytes \cap parsed[q2].bytes = {}

\* The documentation: position i of the samples is request <group>:<i>, and null
\* stands for a request that was not matched.
SamplesAreTheirRequests ==
    pkPc = "done" =>
        \A n \in DOMAIN requestLog : \A i \in DOMAIN packetSamples[n] :
            LET id == <<requestLog[n].group, i>>
            IN packetSamples[n][i] = IF id \in Seen THEN id ELSE NoSample
=============================================================================
