------------------------------ MODULE DnsUtil ------------------------------
(***************************************************************************)
(* The look-ups of src/dns_util/dnsUtil.c: a caller with a buffer that      *)
(* holds a host name, one UDP socket per look-up that is never closed, a    *)
(* network that loses and delays, a name server that answers with A, CNAME  *)
(* and NS records and compressed names, and the parser of its replies.      *)
(***************************************************************************)
EXTENDS DnsName, FiniteSets

CONSTANTS Hosts,      \* names to look up, as sequences of labels
          Address,    \* their addresses: four bytes each
          Answers,    \* the records of an answer section: sequences over T_A and T_CNAME
          Timeouts,   \* timeOutMil, in milliseconds
          MAX_RES_RECORD_CNT,
          MaxFds,     \* descriptors of the process
          MaxCalls    \* bound on the number of look-ups

T_A == 1
T_NS == 2
T_CNAME == 5

\* Labels have 1 to 63 characters, and no name in a reply has more than the 255
\* bytes ReadName allocates for it, with an alias put in front by every record.
DnsAssumption ==
    /\ Hosts \subseteq Seq(Seq(Characters)) \ {<<>>}
    /\ \A h \in Hosts : \A k \in DOMAIN h : Len(h[k]) \in 1..63
    /\ Address \in [Hosts -> [1..4 -> 0..255]]
    /\ Answers \subseteq Seq({T_A, T_CNAME})
    /\ \A h \in Hosts, answers \in Answers : Len(TextOf(h)) + 1 + 2 * (Len(answers) + 1) <= 255
    /\ Timeouts \subseteq Nat
    /\ MAX_RES_RECORD_CNT \in Nat \ {0} /\ MaxFds \in Nat /\ MaxCalls \in Nat

DNS_HEADER == 12   \* sizes in bytes
QUESTION == 4
R_DATA == 10

VARIABLES pc,       \* "idle", or "waiting" in recvfrom
          host,     \* the caller's buffer and the name the caller put there
          sock,     \* the socket of the running look-up
          timeout,  \* its timeOutMil
          fds,      \* sockets opened so far: none is closed
          net,      \* datagrams under way
          got,      \* the records of the last reply, as they were parsed and as they were sent
          ret,      \* what the last look-up returned: -1 or an address
          heap,     \* blocks that were allocated and not freed
          calls,    \* look-ups so far
          SEND_CNT, RECV_CNT,
          cnames    \* CNAME records among the answers so far

dvars == <<pc, host, sock, timeout, fds, net, got, ret, heap, calls, SEND_CNT, RECV_CNT, cnames>>

Nothing == [parsed |-> <<>>, sent |-> <<>>]
FAILED == <<-1>>

-----------------------------------------------------------------------------
(* The name server.  It understands a query as LabelsAt does. *)

Pointer(pos) == <<POINTER + pos \div 256, pos % 256>>
Record(owner, type, rdata) == owner \o <<0, type, 0, 1, 0, 0, 0, 0, 0, Len(rdata)>> \o rdata
Alias == <<1, 99>>   \* the label a CNAME or a name server puts in front of a name

\* Records one after the other: the owner of each is the name the last CNAME
\* or NS record led to.
Append1(acc, type, ip) ==
    LET start == Len(acc.bytes)
        names == type # T_A
        rdata == IF names THEN Alias \o Pointer(acc.owner) ELSE ip
    IN  [bytes |-> acc.bytes \o Record(Pointer(acc.owner), type, rdata),
         owner |-> IF names THEN start + 2 + R_DATA ELSE acc.owner,
         name |-> IF names THEN <<Tail(Alias)>> \o acc.name ELSE acc.name,
         sent |-> Append(acc.sent,
                         [name |-> TextOf(acc.name), type |-> type,
                          rdata |-> IF names THEN TextOf(<<Tail(Alias)>> \o acc.name) ELSE ip])]

Appended(acc, types, ip) ==
    LET upTo[k \in 0..Len(types)] == IF k = 0 THEN acc ELSE Append1(upTo[k - 1], types[k], ip)
    IN  upTo[Len(types)]

\* A reply repeats the header and the question of the query.
Reply(query, answers, referral) ==
    LET name == LabelsAt(query.bytes, DNS_HEADER)
        ip == Address[name]
        others == IF referral THEN <<T_NS, T_A>> ELSE <<>>
        all == Appended([bytes |-> query.bytes, owner |-> DNS_HEADER, name |-> name, sent |-> <<>>],
                        answers \o others, ip)
    IN  [to |-> query.from, bytes |-> all.bytes, ans_count |-> Len(answers),
         auth_count |-> IF referral THEN 1 ELSE 0, add_count |-> IF referral THEN 1 ELSE 0,
         sent |-> all.sent]

-----------------------------------------------------------------------------
(* The resolver *)

\* The query of a host: a header, the name up to its first 0, its type and class.
setupDnsQuery(text) ==
    LET named == ChangetoDnsNameFormat(text)
    IN  [host |-> named.host,
         bytes |-> [i \in 1..DNS_HEADER |-> 0] \o CString(named.dns) \o <<0>> \o <<0, T_A, 0, 1>>]

MallocedLate(section, type) == section # "answers"

\* The records clearResRecord frees.
Malloced(section, type) == section # "answers" \/ type = T_A

\* The rest of a record behind its name; only T_A data is copied, anything else
\* is read as a name.  An authority record's data is always read as a name.
parse_resource(msg, name, resource, section) ==
    LET reader == resource + R_DATA
        type == Byte(msg, resource + 1)
        data_len == Byte(msg, resource + 9)
        copied == type = T_A /\ section # "auth"
        rdata == ReadName(msg, reader)
    IN  [name |-> name, type |-> type, malloced |-> Malloced(section, type),
         rdata |-> IF copied THEN SubSeq(msg, reader + 1, reader + data_len) ELSE rdata.name,
         next |-> reader + IF copied THEN data_len ELSE rdata.count]

parse_record(msg, pos, section) ==
    LET owner == ReadName(msg, pos)
    IN  parse_resource(msg, owner.name, pos + owner.count, section)

\* At most MAX_RES_RECORD_CNT records of a section are read.
parse_section(msg, pos, count, section) ==
    LET n == Min({count, MAX_RES_RECORD_CNT})
        upTo[k \in 0..n] ==
            IF k = 0 THEN [next |-> pos, records |-> <<>>]
            ELSE LET r == parse_record(msg, upTo[k - 1].next, section)
                 IN  [next |-> r.next, records |-> Append(upTo[k - 1].records, r)]
    IN  upTo[n]

parseDnsResult(m) ==
    LET question == DNS_HEADER + Len(CString(SubSeq(m.bytes, DNS_HEADER + 1, Len(m.bytes)))) + 1
        answers == parse_section(m.bytes, question + QUESTION, m.ans_count, "answers")
        auth == parse_section(m.bytes, answers.next, m.auth_count, "auth")
        addit == parse_section(m.bytes, auth.next, m.add_count, "addit")
    IN  answers.records \o auth.records \o addit.records

\* The blocks left behind: a name and data for each record not freed.
clearParseResult(records) == 2 * Cardinality({ k \in DOMAIN records : ~records[k].malloced })

\* The first answer decides.
FirstIp(m, records) ==
    IF m.ans_count > 0 /\ records[1].type = T_A
    THEN records[1].rdata ELSE FAILED

TimerUnset(timeOutMil) == FALSE

\* tv_usec = timeOutMil * 1000: setsockopt refuses a million, and 0 is no timeout.
TimerSet(timeOutMil) == 0 < timeOutMil * 1000 /\ timeOutMil * 1000 < 1000000

OpenedStatic == IF fds = 0 THEN 1 ELSE fds

Opened == fds + 1

\* setupDnsQuery and runDnsQuery up to recvfrom.  Without a descriptor, or
\* when sendto fails, the look-up is over.
Query(text, labels, timeOutMil) ==
    LET q == setupDnsQuery(text)
    IN  /\ pc = "idle" /\ calls < MaxCalls
        /\ host' = [text |-> q.host, labels |-> labels]
        /\ calls' = calls + 1
        /\ got' = Nothing
        /\ \/ /\ fds < MaxFds
              /\ fds' = Opened /\ sock' = Opened /\ timeout' = timeOutMil
              /\ net' = net \cup {[kind |-> "query", from |-> Opened, bytes |-> q.bytes, asked |-> labels]}
              /\ SEND_CNT' = SEND_CNT + 1
              /\ pc' = "waiting" /\ UNCHANGED ret
           \/ /\ fds < MaxFds
              /\ fds' = Opened /\ sock' = Opened /\ timeout' = timeOutMil
              /\ ret' = FAILED /\ UNCHANGED <<net, pc, SEND_CNT>>
           \/ /\ fds = MaxFds
              /\ ret' = FAILED /\ UNCHANGED <<fds, sock, timeout, net, pc, SEND_CNT>>
        /\ UNCHANGED <<heap, cnames, RECV_CNT>>

\* A caller that copies a name into its buffer, and one that tries again.
getHostFirstIpByNameTimeOut(labels, timeOutMil) == Query(TextOf(labels), labels, timeOutMil)
Retry(timeOutMil) == host.labels # <<>> /\ Query(host.text, host.labels, timeOutMil)

\* The name server answers, sooner or later; net keeps what is lost or late.
\* A reply with more answers than the parser reads has no other sections: the
\* parser does not skip the answers it leaves out.
ServerReplies ==
    \E q \in net, answers \in Answers, referral \in BOOLEAN :
        /\ q.kind = "query" /\ (referral => Len(answers) <= MAX_RES_RECORD_CNT)
        /\ net' = (net \ {q}) \cup {[kind |-> "reply", m |-> Reply(q, answers, referral)]}
        /\ UNCHANGED <<pc, host, sock, timeout, fds, got, ret, heap, calls, SEND_CNT, RECV_CNT, cnames>>

\* recvfrom returns a reply; it is parsed, used and cleared.
Use(p, records) ==
    /\ net' = net \ {p}
    /\ got' = [parsed |-> [k \in DOMAIN records |->
                             [name |-> records[k].name, type |-> records[k].type,
                              rdata |-> records[k].rdata]],
               sent |-> p.m.sent]
    /\ ret' = FirstIp(p.m, records)
    /\ heap' = heap + clearParseResult(records)
    /\ cnames' = cnames + Cardinality({ k \in 1..Min({p.m.ans_count, MAX_RES_RECORD_CNT}) :
                                          p.m.sent[k].type = T_CNAME })
    /\ RECV_CNT' = RECV_CNT + 1
    /\ pc' = "idle"
    /\ UNCHANGED <<host, sock, timeout, fds, calls, SEND_CNT>>

Receive ==
    \E p \in net :
        /\ pc = "waiting"
        /\ p.kind = "reply" /\ p.m.to = sock
        /\ Use(p, parseDnsResult(p.m))

\* recvfrom fails when SO_RCVTIMEO has passed.  The result of setsockopt is not
\* looked at: with a timeOutMil it refuses, recvfrom waits without end.
Timeout ==
    /\ pc = "waiting" /\ TimerSet(timeout)
    /\ pc' = "idle" /\ ret' = FAILED
    /\ UNCHANGED <<host, sock, timeout, fds, net, got, heap, calls, SEND_CNT, RECV_CNT, cnames>>

DnsInit ==
    /\ pc = "idle" /\ host = [text |-> <<>>, labels |-> <<>>] /\ sock = 0 /\ timeout = 0
    /\ fds = 0 /\ net = {} /\ got = Nothing /\ ret = FAILED
    /\ heap = 0 /\ calls = 0 /\ SEND_CNT = 0 /\ RECV_CNT = 0 /\ cnames = 0

DnsNext ==
    \/ \E labels \in Hosts, t \in Timeouts : getHostFirstIpByNameTimeOut(labels, t)
    \/ \E t \in Timeouts : Retry(t)
    \/ ServerReplies
    \/ Receive
    \/ Timeout

DnsSpec == DnsInit /\ [][DnsNext]_dvars /\ WF_dvars(Timeout)
-----------------------------------------------------------------------------
\* Every query asks for the name the caller put into its buffer, on a first
\* call and on retries, although each ChangetoDnsNameFormat leaves one more dot
\* in that buffer.
QueryAsksForHost ==
    \A q \in net : q.kind = "query" => LabelsAt(q.bytes, DNS_HEADER) = q.asked

\* parseDnsResult reads the records of a reply as the server sent them:
\* ReadName follows the pointers of compressed names and leaves the reader
\* where the next record starts.
ParsedAsSent ==
    \A k \in DOMAIN got.parsed : got.parsed[k] = got.sent[k]

\* An address returned belongs to the host of this call.  Replies are not
\* matched by their id: that a reply to an earlier, timed-out look-up is never
\* taken for this one is due to the socket of its own each look-up has.
AddressOfHost ==
    pc = "idle" /\ ret # FAILED => ret = Address[host.labels]

\* clearParseResult frees everything parseDnsResult allocated, but for the
\* name and the data of CNAME answers: nothing else is ever left.
OnlyAliasesLeak == heap = 2 * cnames

\* A look-up whose timeOutMil is above 0 and below a second returns, with lost
\* queries and replies.  (Nothing is claimed of other values: setsockopt refuses
\* a second or more as tv_usec, dnsUtil.c:203, and takes 0 for no timeout.)
LookupReturns ==
    (pc = "waiting" /\ 0 < timeout /\ timeout < 1000) ~> pc = "idle"
=============================================================================
