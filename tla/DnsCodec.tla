------------------------------ MODULE DnsCodec ------------------------------
(***************************************************************************)
(* vz_net/src/dns.rs byte for byte: which packets the DNS proxy takes for  *)
(* a query, and the answers it builds.                                     *)
(***************************************************************************)
EXTENDS Bytes, SequencesExt

CONSTANT MaxNameLen   \* MAX_NAME_LEN

ASSUME NameAssumption == MaxNameLen \in Nat

QtypeA == 1
QtypeAaaa == 28
ClassIn == 1
Dot == 46

\* UTF-8: the bytes of a character, by what each of them may be.
Trail == 128..191
CharForms ==
    {<<0..127>>, <<194..223, Trail>>,
     <<{224}, 160..191, Trail>>, <<{237}, 128..159, Trail>>,
     <<(225..239) \ {237}, Trail, Trail>>,
     <<{240}, 144..191, Trail, Trail>>, <<{244}, 128..143, Trail, Trail>>,
     <<241..243, Trail, Trail, Trail>>}

CharAt(bytes, i, form) ==
    /\ i + Len(form) - 1 <= Len(bytes)
    /\ \A k \in DOMAIN form : bytes[i + k - 1] \in form[k]

\* from_utf8: every byte belongs to a character (two never overlap, as what
\* starts one is no trailing byte).
IsUtf8(bytes) ==
    \A at \in DOMAIN bytes : \E i \in 1..at, form \in CharForms :
        at < i + Len(form) /\ CharAt(bytes, i, form)

\* The labels from an offset on, each a byte string, and where they end; a
\* pointer, a cut label or a label that is no text ends the attempt.
ReadLabels(packet) ==
    LET labels[at \in 12..Len(packet)] ==
          IF at >= Len(packet) THEN {}
          ELSE LET len  == At(packet, at)
                   next == at + 1 + len
               IN  IF len = 0 THEN {[names |-> <<>>, end |-> at + 1]}
                   ELSE IF len >= 64 \/ next > Len(packet)
                           \/ ~IsUtf8(Slice(packet, at + 1, next)) THEN {}
                   ELSE {[names |-> <<Slice(packet, at + 1, next)>> \o rest.names,
                          end |-> rest.end] : rest \in labels[next]}
    IN  labels[12]

\* One string, the labels joined by dots.
Dotted(names) ==
    FoldLeft(LAMBDA acc, label : IF acc = <<>> THEN label ELSE acc \o <<Dot>> \o label,
             <<>>, names)

IsQuery(packet) ==
    /\ Len(packet) >= 12
    /\ ~HasBit(At(packet, 2), 128)         \* not a response
    /\ (At(packet, 2) \div 8) % 16 = 0     \* a standard query
    /\ FromBe16(packet, 4) = 1             \* one question

RawQuestion_ToTheEnd(packet, end) == From(packet, 12)

RawQuestion(packet, end) == Slice(packet, 12, end + 4)

ParseQuery(packet) ==
    IF ~IsQuery(packet) THEN {}
    ELSE {[id |-> FromBe16(packet, 0), name |-> Dotted(q.names),
           qtype |-> FromBe16(packet, q.end), rawQuestion |-> RawQuestion(packet, q.end)]
            : q \in {x \in ReadLabels(packet) :
                /\ Len(Dotted(x.names)) <= MaxNameLen
                /\ x.end + 4 <= Len(packet)
                /\ FromBe16(packet, x.end) \in {QtypeA, QtypeAaaa}
                /\ FromBe16(packet, x.end + 2) = ClassIn}}

-----------------------------------------------------------------------------
Header(query, rcode, ancount) ==
    Be16(query.id) \o <<128 + 4, rcode>> \o Be16(1) \o Be16(ancount) \o Zeros(4)

\* An address is its bytes; the question's family decides which are answers.
OfFamily(qtype, ip) == Len(ip) = IF qtype = QtypeA THEN 4 ELSE 16

Answers(query, ips) == SelectSeq(ips, LAMBDA ip : OfFamily(query.qtype, ip))

\* A pointer to the name at offset 12, type, class, TTL, length and address.
Record(ip, ttl) ==
    <<192, 12>> \o Be16(IF Len(ip) = 4 THEN QtypeA ELSE QtypeAaaa) \o Be16(ClassIn)
    \o <<0, 0>> \o Be16(ttl) \o Be16(Len(ip)) \o ip

BuildResponse(query, ips, ttl) ==
    LET answers == Answers(query, ips)
    IN  Header(query, 0, Len(answers)) \o query.rawQuestion
        \o FlattenSeq([i \in 1..Len(answers) |-> Record(answers[i], ttl)])

BuildRefused(query) == Header(query, 5, 0) \o query.rawQuestion
=============================================================================
