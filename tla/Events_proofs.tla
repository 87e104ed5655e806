---------------------------- MODULE Events_proofs ----------------------------
(***************************************************************************)
(* That the two halves of the encoder agree: for strings of any length the *)
(* bytes written for an event are as many as were computed for it, and the *)
(* Agent can take them apart; and that a hook whose client is not shared   *)
(* leaves nothing in the event from a call before.                         *)
(***************************************************************************)
EXTENDS Events, TLAPS

(* What a function of the encoder writes: n bytes, with these strings.     *)
Writes(b, n, strings) ==
  /\ b.length = n /\ n \in Nat
  /\ \A c \in b.cells :
       /\ c = [at |-> c.at, width |-> c.width, kind |-> c.kind, value |-> c.value]
       /\ c.at \in Nat /\ c.width \in Nat
  /\ Prefixed(b)
  /\ \A s \in strings : Holds(b, s)

LEMMA WritesNumber ==
  ASSUME NEW w \in Nat, NEW v
  PROVE  Writes(Number(w, v), w, {})
<1> DEFINE c == [at |-> 0, width |-> w, kind |-> "number", value |-> v]
<1>1. Number(w, v).length = w /\ Number(w, v).cells = {c}
  BY DEF Number, Cell
<1>2. c.at = 0 /\ c.width = w /\ c.kind # "text"
  OBVIOUS
<1> QED
  BY <1>1, <1>2 DEF Writes, Prefixed

(* Of two that are written one after the other the second moves, and what  *)
(* is in it stays together.                                                *)
LEMMA WritesNext ==
  ASSUME NEW a, NEW b, NEW n, NEW m, NEW S, NEW T, Writes(a, n, S), Writes(b, m, T)
  PROVE  Writes(a ++ b, n + m, S \union T)
<1> DEFINE u == a ++ b
           Moved(c) == [c EXCEPT !.at = @ + n]
<1>1. /\ u.length = n + m /\ u.length \in Nat /\ n \in Nat /\ m \in Nat
      /\ u.cells = a.cells \union {Moved(c) : c \in b.cells}
  BY DEF ++, Writes
<1>2. ASSUME NEW c \in b.cells
      PROVE  /\ Moved(c) = [at |-> c.at + n, width |-> c.width, kind |-> c.kind, value |-> c.value]
             /\ Moved(c).at = c.at + n /\ Moved(c).at \in Nat /\ Moved(c).width = c.width
             /\ Moved(c).kind = c.kind /\ Moved(c).value = c.value
             /\ c.at \in Nat /\ c.width \in Nat /\ c.at + c.width <= m
             /\ Moved(c) \in u.cells
  <2>1. /\ c = [at |-> c.at, width |-> c.width, kind |-> c.kind, value |-> c.value]
        /\ c.at \in Nat /\ c.width \in Nat /\ c.at + c.width <= m
    BY <1>2 DEF Writes, Prefixed
  <2>2. Moved(c) = [at |-> c.at + n, width |-> c.width, kind |-> c.kind, value |-> c.value]
    BY <2>1
  <2>3. Moved(c) \in u.cells
    BY <1>1, <1>2
  <2> HIDE DEF Moved
  <2> QED
    BY <1>1, <2>1, <2>2, <2>3
<1>3. ASSUME NEW c \in a.cells
      PROVE  /\ c = [at |-> c.at, width |-> c.width, kind |-> c.kind, value |-> c.value]
             /\ c.at \in Nat /\ c.width \in Nat /\ c.at + c.width <= n /\ c \in u.cells
  BY <1>1, <1>3 DEF Writes, Prefixed
<1>4. \A c \in u.cells : c \in a.cells \/ \E o \in b.cells : c = Moved(o)
  BY <1>1
<1> HIDE DEF u, Moved
<1>5. ASSUME NEW c \in u.cells
      PROVE  /\ c = [at |-> c.at, width |-> c.width, kind |-> c.kind, value |-> c.value]
             /\ c.at \in Nat /\ c.width \in Nat /\ c.at + c.width <= n + m
  <2>1. CASE c \in a.cells
    BY <1>1, <1>3, <2>1
  <2>2. CASE \E o \in b.cells : c = Moved(o)
    <3>1. PICK o \in b.cells : c = Moved(o)
      BY <2>2
    <3>2. Moved(o).at + Moved(o).width <= n + m
      BY <1>1, <1>2
    <3>3. Moved(o) = [at |-> Moved(o).at, width |-> Moved(o).width, kind |-> Moved(o).kind,
                      value |-> Moved(o).value]
      BY <1>2
    <3> QED
      BY <1>2, <3>1, <3>2, <3>3
  <2> QED
    BY <1>4, <2>1, <2>2
<1>6. ASSUME NEW c \in u.cells, c.kind = "text"
      PROVE  \E p \in u.cells : /\ p.kind = "number" /\ p.at + p.width = c.at
                                /\ p.value = c.width /\ p.value <= LongestAfter(p.width)
  <2>1. CASE c \in a.cells
    <3>1. PICK p \in a.cells : /\ p.kind = "number" /\ p.at + p.width = c.at
                               /\ p.value = c.width /\ p.value <= LongestAfter(p.width)
      BY <1>6, <2>1 DEF Writes, Prefixed
    <3> QED
      BY <1>3, <3>1
  <2>2. CASE \E o \in b.cells : c = Moved(o)
    <3>1. PICK o \in b.cells : c = Moved(o)
      BY <2>2
    <3>2. o.kind = "text"
      BY <1>2, <1>6, <3>1
    <3>3. PICK p \in b.cells : /\ p.kind = "number" /\ p.at + p.width = o.at
                               /\ p.value = o.width /\ p.value <= LongestAfter(p.width)
      BY <3>2 DEF Writes, Prefixed
    <3>4. Moved(p).at + Moved(p).width = Moved(o).at
      BY <1>1, <1>2, <3>3
    <3>5. /\ Moved(p) \in u.cells /\ Moved(p).kind = "number" /\ Moved(p).value = Moved(o).width
          /\ Moved(p).value <= LongestAfter(Moved(p).width)
      BY <1>2, <3>3
    <3> QED
      BY <3>1, <3>4, <3>5
  <2> QED
    BY <1>4, <2>1, <2>2
<1>7. ASSUME NEW s \in S \union T PROVE Holds(u, s)
  <2>1. CASE s \in S
    BY <1>3, <2>1 DEF Writes, Holds
  <2>2. CASE s \in T
    <3>1. PICK c \in b.cells : c.kind = "text" /\ c.width = s.length /\ c.value = s.of
      BY <2>2 DEF Writes, Holds
    <3> QED
      BY <1>2, <3>1 DEF Holds
  <2> QED
    BY <1>7, <2>1, <2>2
<1> QED
  BY <1>1, <1>5, <1>6, <1>7 DEF Writes, Prefixed, u

LEMMA WritesText ==
  ASSUME NEW prefix \in {1, 2}, NEW s, s.length \in 0..LongestAfter(prefix)
  PROVE  Writes(Text(prefix, s), prefix + s.length, {s})
<1> DEFINE n == s.length
           p == [at |-> 0, width |-> prefix, kind |-> "number", value |-> n]
           c == [at |-> prefix, width |-> n, kind |-> "text", value |-> s.of]
           t == Text(prefix, s)
<1>1. n \in Nat /\ prefix \in Nat
  BY DEF LongestAfter, UINT8_MAX, INT16_MAX
<1>2. t.length = prefix + n /\ t.cells = {p, c}
  <2> DEFINE c0 == [at |-> 0, width |-> n, kind |-> "text", value |-> s.of]
  <2>1. [c0 EXCEPT !.at = @ + prefix] = c
    BY <1>1
  <2>2. t.length = prefix + n /\ t.cells = {p} \union {[x EXCEPT !.at = @ + prefix] : x \in {c0}}
    BY DEF Text, Number, Cell, ++
  <2> HIDE DEF c0
  <2>3. {[x EXCEPT !.at = @ + prefix] : x \in {c0}} = {[c0 EXCEPT !.at = @ + prefix]}
    OBVIOUS
  <2> QED
    BY <2>1, <2>2, <2>3
<1>3. /\ p.at = 0 /\ p.width = prefix /\ p.kind = "number" /\ p.value = n
      /\ c.at = prefix /\ c.width = n /\ c.kind = "text" /\ c.value = s.of
      /\ p = [at |-> p.at, width |-> p.width, kind |-> p.kind, value |-> p.value]
      /\ c = [at |-> c.at, width |-> c.width, kind |-> c.kind, value |-> c.value]
  OBVIOUS
<1> HIDE DEF p, c, t
<1>4. Holds(t, s)
  BY <1>2, <1>3 DEF Holds
<1>5. Prefixed(t)
  <2>1. n <= LongestAfter(prefix)
    BY DEF LongestAfter, UINT8_MAX, INT16_MAX
  <2> QED
    BY <1>1, <1>2, <1>3, <2>1 DEF Prefixed
<1> QED
  BY <1>1, <1>2, <1>3, <1>4, <1>5 DEF Writes, t
-----------------------------------------------------------------------------
(* The strings of an event are those that the setters have cut.            *)
Limit(f) == IF f = "verb" THEN RG_MAX_SHORT_STRING_SIZE ELSE RG_MAX_STRING_SIZE
IsString(s, f) == s = [length |-> s.length, of |-> s.of] /\ s.length \in 0..Limit(f)
IsData(type, d) ==
  /\ d = [f \in DOMAIN EventStruct[type] |-> d[f]]
  /\ \A f \in Strings(type) : IsString(d[f], f)

(* An event of this type takes the bytes that were computed for it.        *)
Agrees(type, d) ==
  LET n == Payload(type, d).length
  IN  /\ Writes(Payload(type, d), n, {d[f] : f \in Strings(type)})
      /\ RG_MIN_PAYLOAD + n \in Nat /\ RG_MIN_PAYLOAD + n <= INT16_MAX
      /\ rg_encode_size(type, d) = RG_MIN_PAYLOAD + n

LEMMA Limits ==
  /\ RG_MIN_PAYLOAD = 19 /\ INT16_MAX = 32767 /\ UINT8_MAX = 255
  /\ RG_MAX_STRING_SIZE = 4096 /\ RG_MAX_SHORT_STRING_SIZE = 127
BY DEF RG_MIN_PAYLOAD, INT16_MAX, UINT8_MAX, RG_MAX_STRING_SIZE, RG_MAX_SHORT_STRING_SIZE

LEMMA ShortIsExact ==
  ASSUME NEW n \in Nat, n <= INT16_MAX
  PROVE  Short(n) = n
<1>1. n \in Int /\ 0 <= n /\ n <= 32767
  BY Limits
<1>2. Short(n) = ((n + 32767 + 1) % (2 * (32767 + 1))) - (32767 + 1)
  BY Limits DEF Short
<1>3. (n + 32768) % 65536 = n + 32768
  BY <1>1
<1>4. n + 32767 + 1 = n + 32768
  BY <1>1
<1> QED
  BY <1>1, <1>2, <1>3, <1>4

LEMMA AgreesBy ==
  ASSUME NEW type, NEW d, NEW b, NEW n, NEW S, Writes(b, n, S), n <= 32000,
         Payload(type, d) = b, rg_encode_size(type, d) = Short(RG_MIN_PAYLOAD + n),
         \A f \in Strings(type) : d[f] \in S
  PROVE  Agrees(type, d)
<1>1. b.length = n /\ n \in Nat /\ \A s \in S : Holds(b, s)
  BY DEF Writes
<1>2. RG_MIN_PAYLOAD + n \in Nat /\ RG_MIN_PAYLOAD + n <= INT16_MAX
  BY <1>1, Limits
<1>3. \A s \in {d[f] : f \in Strings(type)} : s \in S
  OBVIOUS
<1>4. Writes(b, n, {d[f] : f \in Strings(type)})
  BY <1>1, <1>3 DEF Writes
<1> QED
  BY <1>1, <1>2, <1>4, ShortIsExact DEF Agrees

LEMMA WritesString ==
  ASSUME NEW s, s.length \in 0..RG_MAX_STRING_SIZE
  PROVE  /\ Writes(Text(2, s), 2 + s.length, {s})
         /\ Writes(EncodedText(s), 1 + (2 + s.length), {} \union {s})
<1>1. s.length \in 0..LongestAfter(2)
  <2>1. LongestAfter(2) = INT16_MAX
    BY DEF LongestAfter
  <2>2. \A n \in 0..RG_MAX_STRING_SIZE : n \in 0..INT16_MAX
    <3>1. /\ RG_MAX_STRING_SIZE \in Nat /\ INT16_MAX \in Nat
          /\ RG_MAX_STRING_SIZE <= INT16_MAX
      BY ONLY Limits
    <3> QED BY ONLY <3>1
  <2> QED
    BY <2>1, <2>2
<1>2. Writes(Text(2, s), 2 + s.length, {s})
  BY <1>1, WritesText
<1>3. Writes(Number(1, RG_STRING_ENCODING_UTF8), 1, {})
  BY WritesNumber
<1> QED
  BY <1>2, <1>3, WritesNext DEF EncodedText

LEMMA WritesShortString ==
  ASSUME NEW s, s.length \in 0..RG_MAX_SHORT_STRING_SIZE
  PROVE  Writes(Text(1, s), 1 + s.length, {s})
<1>1. s.length \in 0..LongestAfter(1)
  BY Limits DEF LongestAfter
<1> QED
  BY <1>1, WritesText
-----------------------------------------------------------------------------
LEMMA StringsOf ==
  /\ Strings("BEGIN") = {}
  /\ Strings("END") = {}
  /\ Strings("METHODINFO_2") = {"class_name", "method_name"}
  /\ Strings("EXCEPTION_THROWN_2") = {"class_name", "correlation_id"}
  /\ Strings("PROCESS_FREQUENCY") = {}
  /\ Strings("PROCESS_TYPE") = {"technology_type", "process_type"}
  /\ Strings("SQL_INFORMATION") = {"provider", "host", "database", "query"}
  /\ Strings("HTTP_INCOMING_INFORMATION") = {"url", "verb"}
  /\ Strings("HTTP_OUTGOING_INFORMATION") = {"url", "verb"}
  /\ Strings("BEGIN_TRANSACTION") = {"api_key", "technology_type", "process_type"}
  /\ Strings("THREAD_STARTED_2") = {}
  /\ Strings("THREAD_ENDED") = {}
  /\ Strings("PROCESS_ENDED") = {}
  /\ Strings("END_TRANSACTION") = {}
<1>1. Strings("BEGIN") = {}
  BY DEF Strings, EventStruct, Struct
<1>2. Strings("END") = {}
  BY DEF Strings, EventStruct, Struct
<1>3. Strings("METHODINFO_2") = {"class_name", "method_name"}
  BY DEF Strings, EventStruct, Struct
<1>4. Strings("EXCEPTION_THROWN_2") = {"class_name", "correlation_id"}
  BY DEF Strings, EventStruct, Struct
<1>5. Strings("PROCESS_FREQUENCY") = {}
  BY DEF Strings, EventStruct, Struct
<1>6. Strings("PROCESS_TYPE") = {"technology_type", "process_type"}
  BY DEF Strings, EventStruct, Struct
<1>7. Strings("SQL_INFORMATION") = {"provider", "host", "database", "query"}
  BY DEF Strings, EventStruct, Struct
<1>8. Strings("HTTP_INCOMING_INFORMATION") = {"url", "verb"}
  BY DEF Strings, EventStruct, Struct
<1>9. Strings("HTTP_OUTGOING_INFORMATION") = {"url", "verb"}
  BY DEF Strings, EventStruct, Struct
<1>10. Strings("BEGIN_TRANSACTION") = {"api_key", "technology_type", "process_type"}
  BY DEF Strings, EventStruct, Struct
<1>11. Strings("THREAD_STARTED_2") = {}
  BY DEF Strings, EventStruct, Struct
<1>12. Strings("THREAD_ENDED") = {}
  BY DEF Strings, EventStruct, Struct
<1>13. Strings("PROCESS_ENDED") = {}
  BY DEF Strings, EventStruct, Struct
<1>14. Strings("END_TRANSACTION") = {}
  BY DEF Strings, EventStruct, Struct
<1> QED
  BY <1>1, <1>2, <1>3, <1>4, <1>5, <1>6, <1>7, <1>8, <1>9, <1>10, <1>11, <1>12, <1>13, <1>14
(* What is written next adds its own bytes, and its string if it has one.  *)
LEMMA ThenNumber ==
  ASSUME NEW a, NEW n, NEW S, Writes(a, n, S), NEW w \in Nat, NEW v
  PROVE  Writes(a ++ Number(w, v), n + w, S)
<1>1. Writes(Number(w, v), w, {})
  BY WritesNumber
<1>2. Writes(a ++ Number(w, v), n + w, S \union {})
  BY <1>1, WritesNext
<1>3. S \union {} = S
  OBVIOUS
<1> QED
  BY <1>2, <1>3

LEMMA ThenString ==
  ASSUME NEW a, NEW n, NEW S, Writes(a, n, S), NEW s, s.length \in 0..RG_MAX_STRING_SIZE
  PROVE  /\ Writes(a ++ Text(2, s), n + (2 + s.length), S \union {s})
         /\ Writes(a ++ EncodedText(s), n + (1 + (2 + s.length)), S \union {s})
<1>1. Writes(Text(2, s), 2 + s.length, {s}) /\ Writes(EncodedText(s), 1 + (2 + s.length), {s})
  BY WritesString
<1> QED
  BY <1>1, WritesNext

LEMMA ThenShortString ==
  ASSUME NEW a, NEW n, NEW S, Writes(a, n, S), NEW s, s.length \in 0..RG_MAX_SHORT_STRING_SIZE
  PROVE  Writes(a ++ Text(1, s), n + (1 + s.length), S \union {s})
<1>1. Writes(Text(1, s), 1 + s.length, {s})
  BY WritesShortString
<1> QED
  BY <1>1, WritesNext

(* Each command, field by field.                                           *)
LEMMA BeginAgrees ==
  ASSUME NEW d, IsData("BEGIN", d)
  PROVE  Agrees("BEGIN", d)
<1> DEFINE b1 == Number(4, d.function_id)
           b2 == b1 ++ Number(8, d.instance_id)
           b3 == b2 ++ Number(1, d.argc)
<1>1. Writes(b1, 4, {})
  BY WritesNumber
<1>2. Writes(b2, 4 + 8, {})
  BY <1>1, ThenNumber
<1>3. Writes(b3, 4 + 8 + 1, {})
  BY <1>2, ThenNumber
<1>4. /\ Payload("BEGIN", d) = b3
      /\ rg_encode_size("BEGIN", d) = Short(rg_encode_begin_size(d))
  <2>1. Payload("BEGIN", d) = b3
    BY DEF Payload, rg_encode_begin
  <2>2. rg_encode_size("BEGIN", d) = Short(rg_encode_begin_size(d))
    BY DEF rg_encode_size
  <2> QED
    BY <2>1, <2>2
<1>5. /\ rg_encode_begin_size(d) = RG_MIN_PAYLOAD + (4 + 8 + 1)
      /\ 4 + 8 + 1 <= 32000
  BY Limits DEF rg_encode_begin_size
<1>6. \A f \in Strings("BEGIN") : d[f] \in {}
  BY StringsOf
<1> QED
  BY <1>3, <1>4, <1>5, <1>6, AgreesBy

LEMMA MethodinfoAgrees ==
  ASSUME NEW d, IsData("METHODINFO_2", d)
  PROVE  Agrees("METHODINFO_2", d)
<1> DEFINE b1 == Number(4, d.function_id)
           b2 == b1 ++ Text(2, d.class_name)
           b3 == b2 ++ Text(2, d.method_name)
           b4 == b3 ++ Number(1, d.method_source)
           k == d.class_name.length
           l == d.method_name.length
<1>1. /\ k \in 0..RG_MAX_STRING_SIZE
      /\ l \in 0..RG_MAX_STRING_SIZE
  BY StringsOf DEF IsData, IsString, Limit
<1>2. Writes(b1, 4, {})
  BY WritesNumber
<1>3. Writes(b2, 4 + (2 + k), {} \union {d.class_name})
  BY <1>1, <1>2, ThenString
<1>4. Writes(b3, 4 + (2 + k) + (2 + l), {} \union {d.class_name} \union {d.method_name})
  BY <1>1, <1>3, ThenString
<1>5. Writes(b4, 4 + (2 + k) + (2 + l) + 1, {} \union {d.class_name} \union {d.method_name})
  BY <1>4, ThenNumber
<1>6. /\ Payload("METHODINFO_2", d) = b4
      /\ rg_encode_size("METHODINFO_2", d) = Short(rg_encode_methodinfo_size(d))
  <2>1. Payload("METHODINFO_2", d) = b4
    BY DEF Payload, rg_encode_methodinfo
  <2>2. rg_encode_size("METHODINFO_2", d) = Short(rg_encode_methodinfo_size(d))
    BY DEF rg_encode_size
  <2> QED
    BY <2>1, <2>2
<1>7. /\ rg_encode_methodinfo_size(d) = RG_MIN_PAYLOAD + (4 + (2 + k) + (2 + l) + 1)
      /\ 4 + (2 + k) + (2 + l) + 1 <= 32000
  <2>1. rg_encode_methodinfo_size(d) = RG_MIN_PAYLOAD + 4 + 2 + k + 2 + l + 1
    BY DEF rg_encode_methodinfo_size
  <2> HIDE DEF k, l
  <2> QED
    BY <1>1, <2>1, Limits
<1>8. \A f \in Strings("METHODINFO_2") : d[f] \in {} \union {d.class_name} \union {d.method_name}
  BY StringsOf
<1> QED
  BY <1>5, <1>6, <1>7, <1>8, AgreesBy

LEMMA ExceptionThrownAgrees ==
  ASSUME NEW d, IsData("EXCEPTION_THROWN_2", d)
  PROVE  Agrees("EXCEPTION_THROWN_2", d)
<1> DEFINE b1 == Number(8, d.exception_id)
           b2 == b1 ++ Text(2, d.class_name)
           b3 == b2 ++ Text(2, d.correlation_id)
           k == d.class_name.length
           l == d.correlation_id.length
<1>1. /\ k \in 0..RG_MAX_STRING_SIZE
      /\ l \in 0..RG_MAX_STRING_SIZE
  BY StringsOf DEF IsData, IsString, Limit
<1>2. Writes(b1, 8, {})
  BY WritesNumber
<1>3. Writes(b2, 8 + (2 + k), {} \union {d.class_name})
  BY <1>1, <1>2, ThenString
<1>4. Writes(b3, 8 + (2 + k) + (2 + l), {} \union {d.class_name} \union {d.correlation_id})
  BY <1>1, <1>3, ThenString
<1>5. /\ Payload("EXCEPTION_THROWN_2", d) = b3
      /\ rg_encode_size("EXCEPTION_THROWN_2", d) = Short(rg_encode_exception_thrown_size(d))
  <2>1. Payload("EXCEPTION_THROWN_2", d) = b3
    BY DEF Payload, rg_encode_exception_thrown
  <2>2. rg_encode_size("EXCEPTION_THROWN_2", d) = Short(rg_encode_exception_thrown_size(d))
    BY DEF rg_encode_size
  <2> QED
    BY <2>1, <2>2
<1>6. /\ rg_encode_exception_thrown_size(d) = RG_MIN_PAYLOAD + (8 + (2 + k) + (2 + l))
      /\ 8 + (2 + k) + (2 + l) <= 32000
  <2>1. rg_encode_exception_thrown_size(d) = RG_MIN_PAYLOAD + 8 + 2 + k + 2 + l
    BY DEF rg_encode_exception_thrown_size
  <2> HIDE DEF k, l
  <2> QED
    BY <1>1, <2>1, Limits
<1>7. \A f \in Strings("EXCEPTION_THROWN_2") : d[f] \in {} \union {d.class_name} \union {d.correlation_id}
  BY StringsOf
<1> QED
  BY <1>4, <1>5, <1>6, <1>7, AgreesBy

LEMMA ProcessFrequencyAgrees ==
  ASSUME NEW d, IsData("PROCESS_FREQUENCY", d)
  PROVE  Agrees("PROCESS_FREQUENCY", d)
<1> DEFINE b1 == Number(8, d.frequency)
<1>1. Writes(b1, 8, {})
  BY WritesNumber
<1>2. /\ Payload("PROCESS_FREQUENCY", d) = b1
      /\ rg_encode_size("PROCESS_FREQUENCY", d) = Short(rg_encode_process_frequency_size(d))
  <2>1. Payload("PROCESS_FREQUENCY", d) = b1
    BY DEF Payload, rg_encode_process_frequency
  <2>2. rg_encode_size("PROCESS_FREQUENCY", d) = Short(rg_encode_process_frequency_size(d))
    BY DEF rg_encode_size
  <2> QED
    BY <2>1, <2>2
<1>3. /\ rg_encode_process_frequency_size(d) = RG_MIN_PAYLOAD + (8)
      /\ 8 <= 32000
  BY Limits DEF rg_encode_process_frequency_size
<1>4. \A f \in Strings("PROCESS_FREQUENCY") : d[f] \in {}
  BY StringsOf
<1> QED
  BY <1>1, <1>2, <1>3, <1>4, AgreesBy

LEMMA ProcessTypeAgrees ==
  ASSUME NEW d, IsData("PROCESS_TYPE", d)
  PROVE  Agrees("PROCESS_TYPE", d)
<1> DEFINE b1 == Text(2, d.technology_type)
           b2 == b1 ++ Text(2, d.process_type)
           k == d.technology_type.length
           l == d.process_type.length
<1>1. /\ k \in 0..RG_MAX_STRING_SIZE
      /\ l \in 0..RG_MAX_STRING_SIZE
  BY StringsOf DEF IsData, IsString, Limit
<1>2. Writes(b1, 2 + k, {d.technology_type})
  BY <1>1, WritesString
<1>3. Writes(b2, 2 + k + (2 + l), {d.technology_type} \union {d.process_type})
  BY <1>1, <1>2, ThenString
<1>4. /\ Payload("PROCESS_TYPE", d) = b2
      /\ rg_encode_size("PROCESS_TYPE", d) = Short(rg_encode_process_type_size(d))
  <2>1. Payload("PROCESS_TYPE", d) = b2
    BY DEF Payload, rg_encode_process_type
  <2>2. rg_encode_size("PROCESS_TYPE", d) = Short(rg_encode_process_type_size(d))
    BY DEF rg_encode_size
  <2> QED
    BY <2>1, <2>2
<1>5. /\ rg_encode_process_type_size(d) = RG_MIN_PAYLOAD + (2 + k + (2 + l))
      /\ 2 + k + (2 + l) <= 32000
  <2>1. rg_encode_process_type_size(d) = RG_MIN_PAYLOAD + 2 + k + 2 + l
    BY DEF rg_encode_process_type_size
  <2> HIDE DEF k, l
  <2> QED
    BY <1>1, <2>1, Limits
<1>6. \A f \in Strings("PROCESS_TYPE") : d[f] \in {d.technology_type} \union {d.process_type}
  BY StringsOf
<1> QED
  BY <1>3, <1>4, <1>5, <1>6, AgreesBy

LEMMA SqlAgrees ==
  ASSUME NEW d, IsData("SQL_INFORMATION", d)
  PROVE  Agrees("SQL_INFORMATION", d)
<1> DEFINE b1 == EncodedText(d.provider)
           b2 == b1 ++ EncodedText(d.host)
           b3 == b2 ++ EncodedText(d.database)
           b4 == b3 ++ EncodedText(d.query)
           b5 == b4 ++ Number(8, d.duration)
           k == d.provider.length
           l == d.host.length
           m == d.database.length
           n == d.query.length
<1>1. /\ k \in 0..RG_MAX_STRING_SIZE
      /\ l \in 0..RG_MAX_STRING_SIZE
      /\ m \in 0..RG_MAX_STRING_SIZE
      /\ n \in 0..RG_MAX_STRING_SIZE
  BY StringsOf DEF IsData, IsString, Limit
<1>2. Writes(b1, 1 + (2 + k), {d.provider})
  BY <1>1, WritesString
<1>3. Writes(b2, 1 + (2 + k) + (1 + (2 + l)), {d.provider} \union {d.host})
  BY <1>1, <1>2, ThenString
<1>4. Writes(b3, 1 + (2 + k) + (1 + (2 + l)) + (1 + (2 + m)), {d.provider} \union {d.host} \union {d.database})
  BY <1>1, <1>3, ThenString
<1>5. Writes(b4, 1 + (2 + k) + (1 + (2 + l)) + (1 + (2 + m)) + (1 + (2 + n)), {d.provider} \union {d.host} \union {d.database} \union {d.query})
  BY <1>1, <1>4, ThenString
<1>6. Writes(b5, 1 + (2 + k) + (1 + (2 + l)) + (1 + (2 + m)) + (1 + (2 + n)) + 8, {d.provider} \union {d.host} \union {d.database} \union {d.query})
  BY <1>5, ThenNumber
<1>7. /\ Payload("SQL_INFORMATION", d) = b5
      /\ rg_encode_size("SQL_INFORMATION", d) = Short(rg_encode_sql_size(d))
  <2>1. Payload("SQL_INFORMATION", d) = b5
    BY DEF Payload, rg_encode_sql
  <2>2. rg_encode_size("SQL_INFORMATION", d) = Short(rg_encode_sql_size(d))
    BY DEF rg_encode_size
  <2> QED
    BY <2>1, <2>2
<1>8. /\ rg_encode_sql_size(d) = RG_MIN_PAYLOAD + (1 + (2 + k) + (1 + (2 + l)) + (1 + (2 + m)) + (1 + (2 + n)) + 8)
      /\ 1 + (2 + k) + (1 + (2 + l)) + (1 + (2 + m)) + (1 + (2 + n)) + 8 <= 32000
  <2>1. rg_encode_sql_size(d) = RG_MIN_PAYLOAD + 1 + 2 + k + 1 + 2 + l + 1 + 2 + m + 1 + 2 + n + 8
    BY DEF rg_encode_sql_size
  <2> HIDE DEF k, l, m, n
  <2> QED
    BY <1>1, <2>1, Limits, SMTT(20)
<1>9. \A f \in Strings("SQL_INFORMATION") : d[f] \in {d.provider} \union {d.host} \union {d.database} \union {d.query}
  BY StringsOf
<1> QED
  BY <1>6, <1>7, <1>8, <1>9, AgreesBy

LEMMA HttpInAgrees ==
  ASSUME NEW d, IsData("HTTP_INCOMING_INFORMATION", d)
  PROVE  Agrees("HTTP_INCOMING_INFORMATION", d)
<1> DEFINE b1 == Text(2, d.url)
           b2 == b1 ++ Text(1, d.verb)
           b3 == b2 ++ Number(2, d.status)
           b4 == b3 ++ Number(8, d.duration)
           k == d.url.length
           l == d.verb.length
<1>1. /\ k \in 0..RG_MAX_STRING_SIZE
      /\ l \in 0..RG_MAX_SHORT_STRING_SIZE
  BY StringsOf DEF IsData, IsString, Limit
<1>2. Writes(b1, 2 + k, {d.url})
  BY <1>1, WritesString
<1>3. Writes(b2, 2 + k + (1 + l), {d.url} \union {d.verb})
  BY <1>1, <1>2, ThenShortString
<1>4. Writes(b3, 2 + k + (1 + l) + 2, {d.url} \union {d.verb})
  BY <1>3, ThenNumber
<1>5. Writes(b4, 2 + k + (1 + l) + 2 + 8, {d.url} \union {d.verb})
  BY <1>4, ThenNumber
<1>6. /\ Payload("HTTP_INCOMING_INFORMATION", d) = b4
      /\ rg_encode_size("HTTP_INCOMING_INFORMATION", d) = Short(rg_encode_http_in_size(d))
  <2>1. Payload("HTTP_INCOMING_INFORMATION", d) = b4
    BY DEF Payload, rg_encode_http_in
  <2>2. rg_encode_size("HTTP_INCOMING_INFORMATION", d) = Short(rg_encode_http_in_size(d))
    BY DEF rg_encode_size
  <2> QED
    BY <2>1, <2>2
<1>7. /\ rg_encode_http_in_size(d) = RG_MIN_PAYLOAD + (2 + k + (1 + l) + 2 + 8)
      /\ 2 + k + (1 + l) + 2 + 8 <= 32000
  <2>1. rg_encode_http_in_size(d) = RG_MIN_PAYLOAD + 2 + k + 1 + l + 2 + 8
    BY DEF rg_encode_http_in_size
  <2> HIDE DEF k, l
  <2> QED
    BY <1>1, <2>1, Limits
<1>8. \A f \in Strings("HTTP_INCOMING_INFORMATION") : d[f] \in {d.url} \union {d.verb}
  BY StringsOf
<1> QED
  BY <1>5, <1>6, <1>7, <1>8, AgreesBy

LEMMA HttpOutAgrees ==
  ASSUME NEW d, IsData("HTTP_OUTGOING_INFORMATION", d)
  PROVE  Agrees("HTTP_OUTGOING_INFORMATION", d)
<1> DEFINE b1 == Text(2, d.url)
           b2 == b1 ++ Text(1, d.verb)
           b3 == b2 ++ Number(2, d.status)
           b4 == b3 ++ Number(8, d.duration)
           k == d.url.length
           l == d.verb.length
<1>1. /\ k \in 0..RG_MAX_STRING_SIZE
      /\ l \in 0..RG_MAX_SHORT_STRING_SIZE
  BY StringsOf DEF IsData, IsString, Limit
<1>2. Writes(b1, 2 + k, {d.url})
  BY <1>1, WritesString
<1>3. Writes(b2, 2 + k + (1 + l), {d.url} \union {d.verb})
  BY <1>1, <1>2, ThenShortString
<1>4. Writes(b3, 2 + k + (1 + l) + 2, {d.url} \union {d.verb})
  BY <1>3, ThenNumber
<1>5. Writes(b4, 2 + k + (1 + l) + 2 + 8, {d.url} \union {d.verb})
  BY <1>4, ThenNumber
<1>6. /\ Payload("HTTP_OUTGOING_INFORMATION", d) = b4
      /\ rg_encode_size("HTTP_OUTGOING_INFORMATION", d) = Short(rg_encode_http_out_size(d))
  <2>1. Payload("HTTP_OUTGOING_INFORMATION", d) = b4
    BY DEF Payload, rg_encode_http_out
  <2>2. rg_encode_size("HTTP_OUTGOING_INFORMATION", d) = Short(rg_encode_http_out_size(d))
    BY DEF rg_encode_size
  <2> QED
    BY <2>1, <2>2
<1>7. /\ rg_encode_http_out_size(d) = RG_MIN_PAYLOAD + (2 + k + (1 + l) + 2 + 8)
      /\ 2 + k + (1 + l) + 2 + 8 <= 32000
  <2>1. rg_encode_http_out_size(d) = RG_MIN_PAYLOAD + 2 + k + 1 + l + 2 + 8
    BY DEF rg_encode_http_out_size
  <2> HIDE DEF k, l
  <2> QED
    BY <1>1, <2>1, Limits
<1>8. \A f \in Strings("HTTP_OUTGOING_INFORMATION") : d[f] \in {d.url} \union {d.verb}
  BY StringsOf
<1> QED
  BY <1>5, <1>6, <1>7, <1>8, AgreesBy

LEMMA BeginTransactionAgrees ==
  ASSUME NEW d, IsData("BEGIN_TRANSACTION", d)
  PROVE  Agrees("BEGIN_TRANSACTION", d)
<1> DEFINE b1 == Text(2, d.api_key)
           b2 == b1 ++ Text(2, d.technology_type)
           b3 == b2 ++ Text(2, d.process_type)
           k == d.api_key.length
           l == d.technology_type.length
           m == d.process_type.length
<1>1. /\ k \in 0..RG_MAX_STRING_SIZE
      /\ l \in 0..RG_MAX_STRING_SIZE
      /\ m \in 0..RG_MAX_STRING_SIZE
  BY StringsOf DEF IsData, IsString, Limit
<1>2. Writes(b1, 2 + k, {d.api_key})
  BY <1>1, WritesString
<1>3. Writes(b2, 2 + k + (2 + l), {d.api_key} \union {d.technology_type})
  BY <1>1, <1>2, ThenString
<1>4. Writes(b3, 2 + k + (2 + l) + (2 + m), {d.api_key} \union {d.technology_type} \union {d.process_type})
  BY <1>1, <1>3, ThenString
<1>5. /\ Payload("BEGIN_TRANSACTION", d) = b3
      /\ rg_encode_size("BEGIN_TRANSACTION", d) = Short(rg_encode_begin_transaction_size(d))
  <2>1. Payload("BEGIN_TRANSACTION", d) = b3
    BY DEF Payload, rg_encode_begin_transaction
  <2>2. rg_encode_size("BEGIN_TRANSACTION", d) = Short(rg_encode_begin_transaction_size(d))
    BY DEF rg_encode_size
  <2> QED
    BY <2>1, <2>2
<1>6. /\ rg_encode_begin_transaction_size(d) = RG_MIN_PAYLOAD + (2 + k + (2 + l) + (2 + m))
      /\ 2 + k + (2 + l) + (2 + m) <= 32000
  <2>1. rg_encode_begin_transaction_size(d) = RG_MIN_PAYLOAD + 2 + k + 2 + l + 2 + m
    BY DEF rg_encode_begin_transaction_size
  <2> HIDE DEF k, l, m
  <2> QED
    BY <1>1, <2>1, Limits
<1>7. \A f \in Strings("BEGIN_TRANSACTION") : d[f] \in {d.api_key} \union {d.technology_type} \union {d.process_type}
  BY StringsOf
<1> QED
  BY <1>4, <1>5, <1>6, <1>7, AgreesBy

LEMMA ThreadStartedAgrees ==
  ASSUME NEW d, IsData("THREAD_STARTED_2", d)
  PROVE  Agrees("THREAD_STARTED_2", d)
<1> DEFINE b1 == Number(4, d.parent_tid)
<1>1. Writes(b1, 4, {})
  BY WritesNumber
<1>2. /\ Payload("THREAD_STARTED_2", d) = b1
      /\ rg_encode_size("THREAD_STARTED_2", d) = Short(rg_encode_thread_started_size(d))
  <2>1. Payload("THREAD_STARTED_2", d) = b1
    BY DEF Payload, rg_encode_thread_started
  <2>2. rg_encode_size("THREAD_STARTED_2", d) = Short(rg_encode_thread_started_size(d))
    BY DEF rg_encode_size
  <2> QED
    BY <2>1, <2>2
<1>3. /\ rg_encode_thread_started_size(d) = RG_MIN_PAYLOAD + (4)
      /\ 4 <= 32000
  BY Limits DEF rg_encode_thread_started_size
<1>4. \A f \in Strings("THREAD_STARTED_2") : d[f] \in {}
  BY StringsOf
<1> QED
  BY <1>1, <1>2, <1>3, <1>4, AgreesBy

LEMMA EndAgrees ==
  ASSUME NEW d, IsData("END", d)
  PROVE  Agrees("END", d)
<1> DEFINE v1 == Number(2, VoidReturn.length)
           v2 == v1 ++ Number(1, RG_VT_VOID)
           v3 == v2 ++ Number(1, VoidReturn.name_length)
           b1 == Number(4, d.function_id)
           b2 == b1 ++ Number(1, d.tail_call)
<1>1. Writes(v1, 2, {})
  BY WritesNumber
<1>2. Writes(v2, 2 + 1, {})
  BY <1>1, ThenNumber
<1>3. Writes(v3, 2 + 1 + 1, {})
  BY <1>2, ThenNumber
<1>4. Writes(b1, 4, {})
  BY WritesNumber
<1>5. Writes(b2, 4 + 1, {})
  BY <1>4, ThenNumber
<1>6. Writes(b2 ++ v3, 4 + 1 + (2 + 1 + 1), {} \union {})
  BY <1>3, <1>5, WritesNext
<1>7. Payload("END", d) = b2 ++ v3
  BY DEF Payload, rg_encode_end, rg_encode_variableinfo
<1>8. rg_encode_size("END", d) = Short(rg_encode_end_size(d))
  BY DEF rg_encode_size
<1>9. /\ rg_encode_end_size(d) = RG_MIN_PAYLOAD + (4 + 1 + (2 + 1 + 1))
      /\ 4 + 1 + (2 + 1 + 1) <= 32000
  BY Limits DEF rg_encode_end_size, rg_encode_variableinfo_size, VoidReturn
<1>10. \A f \in Strings("END") : d[f] \in {} \union {}
  BY StringsOf
<1> QED
  BY <1>6, <1>7, <1>8, <1>9, <1>10, AgreesBy

LEMMA NothingAgrees ==
  ASSUME NEW type \in {"THREAD_ENDED", "PROCESS_ENDED", "END_TRANSACTION"}, NEW d
  PROVE  Agrees(type, d)
<1>1. Writes(Nothing, 0, {})
  BY DEF Nothing, Writes, Prefixed
<1>2. /\ Payload(type, d) = Nothing
      /\ rg_encode_size(type, d) = Short(RG_MIN_PAYLOAD)
  <2>1. CASE type = "THREAD_ENDED"
    BY <2>1 DEF Payload, rg_encode_size
  <2>2. CASE type = "PROCESS_ENDED"
    BY <2>2 DEF Payload, rg_encode_size
  <2>3. CASE type = "END_TRANSACTION"
    BY <2>3 DEF Payload, rg_encode_size
  <2> QED
    BY <2>1, <2>2, <2>3
<1>3. RG_MIN_PAYLOAD = RG_MIN_PAYLOAD + 0
  BY Limits
<1>4. \A f \in Strings(type) : d[f] \in {}
  BY StringsOf
<1> QED
  BY <1>1, <1>2, <1>3, <1>4, AgreesBy

LEMMA EveryTypeAgrees ==
  ASSUME NEW type \in EventTypes, NEW d, IsData(type, d)
  PROVE  Agrees(type, d)
<1>1. type \in {"BEGIN", "END", "METHODINFO_2", "EXCEPTION_THROWN_2", "PROCESS_FREQUENCY", "PROCESS_TYPE",
                "SQL_INFORMATION", "HTTP_INCOMING_INFORMATION", "HTTP_OUTGOING_INFORMATION",
                "BEGIN_TRANSACTION", "THREAD_STARTED_2"}
      \/ type \in {"THREAD_ENDED", "PROCESS_ENDED", "END_TRANSACTION"}
  BY DEF EventTypes, EventStruct
<1> QED
  BY <1>1, BeginAgrees, EndAgrees, MethodinfoAgrees, ExceptionThrownAgrees, ProcessFrequencyAgrees,
     ProcessTypeAgrees, SqlAgrees, HttpInAgrees, HttpOutAgrees, BeginTransactionAgrees,
     ThreadStartedAgrees, NothingAgrees
-----------------------------------------------------------------------------
(* The header and what follows it: the command as it is sent.              *)
LEMMA HeaderIs ==
  ASSUME NEW e
  PROVE  /\ Writes(rg_encode_header_impl(e), RG_MIN_PAYLOAD, {})
         /\ [at |-> 0, width |-> 2, kind |-> "number", value |-> e.length] \in rg_encode_header_impl(e).cells
<1> DEFINE b1 == Number(2, e.length)
           b2 == b1 ++ Number(1, RG_EVENT[e.type])
           b3 == b2 ++ Number(4, e.pid)
           b4 == b3 ++ Number(4, e.tid)
           b5 == b4 ++ Number(8, e.timestamp)
           first == [at |-> 0, width |-> 2, kind |-> "number", value |-> e.length]
<1>1. Writes(b1, 2, {})
  BY WritesNumber
<1>2. Writes(b2, 2 + 1, {})
  BY <1>1, ThenNumber
<1>3. Writes(b3, 2 + 1 + 4, {})
  BY <1>2, ThenNumber
<1>4. Writes(b4, 2 + 1 + 4 + 4, {})
  BY <1>3, ThenNumber
<1>5. Writes(b5, 2 + 1 + 4 + 4 + 8, {})
  BY <1>4, ThenNumber
<1>6. rg_encode_header_impl(e) = b5
  BY DEF rg_encode_header_impl
<1>7. 2 + 1 + 4 + 4 + 8 = RG_MIN_PAYLOAD
  BY Limits
<1>8. \A a, b : a.cells \subseteq (a ++ b).cells
  BY DEF ++
<1>9. first \in b1.cells
  BY DEF Number, Cell
<1> HIDE DEF first, b1
<1>10. first \in b5.cells
  BY <1>8, <1>9
<1> QED
  BY <1>5, <1>6, <1>7, <1>10 DEF first

LEMMA EncodedIs ==
  ASSUME NEW type \in EventTypes, NEW e, e.type = type, IsData(type, e.data)
  PROVE  LET u == rg_encode_header_impl(e) ++ Payload(type, e.data)
         IN  /\ Writes(u, rg_encode_size(type, e.data), {e.data[f] : f \in Strings(type)})
             /\ \E c \in u.cells : c.at = 0 /\ c.width = 2 /\ c.kind = "number" /\ c.value = e.length
             /\ rg_encode_size(type, e.data) \in Nat
             /\ RG_MIN_PAYLOAD <= rg_encode_size(type, e.data)
             /\ rg_encode_size(type, e.data) <= INT16_MAX
             /\ rg_encode_size(type, e.data) = Short(RG_MIN_PAYLOAD + Payload(type, e.data).length)
<1> DEFINE n == Payload(type, e.data).length
           S == {e.data[f] : f \in Strings(type)}
           h == rg_encode_header_impl(e)
           p == Payload(type, e.data)
           u == h ++ p
           first == [at |-> 0, width |-> 2, kind |-> "number", value |-> e.length]
<1>1. /\ Writes(p, n, S) /\ RG_MIN_PAYLOAD + n \in Nat /\ RG_MIN_PAYLOAD + n <= INT16_MAX
      /\ rg_encode_size(type, e.data) = RG_MIN_PAYLOAD + n
  BY EveryTypeAgrees DEF Agrees
<1>2. Writes(h, RG_MIN_PAYLOAD, {}) /\ first \in h.cells
  BY HeaderIs
<1>3. n \in Nat
  BY <1>1 DEF Writes
<1>4. first.at = 0 /\ first.width = 2 /\ first.kind = "number" /\ first.value = e.length
  OBVIOUS
<1> HIDE DEF n, S, h, p, first
<1>5. {} \union S = S
  OBVIOUS
<1>6. Writes(u, RG_MIN_PAYLOAD + n, S)
  BY <1>1, <1>2, <1>5, WritesNext
<1>7. first \in u.cells
  BY <1>2 DEF ++
<1>8. Short(RG_MIN_PAYLOAD + n) = RG_MIN_PAYLOAD + n
  BY <1>1, ShortIsExact
<1>9. RG_MIN_PAYLOAD <= RG_MIN_PAYLOAD + n
  BY <1>3, Limits
<1> QED
  BY <1>1, <1>4, <1>6, <1>7, <1>8, <1>9 DEF u, h, p, n, S
-----------------------------------------------------------------------------
(* An event object, and what it holds of one attribute.                    *)
IsEvent(e, type) ==
  /\ e = [length |-> e.length, type |-> type, pid |-> e.pid, tid |-> e.tid, timestamp |-> e.timestamp,
          data |-> e.data]
  /\ IsData(type, e.data)
  /\ e.length \in {0, rg_encode_size(type, e.data)}

Value(e, a) == IF a \in Header THEN e[a] ELSE e.data[a]

(* The cut of a string keeps within its limit.                             *)
LEMMA CopiedIs ==
  ASSUME NEW s, NEW val, val.length \in Nat \union {Nil}, NEW max \in Nat,
         s = [length |-> s.length, of |-> s.of]
  PROVE  LET c == Copied(s, val, max)
         IN  /\ c = [length |-> c.length, of |-> c.of] /\ c.length \in 0..max
             /\ (max # 0 => (c.length = 0 <=> val.length \in {Nil, 0}))
             /\ (c.length # 0 => c.of = val.of)
<1> DEFINE c == Copied(s, val, max)
<1>1. CASE val.length = Nil
  <2>1. c = [s EXCEPT !.length = 0]
    BY <1>1 DEF Copied
  <2>2. c.length = 0 /\ c.of = s.of /\ c = [length |-> 0, of |-> s.of]
    BY <2>1
  <2> QED
    BY <1>1, <2>2
<1>2. CASE val.length # Nil
  <2>1. val.length \in Nat
    BY <1>2
  <2>2. c = [length |-> CutTo(val.length, max), of |-> val.of]
    BY <1>2 DEF Copied
  <2>3. c.length = CutTo(val.length, max) /\ c.of = val.of
    BY <2>2
  <2>4. CutTo(val.length, max) \in 0..max /\ (max # 0 => (CutTo(val.length, max) = 0 <=> val.length = 0))
    BY <2>1 DEF CutTo
  <2> QED
    BY <1>2, <2>1, <2>2, <2>3, <2>4
<1> QED
  BY <1>1, <1>2

LEMMA SetHeader ==
  ASSUME NEW type, NEW e, IsEvent(e, type), NEW attr \in Header, NEW v
  PROVE  LET f == [e EXCEPT ![attr] = v]
         IN  /\ f = [length |-> e.length, type |-> type, pid |-> f.pid, tid |-> f.tid,
                     timestamp |-> f.timestamp, data |-> e.data]
             /\ f[attr] = v /\ \A a \in Header \ {attr} : f[a] = e[a]
<1> DEFINE f == [e EXCEPT ![attr] = v]
<1>1. e = [length |-> e.length, type |-> type, pid |-> e.pid, tid |-> e.tid, timestamp |-> e.timestamp,
           data |-> e.data]
  BY DEF IsEvent
<1>2. CASE attr = "pid"
  <2>1. f = [e EXCEPT !.pid = v]
    BY <1>2
  <2>2. f = [length |-> e.length, type |-> type, pid |-> v, tid |-> e.tid,
             timestamp |-> e.timestamp, data |-> e.data]
    BY <1>1, <2>1
  <2> HIDE DEF f
  <2>3. f.pid = v /\ f.tid = e.tid /\ f.timestamp = e.timestamp
    BY <2>2
  <2>4. f["pid"] = v /\ f["tid"] = e["tid"] /\ f["timestamp"] = e["timestamp"]
    BY <2>3
  <2>5. \A a \in Header \ {attr} : a = "tid" \/ a = "timestamp"
    BY <1>2 DEF Header
  <2>6. \A a \in Header \ {attr} : f[a] = e[a]
    BY <2>4, <2>5
  <2>7. f[attr] = v
    BY <1>2, <2>4
  <2>8. f = [length |-> e.length, type |-> type, pid |-> f.pid, tid |-> f.tid,
             timestamp |-> f.timestamp, data |-> e.data]
    BY <2>2, <2>3
  <2> QED
    BY <2>6, <2>7, <2>8 DEF f
<1>3. CASE attr = "tid"
  <2>1. f = [e EXCEPT !.tid = v]
    BY <1>3
  <2>2. f = [length |-> e.length, type |-> type, pid |-> e.pid, tid |-> v,
             timestamp |-> e.timestamp, data |-> e.data]
    BY <1>1, <2>1
  <2> HIDE DEF f
  <2>3. f.tid = v /\ f.pid = e.pid /\ f.timestamp = e.timestamp
    BY <2>2
  <2>4. f["tid"] = v /\ f["pid"] = e["pid"] /\ f["timestamp"] = e["timestamp"]
    BY <2>3
  <2>5. \A a \in Header \ {attr} : a = "pid" \/ a = "timestamp"
    BY <1>3 DEF Header
  <2>6. \A a \in Header \ {attr} : f[a] = e[a]
    BY <2>4, <2>5
  <2>7. f[attr] = v
    BY <1>3, <2>4
  <2>8. f = [length |-> e.length, type |-> type, pid |-> f.pid, tid |-> f.tid,
             timestamp |-> f.timestamp, data |-> e.data]
    BY <2>2, <2>3
  <2> QED
    BY <2>6, <2>7, <2>8 DEF f
<1>4. CASE attr = "timestamp"
  <2>1. f = [e EXCEPT !.timestamp = v]
    BY <1>4
  <2>2. f = [length |-> e.length, type |-> type, pid |-> e.pid, tid |-> e.tid,
             timestamp |-> v, data |-> e.data]
    BY <1>1, <2>1
  <2> HIDE DEF f
  <2>3. f.timestamp = v /\ f.pid = e.pid /\ f.tid = e.tid
    BY <2>2
  <2>4. f["timestamp"] = v /\ f["pid"] = e["pid"] /\ f["tid"] = e["tid"]
    BY <2>3
  <2>5. \A a \in Header \ {attr} : a = "pid" \/ a = "tid"
    BY <1>4 DEF Header
  <2>6. \A a \in Header \ {attr} : f[a] = e[a]
    BY <2>4, <2>5
  <2>7. f[attr] = v
    BY <1>4, <2>4
  <2>8. f = [length |-> e.length, type |-> type, pid |-> f.pid, tid |-> f.tid,
             timestamp |-> f.timestamp, data |-> e.data]
    BY <2>2, <2>3
  <2> QED
    BY <2>6, <2>7, <2>8 DEF f
<1> QED
  BY <1>2, <1>3, <1>4 DEF Header

WithData(e, attr, v) == [e EXCEPT !.data[attr] = v]

LEMMA SetData ==
  ASSUME NEW type, NEW e, IsEvent(e, type), NEW attr \in DOMAIN EventStruct[type], NEW v,
         attr \in Strings(type) => IsString(v, attr),
         NEW f, f = WithData(e, attr, v)
  PROVE  /\ f = [length |-> e.length, type |-> type, pid |-> e.pid, tid |-> e.tid,
                 timestamp |-> e.timestamp, data |-> f.data]
         /\ IsData(type, f.data)
         /\ f.data[attr] = v /\ \A a \in DOMAIN EventStruct[type] \ {attr} : f.data[a] = e.data[a]
<1> DEFINE D == DOMAIN EventStruct[type]
           g == [e.data EXCEPT ![attr] = v]
<1>1. e = [length |-> e.length, type |-> type, pid |-> e.pid, tid |-> e.tid, timestamp |-> e.timestamp,
           data |-> e.data]
  BY DEF IsEvent
<1>2. e.data = [a \in D |-> e.data[a]] /\ \A a \in Strings(type) : IsString(e.data[a], a)
  BY DEF IsEvent, IsData
<1>3. /\ g[attr] = v /\ \A a \in D \ {attr} : g[a] = e.data[a]
      /\ g = [a \in D |-> g[a]]
  BY <1>2
<1>4. Strings(type) \subseteq D
  BY DEF Strings
<1>5. IsData(type, g)
  BY <1>2, <1>3, <1>4 DEF IsData
<1> HIDE DEF g
<1>6. [e EXCEPT !.data = g] = [length |-> e.length, type |-> type, pid |-> e.pid, tid |-> e.tid,
                               timestamp |-> e.timestamp, data |-> g]
  BY <1>1
<1>7. f = [e EXCEPT !.data = g]
  BY DEF g, WithData
<1> QED
  BY <1>3, <1>5, <1>6, <1>7

(* Whatever is set, the length is computed of all that the event holds.    *)
LEMMA MeasuredIs ==
  ASSUME NEW type, NEW g, IsData(type, g.data),
         g = [length |-> g.length, type |-> type, pid |-> g.pid, tid |-> g.tid, timestamp |-> g.timestamp,
              data |-> g.data]
  PROVE  LET f == Measured(g)
         IN  /\ IsEvent(f, type) /\ f.length = rg_encode_size(type, f.data)
             /\ f.pid = g.pid /\ f.tid = g.tid /\ f.timestamp = g.timestamp /\ f.data = g.data
<1> DEFINE f == Measured(g)
           n == rg_encode_size(type, g.data)
<1>1. g.type = type
  OBVIOUS
<1>2. f = [g EXCEPT !.length = n]
  BY <1>1 DEF Measured
<1> HIDE DEF n, f
<1>3. f = [length |-> n, type |-> type, pid |-> g.pid, tid |-> g.tid, timestamp |-> g.timestamp,
           data |-> g.data]
  BY <1>2
<1>4. /\ f.length = n /\ f.pid = g.pid /\ f.tid = g.tid /\ f.timestamp = g.timestamp /\ f.data = g.data
  BY <1>3
<1>5. n = rg_encode_size(type, f.data)
  BY <1>4 DEF n
<1>6. f = [length |-> f.length, type |-> type, pid |-> f.pid, tid |-> f.tid, timestamp |-> f.timestamp,
           data |-> f.data]
  BY <1>3, <1>4
<1> QED
  BY <1>4, <1>5, <1>6 DEF IsEvent, f

Attributes(type) == Header \union DOMAIN EventStruct[type]
HookTypes == {"SQL_INFORMATION", "HTTP_OUTGOING_INFORMATION"}

LEMMA FieldsOf ==
  /\ DOMAIN EventStruct["SQL_INFORMATION"] = {"duration", "provider", "host", "database", "query"}
  /\ DOMAIN EventStruct["HTTP_OUTGOING_INFORMATION"] = {"status", "duration", "url", "verb"}
<1>1. DOMAIN EventStruct["SQL_INFORMATION"] = {"duration", "provider", "host", "database", "query"}
  BY DEF EventStruct, Struct
<1>2. DOMAIN EventStruct["HTTP_OUTGOING_INFORMATION"] = {"status", "duration", "url", "verb"}
  BY DEF EventStruct, Struct
<1> QED
  BY <1>1, <1>2

(* A value tells what was set: a number does, and a string but for its cut.*)
Tells(type, v, a, val) ==
  IF a \in Strings(type)
  THEN (v.length = 0 <=> val.length \in {Nil, 0}) /\ (v.length # 0 => v.of = val.of)
  ELSE v = val.of

LEMMA AsetIs ==
  ASSUME NEW type \in HookTypes, NEW e, IsEvent(e, type), NEW attr \in Attributes(type),
         NEW val, val.length \in Nat \union {Nil}
  PROVE  LET f == rb_rg_event_aset(e, attr, val)
         IN  /\ IsEvent(f, type) /\ f.length = rg_encode_size(type, f.data)
             /\ Tells(type, Value(f, attr), attr, val)
             /\ \A a \in Attributes(type) \ {attr} : Value(f, a) = Value(e, a)
<1> DEFINE f == rb_rg_event_aset(e, attr, val)
           D == DOMAIN EventStruct[type]
<1>1. /\ \A a \in D : a \notin Header
      /\ Strings(type) \subseteq D
      /\ e.type = type
  <2>1. e.type = type
    BY DEF IsEvent
  <2>2. \A a \in D : a \notin Header
    BY FieldsOf DEF HookTypes, Header
  <2> QED
    BY <2>1, <2>2 DEF Strings
<1>2. CASE attr \in Header
  <2> DEFINE g == [e EXCEPT ![attr] = val.of]
  <2>1. f = Measured(g)
    <3>1. attr \notin Strings(e.type) \ {"verb"} /\ attr # "verb"
      BY <1>1, <1>2 DEF Header
    <3> QED
      BY <1>2, <3>1 DEF rb_rg_event_aset
  <2>2. /\ g = [length |-> e.length, type |-> type, pid |-> g.pid, tid |-> g.tid,
                timestamp |-> g.timestamp, data |-> e.data]
        /\ g[attr] = val.of /\ \A a \in Header \ {attr} : g[a] = e[a]
    BY <1>2, SetHeader
  <2> HIDE DEF g, f
  <2>3. g.data = e.data /\ g.length = e.length
    BY <2>2
  <2>4. IsData(type, g.data)
    BY <2>3 DEF IsEvent
  <2>5. /\ IsEvent(f, type) /\ f.length = rg_encode_size(type, f.data)
        /\ f.pid = g.pid /\ f.tid = g.tid /\ f.timestamp = g.timestamp /\ f.data = g.data
    BY <2>1, <2>2, <2>3, <2>4, MeasuredIs
  <2>6. \A a \in Header : f[a] = g[a]
    BY <2>5 DEF Header
  <2>7. Tells(type, Value(f, attr), attr, val)
    BY <1>1, <1>2, <2>2, <2>6 DEF Tells, Value
  <2>8. \A a \in Attributes(type) \ {attr} : Value(f, a) = Value(e, a)
    BY <2>2, <2>3, <2>5, <2>6 DEF Value, Attributes
  <2> QED
    BY <2>5, <2>7, <2>8 DEF f
<1>3. ASSUME NEW v, f = Measured(WithData(e, attr, v)), attr \in D,
             attr \in Strings(type) => IsString(v, attr), Tells(type, v, attr, val)
      PROVE  /\ IsEvent(f, type) /\ f.length = rg_encode_size(type, f.data)
             /\ Tells(type, Value(f, attr), attr, val)
             /\ \A a \in Attributes(type) \ {attr} : Value(f, a) = Value(e, a)
  <2> DEFINE g == WithData(e, attr, v)
  <2>1. f = Measured(g) /\ attr \in D /\ (attr \in Strings(type) => IsString(v, attr))
    BY <1>3
  <2>0. g = WithData(e, attr, v)
    OBVIOUS
  <2> HIDE DEF f, g
  <2>2. /\ g = [length |-> e.length, type |-> type, pid |-> e.pid, tid |-> e.tid,
                timestamp |-> e.timestamp, data |-> g.data]
        /\ IsData(type, g.data)
        /\ g.data[attr] = v /\ \A a \in D \ {attr} : g.data[a] = e.data[a]
    BY <2>0, <2>1, SetData
  <2>3. g.pid = e.pid /\ g.tid = e.tid /\ g.timestamp = e.timestamp /\ g.length = e.length
    BY <2>2
  <2>4. /\ IsEvent(f, type) /\ f.length = rg_encode_size(type, f.data)
        /\ f.pid = g.pid /\ f.tid = g.tid /\ f.timestamp = g.timestamp /\ f.data = g.data
    BY <2>1, <2>2, <2>3, MeasuredIs
  <2>5. \A a \in Header : f[a] = e[a]
    BY <2>3, <2>4 DEF Header
  <2>6. Value(f, attr) = v
    BY <1>1, <1>3, <2>2, <2>4 DEF Value
  <2>7. \A a \in Attributes(type) \ {attr} : Value(f, a) = Value(e, a)
    BY <1>1, <2>2, <2>4, <2>5 DEF Value, Attributes
  <2> QED
    BY <1>3, <2>4, <2>6, <2>7
<1>4. ASSUME attr \in Strings(type)
      PROVE  /\ e.data[attr] = [length |-> e.data[attr].length, of |-> e.data[attr].of]
             /\ attr \in D /\ attr \notin Header
  BY <1>1, <1>4 DEF IsEvent, IsData, IsString
<1>5. CASE attr = "verb"
  <2> DEFINE v == rb_rg_encode_short_string(e.data[attr], val)
  <2>1. attr \in Strings(type)
    BY <1>5, StringsOf, FieldsOf DEF HookTypes, Attributes, Header
  <2>2. f = Measured(WithData(e, attr, v))
    BY <1>4, <1>5, <2>1 DEF rb_rg_event_aset, WithData
  <2>3. /\ v = [length |-> v.length, of |-> v.of] /\ v.length \in 0..RG_MAX_SHORT_STRING_SIZE
        /\ v.length = 0 <=> val.length \in {Nil, 0}
        /\ v.length # 0 => v.of = val.of
    BY <1>4, <2>1, CopiedIs, Limits DEF rb_rg_encode_short_string
  <2>4. IsString(v, attr) /\ Tells(type, v, attr, val)
    BY <1>5, <2>1, <2>3 DEF IsString, Limit, Tells
  <2> HIDE DEF v, f
  <2> QED
    BY <1>3, <1>4, <2>1, <2>2, <2>4 DEF f
<1>6. CASE attr \in Strings(type) \ {"verb"}
  <2> DEFINE v == rb_rg_encode_string(e.data[attr], val)
  <2>1. attr \in Strings(type)
    BY <1>6
  <2>2. f = Measured(WithData(e, attr, v))
    BY <1>1, <1>4, <1>6 DEF rb_rg_event_aset, WithData
  <2>3. /\ v = [length |-> v.length, of |-> v.of] /\ v.length \in 0..RG_MAX_STRING_SIZE
        /\ v.length = 0 <=> val.length \in {Nil, 0}
        /\ v.length # 0 => v.of = val.of
    <3>1. RG_MAX_STRING_SIZE \in Nat /\ RG_MAX_STRING_SIZE # 0
      BY Limits
    <3> QED
      BY <1>4, <2>1, <3>1, CopiedIs DEF rb_rg_encode_string
  <2>4. IsString(v, attr) /\ Tells(type, v, attr, val)
    BY <1>6, <2>1, <2>3 DEF IsString, Limit, Tells
  <2> HIDE DEF v, f
  <2> QED
    BY <1>3, <1>4, <2>1, <2>2, <2>4 DEF f
<1>7. CASE attr \notin Header /\ attr # "verb" /\ attr \notin Strings(type)
  <2> DEFINE v == val.of
  <2>1. attr \in D
    BY <1>7 DEF Attributes
  <2>2. f = Measured(WithData(e, attr, v))
    BY <1>1, <1>7 DEF rb_rg_event_aset, WithData
  <2>3. Tells(type, v, attr, val)
    BY <1>7 DEF Tells
  <2> HIDE DEF v, f
  <2> QED
    BY <1>3, <1>7, <2>1, <2>2, <2>3 DEF f
<1> QED
  BY <1>2, <1>5, <1>6, <1>7
-----------------------------------------------------------------------------
(* The hooks set every attribute that the event has, and each of them once.*)
LEMMA StatementsAre ==
  ASSUME NEW c \in Clients
  PROVE  LET s == Statements(c)
             A == Attributes(EventType[c])
         IN  /\ EventType[c] \in HookTypes
             /\ DOMAIN s = 1..Len(s) /\ Len(s) \in Nat /\ Len(s) > 1
             /\ \A i \in DOMAIN s : s[i] \in A
             /\ \A i, j \in DOMAIN s : s[i] = s[j] => i = j
             /\ \A a \in A : \E i \in DOMAIN s : s[i] = a
<1>1. EventType[c] \in HookTypes
  BY EventsAssumption DEF HookTypes
<1>2. CASE EventType[c] = "SQL_INFORMATION"
  <2> DEFINE s == SqlStatements
             A == {"pid", "tid", "timestamp", "duration", "provider", "host", "database", "query"}
  <2>1. Statements(c) = s /\ Attributes(EventType[c]) = A
    <3>1. Statements(c) = s
      BY <1>2 DEF Statements
    <3>2. Attributes(EventType[c]) = A
      BY <1>2, FieldsOf DEF Attributes, Header
    <3> QED
      BY <3>1, <3>2
  <2>2. /\ Len(s) = 8 /\ DOMAIN s = 1..8
        /\ s[1] = "pid" /\ s[2] = "query" /\ s[3] = "provider" /\ s[4] = "host" /\ s[5] = "database"
        /\ s[6] = "duration" /\ s[7] = "timestamp" /\ s[8] = "tid"
    BY DEF SqlStatements
  <2> HIDE DEF s
  <2>3. 1..8 = {1, 2, 3, 4, 5, 6, 7, 8}
    OBVIOUS
  <2>4. \A i \in DOMAIN s : s[i] \in A
    BY <2>2, <2>3
  <2>5. \A i, j \in DOMAIN s : s[i] = s[j] => i = j
    BY <2>2, <2>3
  <2>6. \A a \in A : \E i \in DOMAIN s : s[i] = a
    <3> SUFFICES ASSUME NEW a \in A PROVE \E i \in {1, 2, 3, 4, 5, 6, 7, 8} : s[i] = a
      BY <2>2, <2>3
    <3> QED
      BY <2>2
  <2> QED
    BY <1>1, <2>1, <2>2, <2>4, <2>5, <2>6
<1>3. CASE EventType[c] = "HTTP_OUTGOING_INFORMATION"
  <2> DEFINE s == HttpStatements
             A == {"pid", "tid", "timestamp", "status", "duration", "url", "verb"}
  <2>1. Statements(c) = s /\ Attributes(EventType[c]) = A
    <3>1. Statements(c) = s
      BY <1>3 DEF Statements
    <3>2. Attributes(EventType[c]) = A
      BY <1>3, FieldsOf DEF Attributes, Header
    <3> QED
      BY <3>1, <3>2
  <2>2. /\ Len(s) = 7 /\ DOMAIN s = 1..7
        /\ s[1] = "pid" /\ s[2] = "url" /\ s[3] = "verb" /\ s[4] = "status" /\ s[5] = "duration"
        /\ s[6] = "timestamp" /\ s[7] = "tid"
    BY DEF HttpStatements
  <2> HIDE DEF s
  <2>3. 1..7 = {1, 2, 3, 4, 5, 6, 7}
    OBVIOUS
  <2>4. \A i \in DOMAIN s : s[i] \in A
    BY <2>2, <2>3
  <2>5. \A i, j \in DOMAIN s : s[i] = s[j] => i = j
    BY <2>2, <2>3
  <2>6. \A a \in A : \E i \in DOMAIN s : s[i] = a
    <3> SUFFICES ASSUME NEW a \in A PROVE \E i \in {1, 2, 3, 4, 5, 6, 7} : s[i] = a
      BY <2>2, <2>3
    <3> QED
      BY <2>2
  <2> QED
    BY <1>1, <2>1, <2>2, <2>4, <2>5, <2>6
<1> QED
  BY <1>1, <1>2, <1>3 DEF HookTypes
-----------------------------------------------------------------------------
(* Every client has an event of its type once a hook uses it, measured     *)
(* once a hook has set something.                                          *)
EventsTyped ==
  /\ events = [c \in Clients |-> events[c]]
  /\ hook \in [Threads -> [at : Nat, call : Nat, length : Nat \union {Nil}]]
  /\ calls \in Nat
  /\ \A c \in Clients : events[c] = NoEventYet \/ IsEvent(events[c], EventType[c])
  /\ \A t \in Threads :
       /\ hook[t].at # 0 => IsEvent(events[Uses[t]], EventType[Uses[t]])
       /\ hook[t].at > 1 => events[Uses[t]].length # 0

(* What the hook of a thread that has its client to itself has set so far  *)
(* is still what the event holds.                                          *)
ToldSoFar ==
  \A t \in Threads : \A i \in DOMAIN Statements(Uses[t]) :
    ~Shared(Uses[t]) /\ i < hook[t].at =>
      LET a == Statements(Uses[t])[i]
      IN  Tells(EventType[Uses[t]], Value(events[Uses[t]], a), a,
                [length |-> hook[t].length, of |-> hook[t].call])

(* A command is the encoding of an event that was measured.                *)
CommandsAreEvents ==
  \A m \in Commands :
    /\ m.event.type \in EventTypes /\ IsData(m.event.type, m.event.data)
    /\ m.size = rg_encode_size(m.event.type, m.event.data) /\ m.event.length = m.size
    /\ m.bytes = rg_encode_header_impl(m.event) ++ Payload(m.event.type, m.event.data)

IInv == EventsTyped /\ ToldSoFar /\ CommandsAreEvents /\ CommandsTellOneCall

LEMMA NoCommandsLeft ==
  ASSUME command' = NoCommand
  PROVE  CommandsAreEvents' /\ CommandsTellOneCall'
<1>1. Commands' = {}
  BY DEF Commands
<1> QED
  BY <1>1 DEF CommandsAreEvents, CommandsTellOneCall

LEMMA TypesOfClients ==
  ASSUME NEW t \in Threads
  PROVE  Uses[t] \in Clients /\ EventType[Uses[t]] \in HookTypes /\ HookTypes \subseteq EventTypes
<1>1. HookTypes \subseteq EventTypes
  BY DEF HookTypes, EventTypes, EventStruct
<1> QED
  BY <1>1, EventsAssumption DEF HookTypes

LEMMA InitEstablishes ==
  ASSUME Init PROVE IInv
<1>1. command = NoCommand /\ Commands = {}
  BY DEF Init, Commands
<1>2. \A t \in Threads : hook[t].at = 0
  BY DEF Init, NotInHook
<1>3. EventsTyped
  BY <1>2 DEF Init, EventsTyped, NotInHook
<1>4. ToldSoFar
  <2> SUFFICES ASSUME NEW t \in Threads, NEW i \in DOMAIN Statements(Uses[t]) PROVE ~(i < hook[t].at)
    BY DEF ToldSoFar
  <2>1. i \in 1..Len(Statements(Uses[t])) /\ Len(Statements(Uses[t])) \in Nat
    BY TypesOfClients, StatementsAre
  <2> QED
    BY <1>2, <2>1
<1> QED
  BY <1>1, <1>3, <1>4 DEF IInv, CommandsAreEvents, CommandsTellOneCall

(* A client that is not shared is used by one thread.                      *)
LEMMA OneThread ==
  ASSUME NEW t \in Threads, NEW u \in Threads, u # t, ~Shared(Uses[u])
  PROVE  Uses[u] # Uses[t]
BY DEF Shared

LEMMA AllocIs ==
  ASSUME NEW type \in HookTypes
  PROVE  IsEvent(rb_rg_event_alloc(type), type)
<1> DEFINE e == rb_rg_event_alloc(type)
<1>1. e = [length |-> 0, type |-> type, pid |-> 0, tid |-> 0, timestamp |-> 0, data |-> EventStruct[type]]
  BY DEF rb_rg_event_alloc
<1>2. \A f \in Strings(type) : EventStruct[type][f] = EmptyString
  <2>1. CASE type = "SQL_INFORMATION"
    BY <2>1, StringsOf DEF EventStruct, Struct
  <2>2. CASE type = "HTTP_OUTGOING_INFORMATION"
    BY <2>2, StringsOf DEF EventStruct, Struct
  <2> QED
    BY <2>1, <2>2 DEF HookTypes
<1>3. EventStruct[type] = [f \in DOMAIN EventStruct[type] |-> EventStruct[type][f]]
  <2>1. CASE type = "SQL_INFORMATION"
    BY <2>1 DEF EventStruct, Struct
  <2>2. CASE type = "HTTP_OUTGOING_INFORMATION"
    BY <2>2 DEF EventStruct, Struct
  <2> QED
    BY <2>1, <2>2 DEF HookTypes
<1>4. \A f : IsString(EmptyString, f)
  <2>1. EmptyString.length = 0 /\ EmptyString.of = 0
    BY DEF EmptyString
  <2>2. \A f : Limit(f) \in Nat
    BY Limits DEF Limit
  <2> QED
    BY <2>1, <2>2 DEF IsString, EmptyString
<1>5. IsData(type, EventStruct[type])
  BY <1>2, <1>3, <1>4 DEF IsData
<1> HIDE DEF e
<1>6. e.length = 0 /\ e.pid = 0 /\ e.tid = 0 /\ e.timestamp = 0 /\ e.data = EventStruct[type]
  BY <1>1
<1> QED
  BY <1>1, <1>5, <1>6 DEF IsEvent, e

LEMMA RespondsKeeps ==
  ASSUME IInv, NEW t \in Threads, NEW n \in Lengths, Responds(t, n) PROVE IInv'
<1> DEFINE c == Uses[t]
           new == IF events[c] = NoEventYet THEN rb_rg_event_alloc(EventType[c]) ELSE events[c]
           h == [at |-> 1, call |-> calls + 1, length |-> n]
<1>1. /\ hook[t] = NotInHook /\ calls' = calls + 1 /\ command' = NoCommand
      /\ hook' = [hook EXCEPT ![t] = h] /\ events' = [events EXCEPT ![c] = new]
  BY DEF Responds
<1>2. c \in Clients /\ EventType[c] \in HookTypes
  BY TypesOfClients
<1>3. /\ events = [d \in Clients |-> events[d]]
      /\ hook \in [Threads -> [at : Nat, call : Nat, length : Nat \union {Nil}]] /\ calls \in Nat
  BY DEF IInv, EventsTyped
<1>4. h \in [at : Nat, call : Nat, length : Nat \union {Nil}] /\ h.at = 1
  BY <1>3, EventsAssumption
<1>5. IsEvent(new, EventType[c])
  BY <1>2, AllocIs DEF IInv, EventsTyped
<1>6. ASSUME NEW u \in Threads, hook[u].at # 0 PROVE events[Uses[u]] # NoEventYet
  <2>1. IsEvent(events[Uses[u]], EventType[Uses[u]])
    BY <1>6 DEF IInv, EventsTyped
  <2>2. events[Uses[u]].type = EventType[Uses[u]]
    BY <2>1 DEF IsEvent
  <2>3. events[Uses[u]].type # "none"
    BY <2>2, TypesOfClients DEF HookTypes
  <2> QED
    BY <2>3 DEF NoEventYet
<1> HIDE DEF new, h
<1>7. /\ events'[c] = new /\ \A d \in Clients : d # c => events'[d] = events[d]
      /\ events' = [d \in Clients |-> events'[d]]
  BY <1>1, <1>2, <1>3
<1>8. hook'[t] = h /\ \A u \in Threads : u # t => hook'[u] = hook[u]
  BY <1>1, <1>3
<1>9. ASSUME NEW u \in Threads, hook[u].at # 0
      PROVE  u # t /\ hook'[u] = hook[u] /\ events'[Uses[u]] = events[Uses[u]]
  <2>1. u # t
    BY <1>1, <1>9 DEF NotInHook
  <2>2. Uses[u] \in Clients
    BY TypesOfClients
  <2>3. Uses[u] = c => new = events[c]
    BY <1>6, <1>9 DEF new
  <2> QED
    BY <1>7, <1>8, <2>1, <2>2, <2>3
<1>10. EventsTyped'
  <2>1. hook' \in [Threads -> [at : Nat, call : Nat, length : Nat \union {Nil}]] /\ calls' \in Nat
    BY <1>1, <1>3, <1>4
  <2>2. \A d \in Clients : events'[d] = NoEventYet \/ IsEvent(events'[d], EventType[d])
    BY <1>5, <1>7 DEF IInv, EventsTyped
  <2>3. ASSUME NEW u \in Threads
        PROVE  /\ hook'[u].at # 0 => IsEvent(events'[Uses[u]], EventType[Uses[u]])
               /\ hook'[u].at > 1 => events'[Uses[u]].length # 0
    <3>1. CASE u = t
      BY <1>4, <1>5, <1>7, <1>8, <3>1
    <3>2. CASE u # t /\ hook[u].at = 0
      BY <1>8, <3>2
    <3>3. CASE u # t /\ hook[u].at # 0
      BY <1>9, <3>3 DEF IInv, EventsTyped
    <3> QED
      BY <3>1, <3>2, <3>3
  <2> QED
    BY <1>7, <2>1, <2>2, <2>3 DEF EventsTyped
<1>11. ToldSoFar'
  <2> SUFFICES ASSUME NEW u \in Threads, NEW i \in DOMAIN Statements(Uses[u]),
                      ~Shared(Uses[u]), i < hook'[u].at
               PROVE  LET a == Statements(Uses[u])[i]
                      IN  Tells(EventType[Uses[u]], Value(events'[Uses[u]], a), a,
                                [length |-> hook'[u].length, of |-> hook'[u].call])
    BY DEF ToldSoFar
  <2>1. i \in 1..Len(Statements(Uses[u])) /\ Len(Statements(Uses[u])) \in Nat
    BY TypesOfClients, StatementsAre
  <2>2. u # t
    BY <1>4, <1>8, <2>1
  <2>3. hook[u].at # 0 /\ hook'[u] = hook[u]
    BY <1>8, <2>1, <2>2
  <2>4. events'[Uses[u]] = events[Uses[u]]
    BY <1>9, <2>3
  <2> QED
    BY <2>3, <2>4 DEF IInv, ToldSoFar
<1> QED
  BY <1>1, <1>10, <1>11, NoCommandsLeft DEF IInv

LEMMA SetAttributeKeeps ==
  ASSUME IInv, NEW t \in Threads, SetAttribute(t) PROVE IInv'
<1> DEFINE c == Uses[t]
           k == hook[t].at
           attr == Statements(c)[k]
           val == [length |-> hook[t].length, of |-> hook[t].call]
           new == rb_rg_event_aset(events[c], attr, val)
           type == EventType[c]
<1>1. /\ k \in DOMAIN Statements(c) /\ calls' = calls /\ command' = NoCommand
      /\ hook' = [hook EXCEPT ![t].at = k + 1] /\ events' = [events EXCEPT ![c] = new]
  BY DEF SetAttribute
<1>2. c \in Clients /\ type \in HookTypes /\ HookTypes \subseteq EventTypes
  BY TypesOfClients
<1>3. /\ events = [d \in Clients |-> events[d]]
      /\ hook \in [Threads -> [at : Nat, call : Nat, length : Nat \union {Nil}]] /\ calls \in Nat
  BY DEF IInv, EventsTyped
<1>4. /\ DOMAIN Statements(c) = 1..Len(Statements(c)) /\ Len(Statements(c)) \in Nat
      /\ \A i \in DOMAIN Statements(c) : Statements(c)[i] \in Attributes(type)
      /\ \A i, j \in DOMAIN Statements(c) : Statements(c)[i] = Statements(c)[j] => i = j
  BY <1>2, StatementsAre
<1>5. k \in Nat /\ k # 0 /\ attr \in Attributes(type) /\ val.length \in Nat \union {Nil}
  BY <1>1, <1>3, <1>4
<1>6. IsEvent(events[c], type)
  BY <1>5 DEF IInv, EventsTyped
<1>7. /\ IsEvent(new, type) /\ new.length = rg_encode_size(type, new.data)
      /\ Tells(type, Value(new, attr), attr, val)
      /\ \A a \in Attributes(type) \ {attr} : Value(new, a) = Value(events[c], a)
  BY <1>2, <1>5, <1>6, AsetIs
<1>8. new.length # 0
  <2>1. new.type = type /\ IsData(type, new.data)
    <3>1. IsEvent(new, type)
      BY ONLY <1>7
    <3> QED BY ONLY <3>1 DEF IsEvent
  <2>2. rg_encode_size(type, new.data) \in Nat /\ RG_MIN_PAYLOAD <= rg_encode_size(type, new.data)
    BY <1>2, <2>1, EncodedIs
  <2> QED
    BY <1>7, <2>2, Limits
<1> HIDE DEF new, val
<1>9. /\ events'[c] = new /\ \A d \in Clients : d # c => events'[d] = events[d]
      /\ events' = [d \in Clients |-> events'[d]]
  BY <1>1, <1>2, <1>3
<1>10. /\ hook'[t] = [hook[t] EXCEPT !.at = k + 1] /\ \A u \in Threads : u # t => hook'[u] = hook[u]
  BY <1>1, <1>3
<1>11. /\ hook'[t].at = k + 1 /\ hook'[t].call = hook[t].call /\ hook'[t].length = hook[t].length
       /\ hook'[t] \in [at : Nat, call : Nat, length : Nat \union {Nil}]
  <2>1. hook[t] \in [at : Nat, call : Nat, length : Nat \union {Nil}] /\ k + 1 \in Nat
    BY <1>3
  <2> HIDE DEF k
  <2> QED
    BY <1>10, <2>1
<1>12. EventsTyped'
  <2>1. hook' \in [Threads -> [at : Nat, call : Nat, length : Nat \union {Nil}]] /\ calls' \in Nat
    <3>1. hook' = [u \in Threads |-> hook'[u]]
      BY <1>1, <1>3
    <3>2. \A u \in Threads : hook'[u] \in [at : Nat, call : Nat, length : Nat \union {Nil}]
      BY <1>3, <1>10, <1>11
    <3> QED
      BY <1>1, <1>3, <3>1, <3>2
  <2>2. \A d \in Clients : events'[d] = NoEventYet \/ IsEvent(events'[d], EventType[d])
    BY <1>7, <1>9 DEF IInv, EventsTyped
  <2>3. ASSUME NEW u \in Threads
        PROVE  /\ hook'[u].at # 0 => IsEvent(events'[Uses[u]], EventType[Uses[u]])
               /\ hook'[u].at > 1 => events'[Uses[u]].length # 0
    <3>1. CASE Uses[u] = c
      BY <1>7, <1>8, <1>9, <3>1
    <3>2. CASE Uses[u] # c
      <4>1. hook'[u] = hook[u] /\ events'[Uses[u]] = events[Uses[u]]
        BY <1>9, <1>10, <3>2, TypesOfClients
      <4> QED
        BY <4>1 DEF IInv, EventsTyped
    <3> QED
      BY <3>1, <3>2
  <2> QED
    BY <1>9, <2>1, <2>2, <2>3 DEF EventsTyped
<1>13. ToldSoFar'
  <2> SUFFICES ASSUME NEW u \in Threads, NEW i \in DOMAIN Statements(Uses[u]),
                      ~Shared(Uses[u]), i < hook'[u].at
               PROVE  LET a == Statements(Uses[u])[i]
                      IN  Tells(EventType[Uses[u]], Value(events'[Uses[u]], a), a,
                                [length |-> hook'[u].length, of |-> hook'[u].call])
    BY DEF ToldSoFar
  <2>1. CASE u # t
    <3>1. Uses[u] # c
      BY <2>1, OneThread
    <3>2. hook'[u] = hook[u] /\ events'[Uses[u]] = events[Uses[u]]
      BY <1>9, <1>10, <2>1, <3>1, TypesOfClients
    <3> QED
      BY <3>2 DEF IInv, ToldSoFar
  <2>2. CASE u = t /\ i = k
    BY <1>7, <1>9, <1>11, <2>2 DEF val
  <2>3. CASE u = t /\ i # k
    <3>1. i \in DOMAIN Statements(c) /\ i < k /\ ~Shared(c)
      BY <1>4, <1>5, <1>11, <2>3
    <3>2. Statements(c)[i] \in Attributes(type) \ {attr}
      BY <1>1, <1>4, <2>3, <3>1
    <3>3. Value(events'[c], Statements(c)[i]) = Value(events[c], Statements(c)[i])
      BY <1>7, <1>9, <3>2
    <3>4. Tells(type, Value(events[c], Statements(c)[i]), Statements(c)[i],
                [length |-> hook[t].length, of |-> hook[t].call])
      BY <3>1 DEF IInv, ToldSoFar
    <3> QED
      BY <1>11, <2>3, <3>3, <3>4
  <2> QED
    BY <2>1, <2>2, <2>3
<1> QED
  BY <1>1, <1>12, <1>13, NoCommandsLeft DEF IInv

LEMMA EmitEventKeeps ==
  ASSUME IInv, NEW t \in Threads, EmitEvent(t) PROVE IInv'
<1> DEFINE c == Uses[t]
           e == events[c]
           type == EventType[c]
           s == Statements(c)
           val == [length |-> hook[t].length, of |-> hook[t].call]
           m == [bytes |-> rb_rg_event_encoded(e), size |-> e.length, event |-> e, by |-> t, made |-> hook[t]]
<1>1. /\ hook[t].at = Len(s) + 1 /\ command' = m
      /\ hook' = [hook EXCEPT ![t] = NotInHook] /\ UNCHANGED <<events, calls>>
  BY DEF EmitEvent
<1>2. c \in Clients /\ type \in HookTypes /\ type \in EventTypes
  BY TypesOfClients
<1>3. /\ events = [d \in Clients |-> events[d]]
      /\ hook \in [Threads -> [at : Nat, call : Nat, length : Nat \union {Nil}]] /\ calls \in Nat
  BY DEF IInv, EventsTyped
<1>4. /\ DOMAIN s = 1..Len(s) /\ Len(s) \in Nat /\ Len(s) > 1
      /\ \A a \in Attributes(type) : \E i \in DOMAIN s : s[i] = a
  BY <1>2, StatementsAre
<1>5. hook[t].at > 1 /\ hook[t].at # 0
  BY <1>1, <1>4
<1>6. IsEvent(e, type) /\ e.length # 0
  BY <1>5 DEF IInv, EventsTyped
<1>7. e.type = type /\ IsData(type, e.data) /\ e.length = rg_encode_size(type, e.data)
  BY <1>6 DEF IsEvent
<1>8. /\ m.bytes = rb_rg_event_encoded(e) /\ m.size = e.length /\ m.event = e /\ m.by = t
      /\ m.made = hook[t]
  OBVIOUS
<1> HIDE DEF m, s
<1>9. \A x \in Commands' : x = m
  BY <1>1 DEF Commands
<1>10. CommandsAreEvents'
  <2>1. m.bytes = rg_encode_header_impl(m.event) ++ Payload(m.event.type, m.event.data)
    BY <1>7, <1>8 DEF rb_rg_event_encoded
  <2> QED
    BY <1>2, <1>7, <1>8, <1>9, <2>1 DEF CommandsAreEvents
<1>11. CommandsTellOneCall'
  <2> SUFFICES ASSUME ~Shared(c)
               PROVE  /\ \A f \in Header : e[f] = hook[t].call
                      /\ \A f \in DOMAIN e.data :
                           IF f \notin Strings(type) THEN e.data[f] = hook[t].call
                           ELSE /\ e.data[f].length = 0 <=> hook[t].length \in {Nil, 0}
                                /\ e.data[f].length # 0 => e.data[f].of = hook[t].call
    BY <1>7, <1>8, <1>9 DEF CommandsTellOneCall
  <2>1. ASSUME NEW a \in Attributes(type) PROVE Tells(type, Value(e, a), a, val)
    <3>1. PICK i \in DOMAIN s : s[i] = a
      BY <1>4
    <3>2. i \in DOMAIN s /\ i < hook[t].at
      BY <1>1, <1>4
    <3> QED
      BY <3>1, <3>2 DEF IInv, ToldSoFar, s
  <2>2. /\ DOMAIN e.data = DOMAIN EventStruct[type] /\ Strings(type) \subseteq DOMAIN EventStruct[type]
        /\ \A f \in DOMAIN EventStruct[type] : f \notin Header
    <3>1. DOMAIN e.data = DOMAIN EventStruct[type] /\ Strings(type) \subseteq DOMAIN EventStruct[type]
      BY <1>7 DEF IsData, Strings
    <3>2. \A f \in DOMAIN EventStruct[type] : f \notin Header
      BY <1>2, FieldsOf DEF HookTypes, Header
    <3> QED
      BY <3>1, <3>2
  <2>3. val.of = hook[t].call /\ val.length = hook[t].length
    OBVIOUS
  <2> HIDE DEF val, e, type
  <2>4. ASSUME NEW f \in Header PROVE e[f] = hook[t].call
    <3>1. Tells(type, Value(e, f), f, val) /\ f \notin Strings(type)
      BY <2>1, <2>2 DEF Attributes
    <3> QED
      BY <2>3, <3>1 DEF Tells, Value
  <2>5. ASSUME NEW f \in DOMAIN e.data
        PROVE  IF f \notin Strings(type) THEN e.data[f] = hook[t].call
               ELSE /\ e.data[f].length = 0 <=> hook[t].length \in {Nil, 0}
                    /\ e.data[f].length # 0 => e.data[f].of = hook[t].call
    <3>1. Tells(type, e.data[f], f, val)
      <4>1. f \in Attributes(type) /\ Value(e, f) = e.data[f]
        BY <2>2 DEF Attributes, Value
      <4> QED
        BY <2>1, <4>1
    <3> QED
      BY <2>3, <3>1 DEF Tells
  <2> QED
    BY <2>4, <2>5
<1>12. /\ hook'[t].at = 0 /\ \A u \in Threads : u # t => hook'[u] = hook[u]
       /\ hook' \in [Threads -> [at : Nat, call : Nat, length : Nat \union {Nil}]]
  BY <1>1, <1>3 DEF NotInHook
<1>13. EventsTyped'
  BY <1>1, <1>12 DEF IInv, EventsTyped
<1>14. ToldSoFar'
  <2> SUFFICES ASSUME NEW u \in Threads, NEW i \in DOMAIN Statements(Uses[u]),
                      ~Shared(Uses[u]), i < hook'[u].at
               PROVE  LET a == Statements(Uses[u])[i]
                      IN  Tells(EventType[Uses[u]], Value(events'[Uses[u]], a), a,
                                [length |-> hook'[u].length, of |-> hook'[u].call])
    BY DEF ToldSoFar
  <2>1. i \in 1..Len(Statements(Uses[u])) /\ Len(Statements(Uses[u])) \in Nat
    BY TypesOfClients, StatementsAre
  <2>2. u # t /\ hook'[u] = hook[u]
    BY <1>12, <2>1
  <2> QED
    BY <1>1, <2>2 DEF IInv, ToldSoFar
<1> QED
  BY <1>10, <1>11, <1>13, <1>14 DEF IInv

(* What rg_begin and its like fill in.                                     *)
LEMMA FilledInIs ==
  ASSUME NEW type \in NativeTypes, NEW n \in Lengths
  PROVE  type \in EventTypes /\ IsData(type, FilledIn(type, n))
<1> DEFINE d == FilledIn(type, n)
           s == rb_rg_encode_string(EmptyString, [length |-> n, of |-> 1])
<1>1. type \in EventTypes /\ "verb" \notin Strings(type)
  <2>1. type \in EventTypes
    BY DEF NativeTypes
  <2>2. type \in {"BEGIN", "END", "METHODINFO_2", "EXCEPTION_THROWN_2", "PROCESS_FREQUENCY", "PROCESS_TYPE",
                  "BEGIN_TRANSACTION", "THREAD_STARTED_2", "THREAD_ENDED", "PROCESS_ENDED", "END_TRANSACTION"}
    BY DEF NativeTypes, EventTypes, EventStruct
  <2> QED
    BY <2>1, <2>2, StringsOf
<1>2. /\ d = [f \in DOMAIN EventStruct[type] |-> d[f]]
      /\ \A f \in Strings(type) : d[f] = s
  BY DEF FilledIn, Strings
<1>3. s = [length |-> s.length, of |-> s.of] /\ s.length \in 0..RG_MAX_STRING_SIZE
  <2> DEFINE val == [length |-> n, of |-> 1]
  <2>1. val.length \in Nat \union {Nil}
    BY EventsAssumption
  <2>2. EmptyString = [length |-> EmptyString.length, of |-> EmptyString.of]
    BY DEF EmptyString
  <2>3. RG_MAX_STRING_SIZE \in Nat
    BY Limits
  <2>4. s = Copied(EmptyString, val, RG_MAX_STRING_SIZE)
    BY DEF rb_rg_encode_string
  <2> HIDE DEF val, s
  <2> QED
    BY <2>1, <2>2, <2>3, <2>4, CopiedIs
<1> HIDE DEF s, d
<1>4. \A f \in Strings(type) : IsString(d[f], f)
  BY <1>1, <1>2, <1>3 DEF IsString, Limit
<1> QED
  BY <1>1, <1>2, <1>4 DEF IsData, d

LEMMA EmitNativeKeeps ==
  ASSUME IInv, NEW t \in Threads, NEW type \in NativeTypes, NEW n \in Lengths, EmitNative(t, type, n)
  PROVE  IInv'
<1> DEFINE d == FilledIn(type, n)
           p == Payload(type, d)
           size == CommandSize(p)
           e == [rb_rg_event_alloc(type) EXCEPT !.length = size, !.data = d]
           m == [bytes |-> rg_encode_header_impl(e) ++ p, size |-> size, event |-> e, by |-> t,
                 made |-> NotInHook]
<1>1. command' = m /\ UNCHANGED <<events, hook, calls>>
  BY DEF EmitNative
<1>2. type \in EventTypes /\ IsData(type, d)
  BY FilledInIs
<1>3. size = Short(RG_MIN_PAYLOAD + Payload(type, d).length)
  BY DEF CommandSize
<1> HIDE DEF d, size
<1>4. e = [length |-> size, type |-> type, pid |-> 0, tid |-> 0, timestamp |-> 0, data |-> d]
  <2> DEFINE a == rb_rg_event_alloc(type)
             fresh == EventStruct[type]
             b == [a EXCEPT !.length = size]
  <2>1. a = [length |-> 0, type |-> type, pid |-> 0, tid |-> 0, timestamp |-> 0, data |-> fresh]
    BY DEF rb_rg_event_alloc
  <2>2. e = [b EXCEPT !.data = d]
    OBVIOUS
  <2> HIDE DEF a, fresh, e
  <2>3. b = [length |-> size, type |-> type, pid |-> 0, tid |-> 0, timestamp |-> 0, data |-> fresh]
    BY <2>1
  <2> HIDE DEF b
  <2> QED
    BY <2>2, <2>3
<1> HIDE DEF e
<1>5. e.length = size /\ e.type = type /\ e.data = d
  BY <1>4
<1>6. size = rg_encode_size(type, d)
  BY <1>2, <1>3, <1>5, EncodedIs
<1>7. /\ m.bytes = rg_encode_header_impl(e) ++ p /\ m.size = size /\ m.event = e /\ m.made = NotInHook
  OBVIOUS
<1>8. p = Payload(type, d)
  OBVIOUS
<1> HIDE DEF m, p
<1>9. \A x \in Commands' : x = m
  BY <1>1 DEF Commands
<1>10. CommandsAreEvents'
  <2>1. m.bytes = rg_encode_header_impl(m.event) ++ Payload(m.event.type, m.event.data)
    BY <1>5, <1>7, <1>8
  <2> QED
    BY <1>2, <1>5, <1>6, <1>7, <1>9, <2>1 DEF CommandsAreEvents
<1>11. CommandsTellOneCall'
  BY <1>7, <1>9 DEF CommandsTellOneCall, NotInHook
<1>12. EventsTyped' /\ ToldSoFar'
  BY <1>1 DEF IInv, EventsTyped, ToldSoFar
<1> QED
  BY <1>10, <1>11, <1>12 DEF IInv

LEMMA StepKeeps ==
  ASSUME IInv, [Next]_vars PROVE IInv'
<1>1. CASE UNCHANGED vars
  BY <1>1 DEF vars, IInv, EventsTyped, ToldSoFar, CommandsAreEvents, CommandsTellOneCall, Commands
<1>2. CASE Next
  BY <1>2, RespondsKeeps, SetAttributeKeeps, EmitEventKeeps, EmitNativeKeeps DEF Next
<1> QED
  BY <1>1, <1>2
-----------------------------------------------------------------------------
(* What the invariant gives.                                               *)
LEMMA MeasuredEventIs ==
  ASSUME NEW type \in EventTypes, NEW e, e.type = type, IsData(type, e.data)
  PROVE  LET n == rg_encode_size(type, e.data)
         IN  /\ (rg_encode_header_impl(e) ++ Payload(type, e.data)).length = n
             /\ n \in RG_MIN_PAYLOAD..INT16_MAX /\ n <= RG_ENCODER_SCRATCH_BUFFER_SIZE
<1> DEFINE n == rg_encode_size(type, e.data)
<1>1. /\ (rg_encode_header_impl(e) ++ Payload(type, e.data)).length = n
      /\ n \in Nat /\ RG_MIN_PAYLOAD <= n /\ n <= INT16_MAX
  BY EncodedIs DEF Writes
<1> HIDE DEF n
<1>2. RG_ENCODER_SCRATCH_BUFFER_SIZE = 32768
  BY DEF RG_ENCODER_SCRATCH_BUFFER_SIZE
<1>3. n <= 32768
  BY <1>1, Limits
<1>4. RG_MIN_PAYLOAD \in Int /\ INT16_MAX \in Int
  BY Limits
<1>5. n \in RG_MIN_PAYLOAD..INT16_MAX
  BY <1>1, <1>4
<1> QED
  BY <1>1, <1>2, <1>3, <1>5 DEF n

LEMMA ClientEventsAre ==
  ASSUME IInv, NEW c \in Clients, events[c].length # 0
  PROVE  LET e == events[c]
         IN  /\ e.type \in EventTypes /\ IsData(e.type, e.data)
             /\ e.length = rg_encode_size(e.type, e.data)
<1>1. IsEvent(events[c], EventType[c])
  BY DEF IInv, EventsTyped, NoEventYet
<1>2. events[c].type = EventType[c]
  BY <1>1 DEF IsEvent
<1>3. EventType[c] \in EventTypes
  BY EventsAssumption DEF EventTypes, EventStruct
<1> QED
  BY <1>1, <1>2, <1>3 DEF IsEvent

LEMMA InvariantSuffices ==
  ASSUME IInv
  PROVE  SizesAgree /\ FitsScratchBuffer /\ CommandsParse /\ CommandsTellOneCall
<1>1. SizesAgree
  <2>1. ASSUME NEW c \in Clients, events[c].length # 0
        PROVE  events[c].length = rb_rg_event_encoded(events[c]).length
    BY <2>1, ClientEventsAre, MeasuredEventIs DEF rb_rg_event_encoded
  <2>2. ASSUME NEW m \in Commands
        PROVE  m.size = m.bytes.length /\ m.size = rg_encode_size(m.event.type, m.event.data)
    BY <2>2, MeasuredEventIs DEF IInv, CommandsAreEvents
  <2> QED
    BY <2>1, <2>2 DEF SizesAgree
<1>2. FitsScratchBuffer
  <2>1. ASSUME NEW c \in Clients, events[c].length # 0
        PROVE  /\ events[c].length \in RG_MIN_PAYLOAD..INT16_MAX
               /\ events[c].length <= RG_ENCODER_SCRATCH_BUFFER_SIZE
    BY <2>1, ClientEventsAre, MeasuredEventIs
  <2>2. ASSUME NEW m \in Commands
        PROVE  /\ m.event.length \in RG_MIN_PAYLOAD..INT16_MAX
               /\ m.event.length <= RG_ENCODER_SCRATCH_BUFFER_SIZE
    BY <2>2, MeasuredEventIs DEF IInv, CommandsAreEvents
  <2> QED
    BY <2>1, <2>2 DEF FitsScratchBuffer
<1>3. CommandsParse
  <2> SUFFICES ASSUME NEW m \in Commands
               PROVE  /\ \E c \in m.bytes.cells : c.at = 0 /\ c.width = 2 /\ c.kind = "number" /\ c.value = m.size
                      /\ Prefixed(m.bytes)
                      /\ \A f \in Strings(m.event.type) : Holds(m.bytes, m.event.data[f])
    BY DEF CommandsParse
  <2> DEFINE e == m.event
             type == e.type
             u == rg_encode_header_impl(e) ++ Payload(type, e.data)
  <2>1. type \in EventTypes /\ IsData(type, e.data) /\ e.length = m.size /\ m.bytes = u
    BY DEF IInv, CommandsAreEvents
  <2>2. e.type = type
    OBVIOUS
  <2> HIDE DEF e, type
  <2>3. /\ Writes(u, rg_encode_size(type, e.data), {e.data[f] : f \in Strings(type)})
        /\ \E c \in u.cells : c.at = 0 /\ c.width = 2 /\ c.kind = "number" /\ c.value = e.length
    BY <2>1, <2>2, EncodedIs
  <2> HIDE DEF u
  <2>4. \E c \in m.bytes.cells : c.at = 0 /\ c.width = 2 /\ c.kind = "number" /\ c.value = m.size
    BY <2>1, <2>3
  <2>5. Prefixed(m.bytes) /\ \A f \in Strings(type) : Holds(m.bytes, e.data[f])
    BY <2>1, <2>3 DEF Writes
  <2> QED
    BY <2>4, <2>5 DEF e, type
<1> QED
  BY <1>1, <1>2, <1>3 DEF IInv

LEMMA AlwaysIInv == Spec => []IInv
<1>1. Init => IInv
  BY InitEstablishes
<1>2. IInv /\ [Next]_vars => IInv'
  BY StepKeeps
<1> QED
  BY <1>1, <1>2, PTL DEF Spec

(* rg_encode_size and the encoding of every command agree to the byte,     *)
(* whatever hooks set, in whatever order they run.                         *)
THEOREM SizesAgreeAlways == Spec => []SizesAgree
<1>1. IInv => SizesAgree
  BY InvariantSuffices
<1> QED
  BY <1>1, AlwaysIInv, PTL

(* No event outgrows the scratch buffer or the 16 bits of its length, for  *)
(* strings of any length.                                                  *)
THEOREM EventsFit == Spec => []FitsScratchBuffer
<1>1. IInv => FitsScratchBuffer
  BY InvariantSuffices
<1> QED
  BY <1>1, AlwaysIInv, PTL

(* The Agent can take every command apart.                                 *)
THEOREM AgentCanParse == Spec => []CommandsParse
<1>1. IInv => CommandsParse
  BY InvariantSuffices
<1> QED
  BY <1>1, AlwaysIInv, PTL

(* Nothing of an earlier call is left in a command, when the client is not *)
(* shared.                                                                 *)
THEOREM OneCallPerCommand == Spec => []CommandsTellOneCall
<1>1. IInv => CommandsTellOneCall
  BY InvariantSuffices
<1> QED
  BY <1>1, AlwaysIInv, PTL
=============================================================================
