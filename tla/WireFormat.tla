----------------------------- MODULE WireFormat -----------------------------
(***************************************************************************)
(* The commands of the wire protocol: what an event holds, the size that   *)
(* is computed for it and the bytes that are written for it.  The encoder  *)
(* has both for each type of event, apart from each other.                 *)
(*                                                                         *)
(* What one memcpy writes is a cell: where, how wide, and the value in it; *)
(* of a string only its length and whose it is are kept.  What a function  *)
(* of the encoder writes is its cells, from its own start, and their       *)
(* length, which it returns.                                               *)
(***************************************************************************)
EXTENDS Integers, Sequences

RG_MIN_PAYLOAD == 19
RG_MAX_STRING_SIZE == 4096
RG_MAX_SHORT_STRING_SIZE == 127
RG_ENCODER_SCRATCH_BUFFER_SIZE == 32 * 1024
UINT8_MAX == 255
INT16_MAX == 32767
RG_STRING_ENCODING_UTF8 == 5
RG_VT_VOID == 1
Nil == -1  \* the length given for nil in the place of a string

Short(n) == ((n + INT16_MAX + 1) % (2 * (INT16_MAX + 1))) - (INT16_MAX + 1)

(* Strings that are cut, or of which nothing is copied when they are nil.  *)
EmptyString == [length |-> 0, of |-> 0]

NotCut(length, max) == length
CutTo(length, max) == IF length >= max THEN max ELSE length

Copied(string, str, max) ==
  IF str.length = Nil THEN [string EXCEPT !.length = 0]
  ELSE [length |-> CutTo(str.length, max), of |-> str.of]

rb_rg_encode_string(string, str) == Copied(string, str, RG_MAX_STRING_SIZE)
CutAsLong(string, str) == Copied(string, str, RG_MAX_STRING_SIZE)
rb_rg_encode_short_string(string, str) == Copied(string, str, RG_MAX_SHORT_STRING_SIZE)

(* The structs of the events, as they are allocated.                       *)
Struct(numbers, strings) ==
  [f \in numbers \union strings |-> IF f \in strings THEN EmptyString ELSE 0]

EventStruct ==
  [BEGIN                     |-> Struct({"function_id", "instance_id", "argc"}, {}),
   END                       |-> Struct({"function_id", "tail_call"}, {}),
   METHODINFO_2              |-> Struct({"function_id", "method_source"}, {"class_name", "method_name"}),
   EXCEPTION_THROWN_2        |-> Struct({"exception_id"}, {"class_name", "correlation_id"}),
   PROCESS_FREQUENCY         |-> Struct({"frequency"}, {}),
   PROCESS_TYPE              |-> Struct({}, {"technology_type", "process_type"}),
   SQL_INFORMATION           |-> Struct({"duration"}, {"provider", "host", "database", "query"}),
   HTTP_INCOMING_INFORMATION |-> Struct({"status", "duration"}, {"url", "verb"}),
   HTTP_OUTGOING_INFORMATION |-> Struct({"status", "duration"}, {"url", "verb"}),
   BEGIN_TRANSACTION         |-> Struct({}, {"api_key", "technology_type", "process_type"}),
   THREAD_STARTED_2          |-> Struct({"parent_tid"}, {}),
   THREAD_ENDED              |-> Struct({}, {}),
   PROCESS_ENDED             |-> Struct({}, {}),
   END_TRANSACTION           |-> Struct({}, {})]

RG_EVENT ==
  [BEGIN |-> 1, END |-> 2, METHODINFO_2 |-> 15, EXCEPTION_THROWN_2 |-> 18, THREAD_ENDED |-> 8,
   PROCESS_ENDED |-> 10, PROCESS_FREQUENCY |-> 11, PROCESS_TYPE |-> 12, SQL_INFORMATION |-> 100,
   HTTP_INCOMING_INFORMATION |-> 101, HTTP_OUTGOING_INFORMATION |-> 102, BEGIN_TRANSACTION |-> 16,
   END_TRANSACTION |-> 17, THREAD_STARTED_2 |-> 19]

EventTypes == DOMAIN EventStruct
Strings(type) ==
  DOMAIN EventStruct[type] \intersect
    {"class_name", "method_name", "correlation_id", "technology_type", "process_type", "provider", "host",
     "database", "query", "url", "verb", "api_key"}
Header == {"pid", "tid", "timestamp"}

rb_rg_event_alloc(type) ==
  [length |-> 0, type |-> type, pid |-> 0, tid |-> 0, timestamp |-> 0, data |-> EventStruct[type]]
-----------------------------------------------------------------------------
Nothing == [length |-> 0, cells |-> {}]
Cell(width, kind, value) ==
  [length |-> width, cells |-> {[at |-> 0, width |-> width, kind |-> kind, value |-> value]}]

(* One after the other: the pointer moves on by what was written.          *)
a ++ b ==
  [length |-> a.length + b.length,
   cells |-> a.cells \union {[c EXCEPT !.at = @ + a.length] : c \in b.cells}]

Number(width, value) == Cell(width, "number", value)
Text(prefix, string) == Number(prefix, string.length) ++ Cell(string.length, "text", string.of)
EncodedText(string) == Number(1, RG_STRING_ENCODING_UTF8) ++ Text(2, string)

VoidReturn == [length |-> 0, name_length |-> 0]

rg_encode_variableinfo_size(var) == 2 + 1 + 1 + var.name_length
rg_encode_variableinfo(var) == Number(2, var.length) ++ Number(1, RG_VT_VOID) ++ Number(1, var.name_length)

rg_encode_header_impl(e) ==
  Number(2, e.length) ++ Number(1, RG_EVENT[e.type]) ++ Number(4, e.pid) ++ Number(4, e.tid) ++ Number(8, e.timestamp)

rg_encode_methodinfo_size(d) ==
  RG_MIN_PAYLOAD + 4 + 2 + d.class_name.length + 2 + d.method_name.length + 1
rg_encode_methodinfo(d) ==
  Number(4, d.function_id) ++ Text(2, d.class_name) ++ Text(2, d.method_name) ++ Number(1, d.method_source)

rg_encode_sql_size(d) ==
  RG_MIN_PAYLOAD + 1 + 2 + d.provider.length + 1 + 2 + d.host.length + 1 + 2 + d.database.length
    + 1 + 2 + d.query.length + 8
rg_encode_sql(d) ==
  EncodedText(d.provider) ++ EncodedText(d.host) ++ EncodedText(d.database) ++ EncodedText(d.query)
    ++ Number(8, d.duration)

rg_encode_http_in_size(d) == RG_MIN_PAYLOAD + 2 + d.url.length + 1 + d.verb.length + 2 + 8
rg_encode_http_in(d) ==
  Text(2, d.url) ++ Text(1, d.verb) ++ Number(2, d.status) ++ Number(8, d.duration)

rg_encode_http_out_size(d) == RG_MIN_PAYLOAD + 2 + d.url.length + 1 + d.verb.length + 2 + 8
rg_encode_http_out(d) ==
  Text(2, d.url) ++ Text(1, d.verb) ++ Number(2, d.status) ++ Number(8, d.duration)

rg_encode_process_type_size(d) ==
  RG_MIN_PAYLOAD + 2 + d.technology_type.length + 2 + d.process_type.length
rg_encode_process_type(d) == Text(2, d.technology_type) ++ Text(2, d.process_type)

rg_encode_begin_transaction_size(d) ==
  RG_MIN_PAYLOAD + 2 + d.api_key.length + 2 + d.technology_type.length + 2 + d.process_type.length
rg_encode_begin_transaction(d) ==
  Text(2, d.api_key) ++ Text(2, d.technology_type) ++ Text(2, d.process_type)

rg_encode_begin_size(d) == RG_MIN_PAYLOAD + 4 + 8 + 1
rg_encode_begin(d) == Number(4, d.function_id) ++ Number(8, d.instance_id) ++ Number(1, d.argc)

rg_encode_end_size(d) == RG_MIN_PAYLOAD + 4 + 1 + rg_encode_variableinfo_size(VoidReturn)
rg_encode_end(d) ==
  Number(4, d.function_id) ++ Number(1, d.tail_call) ++ rg_encode_variableinfo(VoidReturn)

rg_encode_process_frequency_size(d) == RG_MIN_PAYLOAD + 8
rg_encode_process_frequency(d) == Number(8, d.frequency)

rg_encode_thread_started_size(d) == RG_MIN_PAYLOAD + 4
rg_encode_thread_started(d) == Number(4, d.parent_tid)

rg_encode_exception_thrown_size(d) ==
  RG_MIN_PAYLOAD + 8 + 2 + d.class_name.length + 2 + d.correlation_id.length
rg_encode_exception_thrown(d) ==
  Number(8, d.exception_id) ++ Text(2, d.class_name) ++ Text(2, d.correlation_id)

rg_encode_size(type, d) ==
  Short(CASE type = "BEGIN" -> rg_encode_begin_size(d)
          [] type = "END" -> rg_encode_end_size(d)
          [] type = "METHODINFO_2" -> rg_encode_methodinfo_size(d)
          [] type = "SQL_INFORMATION" -> rg_encode_sql_size(d)
          [] type = "HTTP_INCOMING_INFORMATION" -> rg_encode_http_in_size(d)
          [] type = "HTTP_OUTGOING_INFORMATION" -> rg_encode_http_out_size(d)
          [] type = "PROCESS_FREQUENCY" -> rg_encode_process_frequency_size(d)
          [] type = "EXCEPTION_THROWN_2" -> rg_encode_exception_thrown_size(d)
          [] type = "PROCESS_TYPE" -> rg_encode_process_type_size(d)
          [] type = "BEGIN_TRANSACTION" -> rg_encode_begin_transaction_size(d)
          [] type = "THREAD_STARTED_2" -> rg_encode_thread_started_size(d)
          [] OTHER -> RG_MIN_PAYLOAD)

(* What is written after the header.                                       *)
Payload(type, d) ==
  CASE type = "BEGIN" -> rg_encode_begin(d)
    [] type = "END" -> rg_encode_end(d)
    [] type = "METHODINFO_2" -> rg_encode_methodinfo(d)
    [] type = "SQL_INFORMATION" -> rg_encode_sql(d)
    [] type = "HTTP_INCOMING_INFORMATION" -> rg_encode_http_in(d)
    [] type = "HTTP_OUTGOING_INFORMATION" -> rg_encode_http_out(d)
    [] type = "PROCESS_FREQUENCY" -> rg_encode_process_frequency(d)
    [] type = "EXCEPTION_THROWN_2" -> rg_encode_exception_thrown(d)
    [] type = "PROCESS_TYPE" -> rg_encode_process_type(d)
    [] type = "BEGIN_TRANSACTION" -> rg_encode_begin_transaction(d)
    [] type = "THREAD_STARTED_2" -> rg_encode_thread_started(d)
    [] OTHER -> Nothing
=============================================================================
