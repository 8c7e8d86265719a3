-------------------------------- MODULE Resp ---------------------------------
(***************************************************************************)
(* RespRequestParser and RespReplyBuilder: the bytes of a datagram and the *)
(* requests in it.  A byte is a string; CR, LF, the marks and the digits   *)
(* are told apart, a word of text may be a single byte.                    *)
(*                                                                         *)
(* parse runs over a datagram as it arrived.  A buffer is what is left to  *)
(* parse, as string_view& is in the code: a parser that finds the input    *)
(* incomplete may have moved it already.                                   *)
(***************************************************************************)
EXTENDS Naturals, Sequences, SequencesExt

CONSTANTS
  SizeMax,      \* the largest size_t
  Incomplete,   \* std::nullopt
  Thrown,       \* an Error is thrown
  Wild,         \* a string_view of SizeMax - 1 bytes, far beyond the datagram
  Datagram      \* [data, written, own]: what arrives, of which requests, and whether
                \* a node of the net has built it

Failure == {Incomplete, Thrown}

\* A request as it is written, and one as it is parsed.
Request == [name : Seq(STRING), args : Seq(Seq(STRING))]
Text == Seq(STRING) \cup {Wild}
RespRequest == [name : Text, args : Seq(Text)]

CRLF == <<"\r", "\n">>
Digit == <<"0", "1", "2", "3", "4", "5", "6", "7", "8", "9">>
IsDigit(byte) == \E i \in 1 .. 10 : Digit[i] = byte

ASSUME RespAssumption ==
  /\ SizeMax \in Nat /\ SizeMax > 2
  /\ \A arrived \in Datagram : arrived.data \in Seq(STRING) /\ Len(arrived.data) <= SizeMax
  /\ Incomplete # Thrown /\ Wild \notin Seq(STRING)
  /\ \A failure \in Failure :
       /\ failure \notin {"parsing", "none"}
       /\ failure \notin Nat /\ failure \notin Text /\ failure \notin RespRequest
  /\ ToSet(Digit) \cup {"\r", "\n", "*", "$", "+"} \subseteq STRING  \* unknown to the provers

VARIABLES
  datagram,
  buffer,       \* what parse has not looked at yet
  requests, bytes_parsed,
  outcome       \* "parsing", or why the loop ended

vars == <<datagram, buffer, requests, bytes_parsed, outcome>>

Init ==
  /\ datagram \in Datagram
  /\ buffer = datagram.data
  /\ requests = << >>
  /\ bytes_parsed = 0
  /\ outcome = "parsing"

------------------------------------------------------------------------------
(* RespReplyBuilder *)

\* std::to_string
Decimal[n \in Nat] == (IF n < 10 THEN << >> ELSE Decimal[n \div 10]) \o <<Digit[(n % 10) + 1]>>

AppendString(type, str) == <<type>> \o str \o CRLF

AppendSimpleString(str) == AppendString("+", str)

AppendArray(size) == AppendString("*", Decimal[size])

AppendBulkString(str) == <<"$">> \o Decimal[Len(str)] \o CRLF \o str \o CRLF

------------------------------------------------------------------------------
(* RespRequestParser.  A parser gives a value, or how it failed, and the rest *)
(* of the buffer.                                                             *)

Rest(buf, n) == SubSeq(buf, n + 1, Len(buf))

\* std::from_chars: as many digits as there are.
Digits(buf) ==
  SubSeq(buf, 1, CHOOSE n \in 0 .. Len(buf) :
                   /\ \A i \in 1 .. n : IsDigit(buf[i])
                   /\ n < Len(buf) => ~IsDigit(buf[n + 1]))

DigitValue(byte) == (CHOOSE i \in 1 .. 10 : Digit[i] = byte) - 1

Value(digits) ==
  LET value[i \in 0 .. Len(digits)] ==
        IF i = 0 THEN 0 ELSE 10 * value[i - 1] + DigitValue(digits[i])
  IN  value[Len(digits)]

\* The number and the line end after the mark.
NumAfter(buf, digits) ==
  LET end == Len(digits)
  IN  IF digits = << >> \/ Value(digits) > SizeMax THEN [value |-> Thrown, rest |-> buf]
      ELSE IF end + 2 > Len(buf) THEN [value |-> Incomplete, rest |-> buf]
      ELSE IF SubSeq(buf, end + 1, end + 2) # CRLF THEN [value |-> Thrown, rest |-> buf]
      ELSE [value |-> Value(digits), rest |-> Rest(buf, end + 2)]

\* *n\r\n or $n\r\n
ParseNum(c, buf) ==
  IF buf = << >> THEN [value |-> Incomplete, rest |-> buf]
  ELSE IF Head(buf) # c THEN [value |-> Thrown, rest |-> buf]
  ELSE IF Len(buf) = 1 THEN [value |-> Incomplete, rest |-> << >>]
  ELSE NumAfter(Tail(buf), Digits(Tail(buf)))

\* The string and the line end after its length.  len + 2 is a size_t, and
\* data() + len wraps around with it: the line end is looked for from the last byte
\* before the string if len is SizeMax, and if it is one less, the line end of the
\* length itself is found, and nothing is removed.
StringAfter(len, buf) ==
  IF Len(buf) < (len + 2) % (SizeMax + 1) THEN [value |-> Incomplete, rest |-> buf]
  ELSE IF len = SizeMax THEN [value |-> Thrown, rest |-> buf]
  ELSE IF len + 2 > SizeMax THEN [value |-> Wild, rest |-> buf]
  ELSE IF SubSeq(buf, len + 1, len + 2) # CRLF THEN [value |-> Thrown, rest |-> buf]
  ELSE [value |-> SubSeq(buf, 1, len), rest |-> Rest(buf, len + 2)]

ArgvAfter(num) == IF num.value \in Failure THEN num ELSE StringAfter(num.value, num.rest)

\* $n\r\nxxxxx\r\n
ParseArgv(buf) == ArgvAfter(ParseNum("$", buf))

\* The arguments so far, and why there are not more.
WithArgv(before, argv) ==
  IF argv.value \in Failure THEN [before EXCEPT !.rest = argv.rest, !.stop = argv.value]
  ELSE [before EXCEPT !.rest = argv.rest, !.args = Append(@, argv.value)]

OneMore(before) ==
  IF before.stop # "none" THEN before ELSE WithArgv(before, ParseArgv(before.rest))

\* Up to n arguments.
ParseArgvs(buf, n) ==
  LET upto[i \in 0 .. n] ==
        IF i = 0 THEN [args |-> << >>, rest |-> buf, stop |-> "none"] ELSE OneMore(upto[i - 1])
  IN  upto[n]

\* Mutant: an incomplete request is taken as it is.
TooFewNever(args, argc) == FALSE

\* Mutant: idx < *argc.
TooFewCounted(args, argc) == Len(args) < argc

\* idx < num, after --num
TooFew(args, argc) == Len(args) < argc - 1

AfterArgvs(argc, name, found) ==
  IF found.stop = Thrown THEN [value |-> Thrown, rest |-> found.rest]
  ELSE IF TooFew(found.args, argc) THEN [value |-> Incomplete, rest |-> found.rest]
  ELSE [value |-> [name |-> name, args |-> found.args], rest |-> found.rest]

\* argc counts the name too, and yet as many arguments are tried.
AfterName(argc, name) ==
  IF name.value \in Failure THEN name
  ELSE AfterArgvs(argc, name.value, ParseArgvs(name.rest, argc))

AfterCount(argc) ==
  IF argc.value \in Failure THEN argc
  ELSE IF argc.value < 1 THEN [value |-> Thrown, rest |-> argc.rest]
  ELSE AfterName(argc.value, ParseArgv(argc.rest))

ParseRequest(buf) == AfterCount(ParseNum("*", buf))

------------------------------------------------------------------------------
(* parse, an iteration of its loop at a time *)

\* Mutant: bytes_parsed is where the request begins.
NextRequestEarly ==
  /\ outcome = "parsing"
  /\ LET parsed == ParseRequest(buffer)
     IN  /\ parsed.value \notin Failure
         /\ requests' = Append(requests, parsed.value)
         /\ buffer' = parsed.rest
         /\ bytes_parsed' = Len(datagram.data) - Len(buffer)
  /\ UNCHANGED <<datagram, outcome>>

NextRequest ==
  /\ outcome = "parsing"
  /\ LET parsed == ParseRequest(buffer)
     IN  /\ parsed.value \notin Failure
         /\ requests' = Append(requests, parsed.value)
         /\ buffer' = parsed.rest
         /\ bytes_parsed' = Len(datagram.data) - Len(buffer')
  /\ UNCHANGED <<datagram, outcome>>

\* The requests so far are returned, or lost to an exception.
Finish ==
  /\ outcome = "parsing"
  /\ LET failure == ParseRequest(buffer).value
     IN  /\ failure \in Failure
         /\ outcome' = failure
         /\ requests' = IF failure = Thrown THEN << >> ELSE requests
  /\ UNCHANGED <<datagram, buffer, bytes_parsed>>

Next == NextRequest \/ Finish

Spec == Init /\ [][Next]_vars

------------------------------------------------------------------------------
\* The state has its types: what is left is the end of what arrived, and
\* bytes_parsed is inside of what has been looked at, above 0 once there are
\* requests.
TypeOK ==
  /\ buffer = Rest(datagram.data, Len(datagram.data) - Len(buffer))
  /\ bytes_parsed \in 0 .. Len(datagram.data) - Len(buffer)
  /\ outcome \in {"parsing"} \cup Failure
  /\ requests = << >> <=> bytes_parsed = 0 \/ outcome = Thrown

\* How a client writes a request: an array of bulk strings.
Encoded(request) ==
  AppendArray(1 + Len(request.args)) \o AppendBulkString(request.name)
    \o FlattenSeq([i \in DOMAIN request.args |-> AppendBulkString(request.args[i])])

EncodedAll(reqs) == FlattenSeq([i \in DOMAIN reqs |-> Encoded(reqs[i])])

\* _on_read ignores libuv's flags, so a datagram that is longer than _buffer
\* arrives cut off at any byte.  Whatever is left of it, the requests that parse
\* returns are the first ones that were written, whole, and bytes_parsed is
\* their length: a cut never shortens a number, a string or a list of arguments.
PrefixSafe ==
  outcome = Incomplete =>
    /\ IsPrefix(requests, datagram.written)
    /\ bytes_parsed = Len(EncodedAll(requests))

Whole == datagram.data = EncodedAll(datagram.written)

\* A request that arrives alone and whole is understood, although the parser
\* tries for one argument more than there are.
SingleUnderstood ==
  outcome # "parsing" /\ Whole /\ Len(datagram.written) = 1 => requests = datagram.written

\* What resp.h:36 says of parse: it returns the vector of the requests in the
\* buffer.  It does not hold for two: the first one's missing argument is looked
\* for in the second one, and the Error takes both away.
AllUnderstood ==
  outcome # "parsing" /\ Whole => requests = datagram.written
==============================================================================
