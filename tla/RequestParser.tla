---------------------------- MODULE RequestParser ----------------------------
(***************************************************************************)
(* Request lines (requests.c): what parse_request makes of a line, against *)
(* a definition by splitting.                                              *)
(*                                                                         *)
(* The first nine characters, channel and command, are either good or not; *)
(* what follows is a sequence of characters, and position k of it is       *)
(* line[MINIMUM_REQUEST_LENGTH + k - 1].  "=" ends a key, ";" an option or *)
(* a parameter and " " the options; all others are alike.                  *)
(***************************************************************************)
EXTENDS Occurrences

CONSTANTS
  Characters,   \* characters of the lines, among them ";", "=" and " "
  MaxLine       \* bound: characters after the command name

ASSUME RequestParserAssumption == {";", "=", " "} \subseteq Characters /\ MaxLine \in Nat

VARIABLE parsed   \* [line, result] of the last request, or NothingParsed

Lines == UNION {[1 .. n -> Characters] : n \in 0 .. MaxLine}

Failed(error) == [error |-> error, options |-> << >>, parameters |-> << >>]

-----------------------------------------------------------------------------
(* The parser. *)

\* add_option compares the rest of the line, not the key, with the names it has
\* but for the last one.
DuplicateOption(line, key, options) ==
  \E n \in 1 .. Len(options) - 1 : SubSeq(line, key, Len(line)) = options[n].name

\* One round of the loop over options, at position k.  Positions that are not
\* known yet are 0; at is the position where parameters start, once known.
NoOption == [key |-> 0, length |-> 0, value |-> 0]

\* An option is complete: key, length of the key and value are known.
OptionEnds(o) == o.key # 0 /\ o.length # 0 /\ o.value # 0

\* MUTANT of EndOfKey: every "=" is taken for the end of the key.
EveryEqualSign(o, c) == c = "="

\* The first "=" ends the key, others belong to the value.
EndOfKey(o, c) == o.length = 0 /\ c = "="

\* What is known of the option at position k, before the character is looked at.
Noted(o, k) ==
  [key |-> IF o.key = 0 THEN k ELSE o.key,
   length |-> o.length,
   value |-> IF o.key # 0 /\ o.length # 0 /\ o.value = 0 THEN k ELSE o.value]

ScanOption(st, line, k) ==
  LET last == k = Len(line) + 1
      endOfKey == ~last /\ EndOfKey(st.o, line[k])
      endOfOptions == last \/ line[k] = " "
      endOfOption == endOfOptions \/ line[k] = ";"
      o == Noted(st.o, k)
      option == [name |-> SubSeq(line, o.key, o.key + o.length - 1),
                 value |-> SubSeq(line, o.value, k - 1)]
  IN  IF ~endOfOption
      THEN [st EXCEPT !.o = IF endOfKey THEN [o EXCEPT !.length = k - o.key] ELSE o]
      ELSE IF ~OptionEnds(o) THEN [st EXCEPT !.error = "INVALID_SYNTAX"]
      ELSE IF DuplicateOption(line, o.key, st.options) THEN [st EXCEPT !.error = "DUPLICATE_OPTION"]
      ELSE [st EXCEPT !.o = NoOption, !.options = Append(@, option),
                      !.at = IF last THEN k ELSE IF endOfOptions THEN k + 1 ELSE 0]

\* The loop over options, from the separator to the end of the line.
OptionStates(line) ==
  LET start == [o |-> NoOption, options |-> << >>, at |-> 0, error |-> "NONE"]
      st[k \in 1 .. Len(line) + 1] ==
        IF k = 1 THEN start
        ELSE IF st[k - 1].at # 0 \/ st[k - 1].error # "NONE" THEN st[k - 1]
        ELSE ScanOption(st[k - 1], line, k)
  IN  st
ScanOptions(line) == OptionStates(line)[Len(line) + 1]

\* One round of the loop over parameters, at position k.
ScanParameter(st, line, k) ==
  LET start == IF st.start = 0 THEN k ELSE st.start
  IN  IF k = Len(line) + 1 \/ line[k] = ";"
      THEN [start |-> 0, parameters |-> Append(st.parameters, SubSeq(line, start, k - 1))]
      ELSE [start |-> start, parameters |-> st.parameters]

\* The loop over parameters, from position at to the end of the line.
ParameterStates(line, at) ==
  LET st[k \in at - 1 .. Len(line) + 1] ==
        IF k = at - 1 THEN [start |-> 0, parameters |-> << >>] ELSE ScanParameter(st[k - 1], line, k)
  IN  st
ScanParameters(line, at) ==
  IF at > Len(line) + 1 THEN << >> ELSE ParameterStates(line, at)[Len(line) + 1].parameters

\* parse_request; a separator has to follow the command.
parse_request(line) ==
  LET options == ScanOptions(line)
  IN  IF line = << >> THEN Failed("NONE")
      ELSE IF line[1] \notin {" ", ";"} THEN Failed("INVALID_SYNTAX")
      ELSE IF line[1] = " "
      THEN [error |-> "NONE", options |-> << >>, parameters |-> ScanParameters(line, 2)]
      ELSE IF options.error # "NONE" THEN Failed(options.error)
      ELSE [error |-> "NONE", options |-> options.options,
            parameters |-> ScanParameters(line, options.at)]

\* request_get_option: the first of that name; request_has_option likewise.
request_has_option(r, name) == \E n \in DOMAIN r.options : r.options[n].name = name
request_get_option(r, name) ==
  r.options[CHOOSE n \in DOMAIN r.options :
              /\ r.options[n].name = name
              /\ \A m \in 1 .. n - 1 : r.options[m].name # name].value
request_has_only_options(r, names) == \A n \in DOMAIN r.options : r.options[n].name \in names

NothingParsed == [line |-> << >>, result |-> Failed("NONE")]

ParserInit == parsed = NothingParsed

\* The line of one request; the next one is independent of it.
Parse(line) == parsed = NothingParsed /\ parsed' = [line |-> line, result |-> parse_request(line)]
Forget == parsed # NothingParsed /\ parsed' = NothingParsed

ParserNext == Forget \/ \E line \in Lines : Parse(line)

ParserSpec == ParserInit /\ [][ParserNext]_parsed

-----------------------------------------------------------------------------
(* The same by splitting. *)

\* The pieces of s between the occurrences of c.
Pieces(s, c) ==
  LET at == Positions(s, c)
      from(n) == IF n = 1 THEN 1 ELSE at[n - 1] + 1
      to(n) == IF n = Len(at) + 1 THEN Len(s) ELSE at[n] - 1
  IN  [n \in 1 .. Len(at) + 1 |-> SubSeq(s, from(n), to(n))]

\* Where the key of an option ends: at the first "=" that leaves it a name.
KeyEnds(piece) == {k \in 2 .. Len(piece) : piece[k] = "="}
KeyEnd(piece) == CHOOSE k \in KeyEnds(piece) : \A j \in KeyEnds(piece) : k <= j

SplitOptions(pieces) ==
  [n \in DOMAIN pieces |-> [name |-> SubSeq(pieces[n], 1, KeyEnd(pieces[n]) - 1),
                            value |-> SubSeq(pieces[n], KeyEnd(pieces[n]) + 1, Len(pieces[n]))]]

GivenTwice(pieces) ==
  \E n, m \in DOMAIN pieces :
    n # m /\ SplitOptions(pieces)[n].name = SplitOptions(pieces)[m].name

\* What the line reads when it is split at the first space into options and
\* parameters, these at ";" and options at "=".  A line that gives an option
\* twice may be refused for that.
IsSplit(line, r) ==
  LET spaces == Positions(line, " ")
      end == IF spaces = << >> THEN Len(line) + 1 ELSE spaces[1]
      pieces == Pieces(SubSeq(line, 2, end - 1), ";")
      parameters == Pieces(SubSeq(line, end + 1, Len(line)), ";")
      hasOptions == line[1] = ";"
  IN  IF line[1] \notin {" ", ";"} \/ (hasOptions /\ \E n \in DOMAIN pieces : KeyEnds(pieces[n]) = {})
      THEN r.error = "INVALID_SYNTAX"
      ELSE \/ /\ r.error = "NONE"
              /\ r.parameters = parameters
              /\ r.options = IF hasOptions THEN SplitOptions(pieces) ELSE << >>
              /\ \A n \in DOMAIN r.options :
                   /\ request_has_option(r, r.options[n].name)
                   /\ \E m \in 1 .. n :
                        request_get_option(r, r.options[n].name) = r.options[m].value
           \/ r.error = "DUPLICATE_OPTION" /\ hasOptions /\ GivenTwice(pieces)

\* parse_request finds in a line what splitting finds in it: it reads no
\* character twice, loses none and confuses no position with "not known yet".
\* A line that ends with its options has one empty parameter.  Whether an option
\* that is given twice is refused, as requests.h says, or kept twice, as the code
\* has it, is left open here (DuplicatesRefused).
ParsesAsSplit == parsed.line # << >> => IsSplit(parsed.line, parsed.result)

\* An option that is given twice is refused (requests.h: "indicates that a
\* command option was specified twice in the same request").  TLC refutes it,
\* see the README.
DuplicatesRefused ==
  \A n, m \in DOMAIN parsed.result.options :
    n # m => parsed.result.options[n].name # parsed.result.options[m].name
=============================================================================
