--------------------------- MODULE DatarefValues ---------------------------
(***************************************************************************)
(* The values behind a dataref that a client provides (command_drci.c, and *)
(* the accessors of dataproxy.c in front of it): one value, or an array,   *)
(* seen through several types at once.  A write through one type updates   *)
(* the views of all others; integers are rounded as the client wants it.   *)
(*                                                                         *)
(* Numbers are counted in halves, so that rounding has something to do; an *)
(* integer is an even number.  A double holds all of them, an int (32 bit) *)
(* and a float only some: what C makes of the others when it narrows them  *)
(* is fixed by the build, ToInt and ToFloat.  Positions count from 0 as in *)
(* the code; a simple dataref has position 0 only.  Locks and threads are  *)
(* the subject of DataProxies.                                             *)
(***************************************************************************)
EXTENDS Integers, Sequences

CONSTANTS
  Written,     \* numbers that are written, in halves
  Ints,        \* those that an xpint_t holds
  ToInt(_),    \* what (xpint_t) makes of the result of lround
  Floats,      \* those that an xpfloat_t holds
  ToFloat(_),  \* what an int or a double becomes as an xpfloat_t
  MaxLength    \* bound: length of an array

ASSUME DatarefValuesAssumption ==
  /\ Written \subseteq Int /\ MaxLength \in Nat
  /\ 0 \in Ints /\ Ints \subseteq Int /\ \A e \in Ints : e % 2 = 0 /\ ToInt(e) = e
  /\ 0 \in Floats /\ \A h \in Floats : ToFloat(h) = h

VARIABLES
  dataref,   \* what drci_create accepted and the values since, or NoDataref
  written,   \* position -> the last write [type, value] to it
  echoed     \* values sent to the owner because of the last write, or << >>

datarefVars == <<dataref, written, echoed>>

simple_types == {"int", "float", "double"}
array_types == {"int[]", "float[]", "blob"}

NoDataref == [types |-> {}]
NoWrite == [type |-> "none", value |-> 0]

DatarefInit == dataref = NoDataref /\ written = << >> /\ echoed = << >>

-----------------------------------------------------------------------------
(* Requests. *)

\* xprc_parse_types: {} is xplmType_Unknown, which an unknown or repeated name
\* gives.  The search for a separator does not stop where the types end: with a
\* comma in the dataref's name the last type is misread.
xprc_parse_types(names, commaInName) ==
  IF \/ commaInName
     \/ \E n \in DOMAIN names : names[n] \notin simple_types \union array_types
     \/ \E n, m \in DOMAIN names : n # m /\ names[n] = names[m]
  THEN {} ELSE {names[n] : n \in DOMAIN names}

encode_types_add(types, t) == IF t \in types THEN <<t>> ELSE << >>

xprc_encode_types(types) ==
  encode_types_add(types, "int") \o encode_types_add(types, "float") \o encode_types_add(types, "double")
  \o encode_types_add(types, "int[]") \o encode_types_add(types, "float[]") \o encode_types_add(types, "blob")

\* parse_permission, parse_echo_mode, parse_intconv_mode; "" is an option that
\* is not given.
EchoMode(s) == IF s = "" THEN "other" ELSE s
IntConvMode(s) == IF s = "" THEN "round" ELSE s

EchoModes == {"all", "other", "xplane", "none"}
IntConvModes == {"round", "floor", "ceil"}

\* What drci_create accepts.  length is NoLength if the request has none;
\* ranges and steps are refused in this build.
NoLength == -2

AcceptsTypes(types, length) ==
  /\ types # {}
  /\ types \subseteq simple_types \/ types \subseteq array_types
  /\ types \subseteq array_types => length >= 0
  /\ types \subseteq simple_types => length = NoLength
  /\ "blob" \in types => types = {"blob"}

AcceptsOptions(types, echo, intConv) ==
  /\ EchoMode(echo) \in EchoModes
  /\ \/ intConv = ""
     \/ intConv \in IntConvModes /\ "blob" \notin types

\* The views that are kept: all simple ones, but only the arrays asked for.
Views(types) == IF types \subseteq simple_types THEN simple_types ELSE types
PositionsOf(types, length) == IF types \subseteq simple_types THEN {0} ELSE 0 .. length - 1

drci_create(names, commaInName, length, echo, intConv) ==
  LET types == xprc_parse_types(names, commaInName)
  IN  /\ dataref = NoDataref
      /\ AcceptsTypes(types, length) /\ AcceptsOptions(types, echo, intConv)
      /\ dataref' = [types |-> types, length |-> length, echo |-> EchoMode(echo), mode |-> IntConvMode(intConv),
                     stored |-> [v \in Views(types) |-> [k \in PositionsOf(types, length) |-> 0]]]
      /\ written' = [k \in PositionsOf(types, length) |-> NoWrite]
      /\ UNCHANGED echoed

drci_destroy == dataref # NoDataref /\ dataref' = NoDataref /\ written' = << >> /\ echoed' = << >>

-----------------------------------------------------------------------------
(* Values. *)

Even(h) == h % 2 = 0

\* lround: halves away from zero.
lround(h) == IF Even(h) THEN h ELSE IF h > 0 THEN h + 1 ELSE h - 1

\* floor, ceil or nothing, then lround
Rounded(h, mode) ==
  CASE mode = "floor" -> lround(IF Even(h) THEN h ELSE h - 1)
    [] mode = "ceil"  -> lround(IF Even(h) THEN h ELSE h + 1)
    [] OTHER          -> lround(h)

\* float2int, double2int
ToInteger(h, mode) == ToInt(Rounded(h, mode))

IsInteger(type) == type \in {"int", "int[]"}
IsFloat(type) == type \in {"float", "float[]"}

\* A value that was written through type, as the view v stores it.
Converted(v, type, value, mode) ==
  IF IsInteger(v) /\ ~IsInteger(type) THEN ToInteger(value, mode)
  ELSE IF IsFloat(v) /\ ~IsFloat(type) THEN ToFloat(value)
  ELSE value

\* MUTANT of apply_value: the other views are left as they are.
OwnViewOnly(d, type, value, k) == [d EXCEPT !.stored[type][k] = value]

\* apply_value: all views at position k take the value.
apply_value(d, type, value, k) ==
  [d EXCEPT !.stored =
     [v \in DOMAIN d.stored |->
        [d.stored[v] EXCEPT ![k] = Converted(v, type, value, d.mode)]]]

\* should_echo; source is "owner", "other" or "xplane".
should_echo(d, source) ==
  CASE d.echo = "none"  -> FALSE
    [] d.echo = "other" -> source # "owner"
    [] OTHER            -> source = "xplane" \/ d.echo = "all"

\* dump_values: the views of the dataref's types, in this order.
dump_values(d) ==
  LET order == xprc_encode_types(d.types) IN [n \in DOMAIN order |-> d.stored[order[n]]]

Wrote(d, source) ==
  /\ dataref' = d
  /\ echoed' = IF should_echo(d, source) THEN dump_values(d) ELSE << >>

\* dataproxy_simple_set, drci_simple_set
drci_simple_set(type, value, source) ==
  /\ type \in dataref.types \intersect simple_types
  /\ Wrote(apply_value(dataref, type, value, 0), source)
  /\ written' = [written EXCEPT ![0] = [type |-> type, value |-> value]]

\* get_actual_count: an excessive count is cut, an offset behind the end an error.
Available(d, offset, count) ==
  IF d.length - offset < 1 THEN 0 ELSE IF d.length - offset < count THEN d.length - offset ELSE count

\* The first n values are applied one after the other.
Applied(d, type, values, offset, n) ==
  LET updated[k \in 0 .. n] ==
        IF k = 0 THEN d ELSE apply_value(updated[k - 1], type, values[k], offset + k - 1)
  IN  updated

\* dataproxy_array_update, drci_array_update
drci_array_update(type, values, offset, source) ==
  LET n == Available(dataref, offset, Len(values))
  IN  /\ type \in dataref.types \intersect array_types
      /\ n > 0
      /\ Wrote(Applied(dataref, type, values, offset, n)[n], source)
      /\ written' = [k \in DOMAIN written |->
                       IF k \in offset .. offset + n - 1
                       THEN [type |-> type, value |-> values[k - offset + 1]] ELSE written[k]]

\* drci_simple_get and drci_array_get behind dataproxy_simple_get and
\* dataproxy_array_get: what the reader gets, or an error.
ReadError == [ok |-> FALSE, values |-> << >>]

drci_simple_get(type) ==
  IF type \notin dataref.types \intersect simple_types THEN ReadError
  ELSE [ok |-> TRUE, values |-> <<dataref.stored[type][0]>>]

drci_array_get(type, offset, count) ==
  LET n == Available(dataref, offset, count)
  IN  IF type \notin dataref.types \intersect array_types THEN ReadError
      ELSE IF count = 0 THEN [ok |-> TRUE, values |-> << >>]
      ELSE IF n = 0 THEN ReadError
      ELSE [ok |-> TRUE, values |-> [k \in 1 .. n |-> dataref.stored[type][offset + k - 1]]]

drci_array_length(type) ==
  IF type \notin dataref.types \intersect array_types THEN 0 ELSE dataref.length

\* Numbers a writer can give for a type.
Suitable(type) ==
  {h \in Written : /\ IsInteger(type) => h \in Ints
                   /\ IsFloat(type) => h \in Floats
                   /\ type = "blob" => Even(h)}

Create ==
  /\ dataref = NoDataref
  /\ \E n \in 1 .. 3 : \E names \in [1 .. n -> simple_types \union array_types \union {"?"}],
        length \in {NoLength} \union (-1 .. MaxLength), commaInName \in BOOLEAN,
        echo \in EchoModes \union {"", "?"}, intConv \in IntConvModes \union {"", "?"} :
       drci_create(names, commaInName, length, echo, intConv)

Write ==
  /\ dataref # NoDataref
  /\ \E type \in dataref.types, source \in {"owner", "other", "xplane"} :
       \/ \E value \in Suitable(type) : drci_simple_set(type, value, source)
       \/ \E n \in 1 .. MaxLength + 1 : \E values \in [1 .. n -> Suitable(type)], offset \in 0 .. MaxLength :
            drci_array_update(type, values, offset, source)

DatarefNext == Create \/ Write \/ drci_destroy

DatarefSpec == DatarefInit /\ [][DatarefNext]_datarefVars

-----------------------------------------------------------------------------
(* Properties. *)

\* The integer a number becomes, by definition: the nearest one on the side
\* that the mode asks for, or the nearest at all and the farther from zero of two.
Distance(a, b) == IF a < b THEN b - a ELSE a - b
IntegerOf(h, mode) ==
  CHOOSE e \in h - 1 .. h + 1 :
    /\ Even(e)
    /\ mode = "floor" => e <= h
    /\ mode = "ceil" => e >= h
    /\ mode = "round" => Distance(e, 0) >= Distance(h, 0)

ExpectedView(type, k) ==
  LET w == written[k]
  IN  IF IsInteger(type) THEN ToInt(IntegerOf(w.value, dataref.mode))
      ELSE IF IsFloat(type) THEN ToFloat(w.value)
      ELSE w.value

\* Whatever was written through which type, every view shows the last value
\* written to each position: rounded as the client asked if it shows integers,
\* and exactly if its type holds that number; otherwise it shows what C's
\* conversion to float or to a 32 bit int gives, once and not of a value that was
\* narrowed before.  Reads and writes that reach over the end of an array are
\* cut there and those that begin behind it do nothing; an echo shows the owner
\* the same values, one for each of its types (apply_value, drci_simple_get,
\* drci_array_get, drci_array_update, dump_values).
ViewsAgree ==
  dataref # NoDataref =>
    /\ \A type \in dataref.types \intersect simple_types :
         drci_simple_get(type) = [ok |-> TRUE, values |-> <<ExpectedView(type, 0)>>]
    /\ \A type \in dataref.types \intersect array_types, offset, count \in 0 .. MaxLength + 1 :
         LET r == drci_array_get(type, offset, count)
             inside == {k \in DOMAIN written : offset <= k /\ k < offset + count}
         IN  /\ r.ok = (count = 0 \/ inside # {})
             /\ DOMAIN r.values = {k - offset + 1 : k \in inside}
             /\ \A k \in inside : r.values[k - offset + 1] = ExpectedView(type, k)
             /\ drci_array_length(type) = dataref.length
    /\ echoed # << >> =>
         \E order \in [1 .. Len(echoed) -> dataref.types] :
           /\ \A type \in dataref.types : \E n \in DOMAIN order : order[n] = type
           /\ xprc_parse_types(order, FALSE) = dataref.types
           /\ \A n \in DOMAIN order : \A k \in DOMAIN written : echoed[n][k] = ExpectedView(order[n], k)
=============================================================================
