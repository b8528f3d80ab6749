------------------------------ MODULE GetMethods ------------------------------
(***************************************************************************)
(* Get-methods through the three clients - tonutils/clients/lite/mixin.py, *)
(* clients/http/toncenter.py, clients/http/tonapi.py: the arguments each   *)
(* puts on the stack of the TVM, what each makes of the stack that comes   *)
(* back - and dnsresolve() of clients/base.py, which reads such stacks.    *)
(*                                                                         *)
(* A value is its kind and, of a tuple or a list, what it holds.  Kept     *)
(* apart is a slice or a cell that holds an address.  The method that is   *)
(* called returns its arguments and some values of its own.                *)
(***************************************************************************)
EXTENDS Naturals, Sequences

CONSTANTS Depth,       (* bound: how deep lists and tuples are nested *)
          Arguments,   (* sequences of Python values to call a method with *)
          Returned,    (* sequences of TVM values a method may add *)
          VmAddresses, (* ton_core reads a slice that holds an address as an Address *)
          Domain,      (* bytes of a name to resolve *)
          Resolvers    (* what a resolver says of the last n bytes of it *)

Libraries == {"lite", "toncenter", "tonapi"}
Value(kind) == [kind |-> kind, of |-> <<>>]
Nothing == <<Value("nothing")>>
Raises(error) == <<Value(error)>>

(* Sequences of values of these kinds, by the depth of what they hold. *)
Items(kinds, held) == [kind : kinds, of : {<<>>}] \cup
                      [kind : kinds \cap {"list", "tuple"}, of : held]
Stacks(kinds) ==
  LET upTo[d \in Nat] == IF d = 0 THEN {<<>>} ELSE Seq(Items(kinds, upTo[d - 1]))
  IN upTo

(* An argument of kind "Slice" holds no address: one that does is sent as  *)
(* the Address is.  A "list" of the TVM is one of pairs, as in Lisp.       *)
PythonKinds == {"None", "int", "Address", "Cell", "Slice", "list", "other"}
TvmKinds == {"null", "num", "nan", "cell", "slice", "address", "addressCell", "tuple",
             "list", "builder", "other"}
ValueKinds == PythonKinds \cup TvmKinds

ASSUME MethodsAssumption ==
  /\ Depth \in Nat \ {0} /\ Domain \in Nat \ {0} /\ VmAddresses \in BOOLEAN
  /\ Arguments \subseteq Stacks(PythonKinds)[Depth]
  /\ Returned \subseteq Stacks(TvmKinds)[Depth]
  /\ Resolvers \subseteq [1..Domain -> [stack : Stacks(TvmKinds)[Depth], rlen : Nat]]

VARIABLES given, returned, exit,  (* arguments; what the method adds; exit_code *)
          got,      (* what a client has returned or raised *)
          resolver, (* the resolver contracts *)
          bytesLeft,     (* bytes each client has still to resolve *)
          resolved     (* what its dnsresolve() came to, "" before *)
methods == <<given, returned, exit, got, resolver, bytesLeft, resolved>>

MethodsInit ==
  /\ given \in Arguments /\ returned \in Returned /\ exit \in {"missing", "0", "11"}
  /\ got = [c \in Libraries |-> Nothing]
  /\ resolver \in Resolvers
  /\ bytesLeft = [c \in Libraries |-> Domain] /\ resolved = [c \in Libraries |-> ""]
------------------------------------------------------------------------------
(* The loop over a stack leaves out the values of a kind it does not know, *)
(* and the ones behind it move up.                                         *)
Kept(items, kinds) ==
  LET out[n \in 0..Len(items)] ==
        IF n = 0 THEN <<>>
        ELSE IF items[n].kind \in kinds THEN Append(out[n - 1], items[n]) ELSE out[n - 1]
  IN out[Len(items)]

(* The rest become what the table says, and what they hold goes through    *)
(* nested.  Convert: a table that is used for nested values as well.       *)
Renamed(items, table, nested) ==
  LET known == Kept(items, DOMAIN table)
  IN [i \in DOMAIN known |-> [kind |-> table[known[i].kind], of |-> nested[known[i].of]]]
Convert(table) ==
  LET upTo[d \in Nat] ==
        IF d = 0 THEN [items \in {<<>>} |-> <<>>]
        ELSE [items \in Stacks(ValueKinds)[d] |-> Renamed(items, table, upTo[d - 1])]
  IN upTo

(* _encode_stack(): the kinds that a client knows, and what they become.   *)
LiteEncodes == [int |-> "num", Address |-> "address", Cell |-> "cell", Slice |-> "slice",
                list |-> "tuple"]
ToncenterEncodes == LiteEncodes
TonapiEncodes == [None |-> "null", int |-> "num", Address |-> "address", Cell |-> "cell",
                  Slice |-> "slice"]
Encodes == [lite |-> LiteEncodes, toncenter |-> ToncenterEncodes, tonapi |-> TonapiEncodes]

EncodeStack(client, items) ==
  Renamed(items, Encodes[client], Convert(Encodes[client])[Depth - 1])

(* _decode_stack(): norm_stack_cell() takes the address out of what holds  *)
(* one.  The servers of Toncenter and Tonapi send a list as its elements,  *)
(* which a lite client has as pairs within pairs; where ton_core has read  *)
(* a slice as an Address, the lite client makes a cell of it again.  Only  *)
(* Tonapi has a name for NaN; here the others do not know it.              *)
ToncenterDecodes ==
  [null |-> "None", num |-> "int", cell |-> "Cell", slice |-> "Cell",
   address |-> "Address", addressCell |-> "Address", tuple |-> "list", list |-> "list"]

(* Mutant of TonapiDecodes: None is left out, and what is behind it moves up. *)
NoNulls ==
  [num |-> "int", cell |-> "Cell", slice |-> "Cell",
   address |-> "Address", addressCell |-> "Address", tuple |-> "list", list |-> "list"]
TonapiDecodes ==
  [null |-> "None", nan |-> "None", num |-> "int", cell |-> "Cell", slice |-> "Cell",
   address |-> "Address", addressCell |-> "Address", tuple |-> "list", list |-> "list"]
LiteDecodes ==
  [ToncenterDecodes EXCEPT !.address = IF VmAddresses THEN "Cell" ELSE "Address",
                           !.list = "pairs"]
Decodes == [lite |-> LiteDecodes, toncenter |-> ToncenterDecodes, tonapi |-> TonapiDecodes]

(* _decode_entry(): Toncenter has another form for what is in a tuple, of  *)
(* which the client knows builders too and makes None of the unknown.      *)
DecodeEntry ==
  [k \in ValueKinds |-> IF k \in DOMAIN ToncenterDecodes THEN ToncenterDecodes[k]
                          ELSE IF k = "builder" THEN "Cell" ELSE "None"]

Nested == [Decodes EXCEPT !.toncenter = DecodeEntry]
DecodeStack(client, items) ==
  Renamed(items, Decodes[client], Convert(Nested[client])[Depth - 1])
------------------------------------------------------------------------------
(* run_get_method(), whose answer may have no result in it.                *)
RunLite(stack) ==
  CASE exit = "missing" -> Raises("ProviderError")
    [] exit = "11" -> Raises("RunGetMethodError")
    [] exit = "0" -> DecodeStack("lite", stack)
RunToncenter(stack) ==
  CASE exit = "missing" -> <<>>
    [] exit = "11" -> Raises("RunGetMethodError")
    [] exit = "0" -> DecodeStack("toncenter", stack)
RunTonapi(stack) ==
  CASE exit = "missing" -> Raises("ProviderError")
    [] exit = "11" -> Raises("RunGetMethodError")
    [] exit = "0" -> DecodeStack("tonapi", stack)

RunMethod(client) ==
  /\ got[client] = Nothing
  /\ LET stack == EncodeStack(client, given) \o returned
     IN got' = [got EXCEPT ![client] = CASE client = "lite" -> RunLite(stack)
                                         [] client = "toncenter" -> RunToncenter(stack)
                                         [] client = "tonapi" -> RunTonapi(stack)]
  /\ UNCHANGED <<given, returned, exit, resolver, bytesLeft, resolved>>

(* One request of dnsresolve(): the bits resolved and a cell, the record   *)
(* once they are all of the name, else the resolver to ask for the rest.   *)
DnsResolve(client) ==
  LET said == resolver[bytesLeft[client]]
      res == DecodeStack(client, said.stack)
      blen == 8 * bytesLeft[client]
      Ends(how) == resolved' = [resolved EXCEPT ![client] = how] /\ UNCHANGED bytesLeft
  IN /\ resolved[client] = ""
     /\ IF Len(res) < 2 THEN Ends("ProviderError")
        ELSE IF res[2].kind = "None" THEN Ends("None")
        ELSE IF res[1].kind # "int" THEN Ends("TypeError")
        ELSE IF said.rlen % 8 # 0 \/ said.rlen > blen THEN Ends("ProviderError")
        ELSE IF res[2].kind # "Cell" THEN Ends("AttributeError")
        ELSE IF said.rlen = blen THEN Ends("record")
        ELSE /\ bytesLeft' = [bytesLeft EXCEPT ![client] = @ - said.rlen \div 8]
             /\ UNCHANGED resolved
     /\ UNCHANGED <<given, returned, exit, got, resolver>>

MethodsNext == \E client \in Libraries : RunMethod(client) \/ DnsResolve(client)
MethodsSpec == MethodsInit /\ [][MethodsNext]_methods
------------------------------------------------------------------------------
(* What two libraries read alike, nested values included.  A lite client   *)
(* has lists, and slices that hold an address, otherwise than the others.  *)
Common(c, d) == {"null", "num", "cell", "slice", "addressCell", "tuple"} \cup
                (IF "lite" \in {c, d} THEN {} ELSE {"address", "list"})
Carried(stack, c, d) ==
  \A i \in DOMAIN stack :
    /\ stack[i].kind \in Common(c, d) \cup {"builder", "other"}
    /\ stack[i].kind \in {"tuple", "list"} => stack[i].of \in Stacks(Common(c, d))[Depth - 1]

(* And what both send: no None and no list, of which each leaves out the   *)
(* one or the other; an address only where it comes back as one.           *)
Portable(c, d) ==
  /\ \A i \in DOMAIN given :
       given[i].kind \in {"int", "Cell", "Slice", "other"} \cup
                         (IF "lite" \in {c, d} THEN {} ELSE {"Address"})
  /\ Carried(returned, c, d)

(* A program may change its client, within the bounds above: with values   *)
(* that two libraries carry alike they return the same list of a           *)
(* get-method, or raise the same error, and dnsresolve() comes to the same *)
(* end of a name over resolvers that answer with such values.              *)
ClientsAgree ==
  \A c, d \in Libraries :
    /\ Portable(c, d) /\ exit # "missing" /\ Nothing \notin {got[c], got[d]} => got[c] = got[d]
    /\ (\A n \in 1..Domain : Carried(resolver[n].stack, c, d))
       /\ "" \notin {resolved[c], resolved[d]} => resolved[c] = resolved[d]
==============================================================================
