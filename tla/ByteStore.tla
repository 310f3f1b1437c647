----------------------------- MODULE ByteStore -----------------------------
(***************************************************************************)
(* What the disk driver promises: a store of bytes, of which any stretch   *)
(* can be read or written.  It knows no sectors.  A write that fails may   *)
(* have stored some of its bytes, and nothing elsewhere.  DiskDriver       *)
(* implements it.                                                          *)
(***************************************************************************)
EXTENDS Naturals, Sequences

VARIABLES
  bytes,         (* bytes[a]: the byte at address a                        *)
  request,       (* the request being served, or NoRequest                 *)
  answer         (* to the last request                                    *)

svars == <<bytes, request, answer>>

NoRequest == [op |-> "none", at |-> 0, data |-> <<>>]
NoAnswer  == [ok |-> FALSE, data |-> <<>>]

Stretch == request.at .. request.at + Len(request.data) - 1
Datum(a) == request.data[a - request.at + 1]
Stored  == [k \in DOMAIN request.data |-> bytes[request.at + k - 1]]

(* A read asks for as many bytes as its data has.                          *)
Ask ==
  /\ request = NoRequest /\ request'.op \in {"read", "write"}
  /\ answer' = NoAnswer
  /\ UNCHANGED bytes

Store ==
  /\ request.op = "write"
  /\ \E some \in SUBSET Stretch :
       bytes' = [a \in DOMAIN bytes |-> IF a \in some THEN Datum(a) ELSE bytes[a]]
  /\ UNCHANGED <<request, answer>>

Answer ==
  /\ request # NoRequest /\ request' = NoRequest
  /\ \/ answer'.ok /\ answer'.data = Stored /\ (request.op = "write" => Stored = request.data)
     \/ ~answer'.ok
  /\ UNCHANGED bytes

Init == request = NoRequest /\ answer = NoAnswer
Next == Ask \/ Store \/ Answer
Spec == Init /\ [][Next]_svars
=============================================================================
