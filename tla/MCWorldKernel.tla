---------------------------- MODULE MCWorldKernel ----------------------------
EXTENDS WorldKernel
CONSTANTS a, b, x, y

MCRecipient == [s \in Seeds |-> IF s = x THEN a ELSE b]
MCEnergy == [p \in {a, b} |-> IF p = a THEN 5 ELSE 0]
Do(kind, to, amount) == [kind |-> kind, to |-> to, amount |-> amount]
(* Tools and births, whose effects lie outside the database; money and mail. *)
MCReplies == [s \in Seeds |->
  IF s = x THEN {<<Do("TOOL", a, 0), Do("TOOL", a, 0), Do("TRANSFER", b, 1)>>,
                 <<Do("REPRODUCE", b, 1), Do("ROUTE", b, 0)>>,
                 <<Do("READ", a, 0), Do("TRANSFER", b, 1), Do("REPRODUCE", b, 1)>>}
           ELSE {<<>>}]
=============================================================================
