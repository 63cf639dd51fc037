------------------------------ MODULE MCHosts ------------------------------
EXTENDS Hosts

In(is, to) == [is |-> is, to |-> to]
Command1(c, in, g) ==
  [host |-> "cli", command |-> c, inputs |-> <<in>>, config |-> g, addon |-> FALSE, hangs |-> FALSE]
Commands ==
  {Command1(c, In(is, to), g) : c \in {"notify", "preview"}, g \in {"ok", "bad"},
     is \in {"valid", "invalid", "garbled"}, to \in {"direct", "grouped", "both"}}
  \union {Command1("lifecycle", In(is, "direct"), "ok") : is \in {"valid", "invalid"}}
Batches ==
  {[host |-> "cli", command |-> "batch", inputs |-> ins, config |-> "ok",
    addon |-> FALSE, hangs |-> FALSE] :
     ins \in [1 .. 3 -> {In("valid", "direct"), In("valid", "grouped"), In("valid", "both"),
                         In("invalid", "direct")}]}
Programs ==
  {[host |-> h, command |-> "none", inputs |-> <<>>, config |-> g, addon |-> a, hangs |-> x] :
     h \in {"python", "c"}, g \in {"ok", "bad"}, a \in BOOLEAN, x \in BOOLEAN}

MCProcesses == Commands \union Batches \union Programs
=============================================================================
