------------------------------ MODULE MCIpcPipe ------------------------------
EXTENDS IpcPipe

(* A traced frame whose tag is one byte too long, a JSON text without      *)
(* trace written by Write, and a frame whose trace id is empty.            *)
MCContent ==
  << [via |-> "WriteRaw", payload |-> <<123, 125>>,
      trace |-> <<[tag |-> [i \in 1 .. 33 |-> 97 + (i % 20)],
                   timestamp |-> <<0, 0, 1, 160, 95, 119, 255, 0>>]>>],
     [via |-> "Write", payload |-> <<123, 34, 116, 115, 34, 58, 49, 125>>,
      trace |-> <<>>],
     [via |-> "WriteRaw", payload |-> <<91, 93>>, trace |-> <<>>] >>
=============================================================================
