----------------------------- MODULE MCModbusTcp -----------------------------
(***************************************************************************)
(* A write of one register, a multi-write that ends at an illegal address  *)
(* after its first register, a frame that is not Modbus, one whose length  *)
(* is impossible.                                                          *)
(***************************************************************************)
EXTENDS ModbusTcp

Pdu(fc, start, field, bytes, data, len) ==
    [fc |-> fc, start |-> start, field |-> field, bytes |-> bytes, data |-> data, len |-> len]
MCFrames ==
    {[proto |-> 0, q |-> Pdu(6, 8255, 5, 0, << >>, 6)],
     [proto |-> 0, q |-> Pdu(16, 8255, 2, 4, <<7, 8>>, 11)],
     [proto |-> 1, q |-> Pdu(6, 8255, 6, 0, << >>, 6)],
     [proto |-> 0, q |-> Pdu(0, 0, 0, 0, << >>, 0)]}

==============================================================================
