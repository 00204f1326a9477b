------------------------------ MODULE MCModbus ------------------------------
(* Five registers (a line of two, a float of two, a spare one) and ten     *)
(* coils, so that the last byte of coils is not full.  Every request with  *)
(* legal and illegal fields is answered in every state; the master sends   *)
(* some of them.                                                           *)
EXTENDS Modbus

MCLines  == {<< >>, <<1>>, <<2, 1, 2>>}
MCFloats == {<<1, 2, 0, 1>>}
MCWords  == {<<0, 1>>, <<2, 1>>}
MCBytes  == 0 .. 2

Req(fc, start, quantity, len) ==
  [good |-> TRUE, addr |-> MB_SLAVE_ADDR, fc |-> fc, start |-> start,
   quantity |-> quantity, len |-> len, count |-> 0, data |-> << >>]

Singles ==
  {Req(fc, start, q, 8) : fc \in {1, 3}, start \in {0, 1, 4, 8, 65535},
                          q \in {0, 1, 2, 3, 4, 9, 10, 13}}
  \cup {Req(fc, start, 3, 8) : fc \in {2, 4, 7, 135}, start \in {1, 3, 10}}
  \cup {Req(fc, 1, 1, len) : fc \in {1, 3, 5, 6}, len \in {5, 6}}
  \cup {Req(5, start, v, 8) : start \in {0, 8, 9, 10}, v \in {0, 1, 65280}}
  \cup {Req(6, start, v, 8) : start \in {0, 4, 5}, v \in {1, 513}}

(* Multiple writes: byte count right or wrong, frame whole or cut short.   *)
Coils15 ==
  {[Req(15, start, q, 9 + n - cut) EXCEPT !.count = n, !.data = d] :
     start \in {1, 7, 8}, q \in {0, 3, 9}, n \in 1 .. 2, cut \in 0 .. 1,
     d \in {<<{0, 2}, {0}>>, <<{1, 7}, {}>>}}
Regs16 ==
  {[Req(16, start, q, 9 + n - cut) EXCEPT !.count = n, !.data = d] :
     start \in {2, 3, 4}, q \in 0 .. 3, n \in {2, 4, 6}, cut \in 0 .. 1,
     d \in {<<w, <<2, 1>>, w>> : w \in MCWords}}

NotForUs ==
  {[Req(6, 4, 1, 8) EXCEPT !.good = FALSE], [Req(6, 4, 1, 8) EXCEPT !.addr = 2],
   Req(6, 4, 1, 3)}

MCRequests == Singles \cup Coils15 \cup Regs16 \cup NotForUs

(* The master writes the float, whole or by halves, and coils, but not the *)
(* line, which the map marks as read-only.                                 *)
MCSent ==
  {r \in Regs16 : r.start \in 2 .. 3 /\ r.len = 9 + r.count /\ r.count = 2 * r.quantity}
  \cup {r \in Coils15 : r.start = 7 /\ r.quantity = 3 /\ r.data[1] = {0, 2}}
=============================================================================
