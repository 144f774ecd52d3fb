------------------------------ MODULE Js320Part -----------------------------
(* What the parts of the JS320 driver (js320_fwup.c, js320_cal.c and          *)
(* js320_jtag.c) have in common.  A function of a part is an operator that    *)
(* takes the part's state and returns what the function leaves behind: the    *)
(* state s, the messages published to the device, the answers sent to the     *)
(* application, and the timeout of the device's only timer                    *)
(* (jsdrvp_mb_dev_set_timeout): Leave, 0 to stop it, or the delay.            *)
EXTENDS Integers, Sequences

Leave == -1

Result(s, dev, rsp, tmr) == [s |-> s, dev |-> dev, rsp |-> rsp, tmr |-> tmr]

Stay(s) == Result(s, <<>>, <<>>, Leave)

\* A message for the device; who it is from is known to the model only.
Msg(who, to, op, at, data, id) == [who |-> who, to |-> to, op |-> op, at |-> at, data |-> data, id |-> id]

Answer(who, id, status) == <<[who |-> who, id |-> id, status |-> status]>>

\* One function after the other
Then(r, q) == Result(q.s, r.dev \o q.dev, r.rsp \o q.rsp, IF q.tmr = Leave THEN r.tmr ELSE q.tmr)
==============================================================================
