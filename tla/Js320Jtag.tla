------------------------------ MODULE Js320Jtag -----------------------------
(* js320_jtag.c: the state machine that burns the AES key of the FPGA.  A     *)
(* state enters with a batch of JTAG commands; the device answers each shift, *)
(* and the answer in target place is kept.  The bits that are checked of an   *)
(* answer are abstract: "id", "status", "key" and "fea" say what was read.    *)
EXTENDS Js320Part

NoJtag == [st |-> "IDLE", id |-> 0, flags |-> {}, code |-> FALSE, left |-> 0, idx |-> 0, target |-> 255, buf |-> <<>>]

\* The shifts of a state's batch: what each one does; "-" shifts only.
Shifts(st) ==
    CASE st = "READ_IDCODE" -> <<"-", "id">>
      [] st \in {"ISC_ENABLE", "INIT_ADDRESS"} -> <<"-", "-", "-">>
      [] st = "READ_STATUS" -> <<"-", "-", "status">>
      [] st = "READ_CIPHER" -> <<"-", "-", "key">>
      [] st = "PROG_CIPHER" -> <<"-", "burn key", "-">>
      [] st = "PROG_EO" -> <<"-", "burn eo", "-">>
      [] st = "PROG_KL" -> <<"-", "burn kl", "-">>
      [] st \in {"VERIFY_EO", "VERIFY_KL"} -> <<"-", "-", "fea">>
      [] st = "ISC_DISABLE" -> <<"-", "-", "-", "-">>

Target(st) ==
    CASE st = "READ_IDCODE" -> 1
      [] st \in {"READ_STATUS", "READ_CIPHER", "VERIFY_EO", "VERIFY_KL"} -> 2
      [] OTHER -> 255

\* jtag_goto, jtag_shift, jtag_wait_us, ecp_jtag_cmd: the shift is what is answered.
JtagShift(what) == Msg("jtag", "jtag", "shift", 0, what, -1)

BurnDelay(st) == IF st = "KEY_BURN_WAIT" THEN 5 ELSE 2

AesRsp(j, status) == Answer("jtag", j.id, status)

\* aes_state_transition: the on_enter function of the state
Enter(j, st) ==
    CASE st \in {"KEY_BURN_WAIT", "EO_BURN_WAIT", "KL_BURN_WAIT"} ->
           Result([j EXCEPT !.st = st], <<>>, <<>>, BurnDelay(st))
      [] st = "DONE" -> Result([j EXCEPT !.st = "IDLE"], <<>>, AesRsp(j, IF j.code THEN "io" ELSE "ok"), Leave)
      [] OTHER ->
           Result([j EXCEPT !.st = st, !.left = Len(Shifts(st)), !.idx = 0, !.target = Target(st), !.buf = <<>>],
                  [k \in DOMAIN Shifts(st) |-> JtagShift(Shifts(st)[k])], <<>>, Leave)

\* A guard that fails notes the error.
Bad(j) == [j EXCEPT !.code = TRUE]

\* Faulty: the key is burnt whatever the fuses hold.
CipherTrusted(j) == Enter(j, "PROG_CIPHER")

CipherRead(j) == IF j.buf = <<"blank">> THEN Enter(j, "PROG_CIPHER") ELSE Enter(Bad(j), "ISC_DISABLE")

\* guard_idcode_ok, guard_status_ok, guard_eo_ok, guard_kl_ok
GuardOk(j) ==
    CASE j.st = "READ_IDCODE" -> j.buf = <<"ecp5">>
      [] j.st = "READ_STATUS" -> j.buf = <<"ready">>
      [] j.st = "VERIFY_EO" -> j.buf \in {<<"eo">>, <<"eo", "kl">>}
      [] j.st = "VERIFY_KL" -> j.buf \in {<<"kl">>, <<"eo", "kl">>}

\* The transitions on AES_EV_JTAG_RSP
OnJtagRsp(j) ==
    CASE j.st = "READ_IDCODE" -> IF GuardOk(j) THEN Enter(j, "ISC_ENABLE") ELSE Enter(Bad(j), "DONE")
      [] j.st = "ISC_ENABLE" -> Enter(j, "READ_STATUS")
      [] j.st = "READ_STATUS" -> IF GuardOk(j) THEN Enter(j, "INIT_ADDRESS") ELSE Enter(Bad(j), "ISC_DISABLE")
      [] j.st = "INIT_ADDRESS" -> Enter(j, "READ_CIPHER")
      [] j.st = "READ_CIPHER" -> CipherRead(j)
      [] j.st = "PROG_CIPHER" -> Enter(j, "KEY_BURN_WAIT")
      [] j.st = "PROG_EO" -> Enter(j, "EO_BURN_WAIT")
      [] j.st = "PROG_KL" -> Enter(j, "KL_BURN_WAIT")
      [] j.st = "VERIFY_EO" ->
           IF ~GuardOk(j) THEN Enter(Bad(j), "ISC_DISABLE")
           ELSE IF "kl" \in j.flags THEN Enter(j, "PROG_KL") ELSE Enter(j, "ISC_DISABLE")
      [] j.st = "VERIFY_KL" ->
           Enter(IF GuardOk(j) THEN j ELSE Bad(j), "ISC_DISABLE")
      [] j.st = "ISC_DISABLE" -> Enter(j, "DONE")
      [] OTHER -> Stay(j)

\* js320_jtag_on_timeout: the transitions on AES_EV_TIMER
JtagOnTimeout(j) ==
    CASE j.st = "KEY_BURN_WAIT" ->
           IF "eo" \in j.flags THEN Enter(j, "PROG_EO")
           ELSE IF "kl" \in j.flags THEN Enter(j, "PROG_KL") ELSE Enter(j, "ISC_DISABLE")
      [] j.st = "EO_BURN_WAIT" -> Enter(j, "VERIFY_EO")
      [] j.st = "KL_BURN_WAIT" -> Enter(j, "VERIFY_KL")
      [] OTHER -> Stay(j)

JtagHandleCmd(j, cmd) ==
    IF j.st # "IDLE" THEN Result([j EXCEPT !.id = cmd.id], <<>>, Answer("jtag", cmd.id, "busy"), Leave)
    ELSE IF cmd.op = "malformed" THEN Result(j, <<>>, AesRsp(j, "invalid"), Leave)
    ELSE Enter([j EXCEPT !.id = cmd.id, !.flags = cmd.flags, !.code = FALSE], "READ_IDCODE")

JtagTakes(j) == j.st # "IDLE"

\* js320_jtag_handle_publish: whatever the answer is to, it counts.
JtagRsp(j, rsp) ==
    LET k == [j EXCEPT !.buf = IF j.idx = j.target THEN rsp.data ELSE @, !.idx = @ + 1, !.left = (@ - 1) % 256] IN
    IF k.left = 0 THEN OnJtagRsp(k) ELSE Stay(k)

JtagOnClose(j) == Result([j EXCEPT !.st = "IDLE"], <<>>, <<>>, IF j.st # "IDLE" THEN 0 ELSE Leave)
==============================================================================
