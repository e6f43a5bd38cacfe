-------------------------------- MODULE Ps2 --------------------------------
(***************************************************************************)
(* Start-up of the PS/2 controller (ps2_init, ps2_identify_device of       *)
(* arch/i386/drivers/ps2.c) and of the keyboard (keyboard_init and         *)
(* send_command of keyboard.c).                                            *)
(*                                                                         *)
(* The controller and its devices are outside the program.  "hw" says what *)
(* is plugged in; "out" is what waits in the output buffer; a device       *)
(* answers a byte with ACK or asks for it again; a byte of a device's own  *)
(* accord (its power-on report) may stand in front of an answer.  A wait  *)
(* of the driver ends when the controller is ready or its timeout fires.   *)
(***************************************************************************)
EXTENDS Integers, FiniteSets, Sequences

CONSTANTS MaxFaults, \* timeouts, requests to resend
          MaxStray   \* bytes nobody asked for

VARIABLES pc, ccb, dual_channel, online, device,  \* ps2.c
          keyboard_on_port2, command, retry,      \* keyboard.c
          hw, enabled, out, scan, faults, stray

ps2Vars == <<ccb, dual_channel, online, device>>
hwVars == <<hw, enabled>>
vars == <<pc, ccb, dual_channel, online, device, keyboard_on_port2, command, retry, hw, enabled, out, scan, faults, stray>>

Port == {1, 2}
Devices == {"none", "keyboard", "mouse", "unknown"}
ACK == "ack"
RESEND == "resend"

\* What keyboard_init sends, each byte by one send_command.  After the fourth the
\* answer is read and not looked at.
Commands == <<"set", "2", "set", "0", "scan">>

Init == /\ pc = "flush" /\ ccb = {} /\ dual_channel = FALSE /\ online = {}
        /\ device = [p \in Port |-> "none"] /\ keyboard_on_port2 = FALSE /\ command = 1 /\ retry = 0
        /\ hw \in [dual : BOOLEAN, works : BOOLEAN, dev : [Port -> Devices]]
        /\ ~hw.dual => hw.dev[2] = "none"
        /\ enabled = {0, 1, 4, 6} /\ out \in {<<>>, <<"key">>}
        /\ scan = [p \in Port |-> [on |-> TRUE, arg |-> FALSE, set |-> "1"]] /\ faults = 0 /\ stray = 0

Panic == pc' = "panic" /\ UNCHANGED <<ps2Vars, hwVars, keyboard_on_port2, command, retry, out, scan, stray>>

\* A wait of ps2_send_com, ps2_send_data or ps2_read_data times out: abort().  So
\* does keyboard_init when the keyboard does not answer.
WaitTimesOut == /\ pc \in {"flush", "ccb", "test", "dual", "port1", "port2", "enable", "reply", "value"}
                /\ faults < MaxFaults /\ faults' = faults + 1 /\ Panic

\* ps2_init: ports off, output buffer flushed.
Flush == /\ pc = "flush" /\ pc' = "ccb"
         /\ out' = <<>> /\ enabled' = enabled \cup (IF hw.dual THEN {4, 5} ELSE {4})
         /\ UNCHANGED <<ps2Vars, hw, keyboard_on_port2, command, retry, scan, faults, stray>>

\* Interrupts of port 1 off, translation off, clock of port 1 on.
ConfigurationByte ==
    /\ pc = "ccb" /\ pc' = "test"
    /\ ccb' = enabled \ {0, 4, 6} /\ enabled' = ccb'
    /\ UNCHANGED <<dual_channel, online, device, hw, keyboard_on_port2, command, retry, out, scan, faults, stray>>

\* The controller's self-test; a failure ends ps2_init.
SelfTest == /\ pc = "test" /\ pc' = IF hw.works THEN "dual" ELSE "no_ports"
            /\ UNCHANGED <<ps2Vars, hwVars, keyboard_on_port2, command, retry, out, scan, faults, stray>>

\* Port 2 is enabled (which clears bit 5 if there is one), and the bit that should
\* tell a single channel is looked at.
DualChannel ==
    /\ pc = "dual" /\ pc' = "port1"
    /\ LET after == IF hw.dual THEN enabled \ {5} ELSE enabled \cup {5}
       IN  IF 4 \in after
           THEN enabled' = after /\ ccb' = after /\ UNCHANGED dual_channel
           ELSE enabled' = after \ {1, 5} /\ ccb' = enabled' /\ dual_channel' = TRUE
    /\ UNCHANGED <<online, device, hw, keyboard_on_port2, command, retry, out, scan, faults, stray>>

\* The test of a port: any controller has port 1.  A controller without port 2 may
\* answer nothing (abort), or a failure.
TestPort1 == /\ pc = "port1" /\ pc' = "port2"
             /\ \E ok \in BOOLEAN : online' = IF ok THEN {1} ELSE {}
             /\ UNCHANGED <<ccb, dual_channel, device, hwVars, keyboard_on_port2, command, retry, out, scan, faults, stray>>

TestPort2 == /\ pc = "port2"
             /\ \/ /\ ~hw.dual /\ Panic /\ UNCHANGED faults
                \/ /\ \E ok \in BOOLEAN : (ok => hw.dual) /\ online' = IF ok THEN online \cup {2} ELSE online
                   /\ pc' = IF online' = {} THEN "no_ports" ELSE "enable"
                   /\ UNCHANGED <<ccb, dual_channel, device, hwVars, keyboard_on_port2, command, retry, out, scan, faults, stray>>

InterruptBits == IF online = {} THEN {} ELSE {0}

EnablePorts == /\ pc = "enable" /\ pc' = "identify1"
               /\ ccb' = (enabled \ ((IF 1 \in online THEN {4} ELSE {}) \cup (IF 2 \in online THEN {5} ELSE {})))
                         \cup InterruptBits
               /\ enabled' = ccb'
               /\ UNCHANGED <<dual_channel, online, device, hw, keyboard_on_port2, command, retry, out, scan, faults, stray>>

\* What the driver makes of a device when a byte of its type is late: without the first
\* it is a keyboard of an AT, without the second one it does not know, but for a mouse.
Misread(d) == {"keyboard", IF d = "mouse" THEN d ELSE "unknown"}

\* ps2_identify_device: scanning off and "identify", each acknowledged or abort();
\* then the two bytes of its type, of which one may get lost or come after the timeout.
\* Nothing plugged in never answers; a late byte of the other device is no ACK.
IdentifyDevice(p, from, to) ==
    LET answers == hw.dev[p] # "none" /\ out = <<>> IN
    /\ pc = from
    /\ IF p \notin online THEN pc' = to /\ UNCHANGED <<device, scan, faults, out, stray>>
       ELSE \/ /\ answers /\ pc' = to /\ scan' = [scan EXCEPT ![p].on = FALSE]
               /\ \/ device' = [device EXCEPT ![p] = hw.dev[p]] /\ UNCHANGED <<faults, out, stray>>
                  \/ /\ faults < MaxFaults /\ faults' = faults + 1
                     /\ \E d \in Misread(hw.dev[p]) : device' = [device EXCEPT ![p] = d]
                     /\ \E late \in 0 .. (IF stray < MaxStray THEN 1 ELSE 0) :
                           stray' = stray + late /\ out' = out \o [i \in 1..late |-> "key"]
            \/ /\ ~answers \/ faults < MaxFaults
               /\ pc' = "panic" /\ faults' = IF answers THEN faults + 1 ELSE faults
               /\ UNCHANGED <<device, scan, out, stray>>
    /\ UNCHANGED <<ccb, dual_channel, online, hwVars, keyboard_on_port2, command, retry>>

----------------------------------------------------------------------------
\* keyboard_init: where is the keyboard?
FindKeyboard == /\ pc \in {"kbd", "no_ports"} /\ pc' = "send"
                /\ keyboard_on_port2' = (device[1] # "keyboard" /\ device[2] = "keyboard")
                /\ UNCHANGED <<ps2Vars, hwVars, command, retry, out, scan, faults, stray>>

KeyboardPort == IF keyboard_on_port2 THEN 2 ELSE 1

\* The device gets a byte: it asks for it again, or does what it says and answers.
Answers(byte, p) ==
    LET s == scan[p]
    IN  CASE byte = "set" -> [s EXCEPT !.arg = TRUE]
          [] byte = "2" /\ s.arg -> [s EXCEPT !.arg = FALSE, !.set = "2"]
          [] byte = "scan" -> [s EXCEPT !.on = TRUE, !.arg = FALSE]
          [] OTHER -> [s EXCEPT !.arg = FALSE]
Reply(byte, p) == IF byte = "0" /\ scan[p].arg THEN <<ACK, scan[p].set>> ELSE <<ACK>>

\* send_command, the sending half of one round of its loop (ps2_send_byte_port1 or
\* ps2_send_byte_port2).  A byte for a port that is not online: abort().  So does the
\* ps2_send_com that announces a byte for port 2, when it times out.
SendByte ==
    /\ pc = "send" /\ retry < 3
    /\ IF KeyboardPort \notin online THEN Panic /\ UNCHANGED faults
       ELSE \/ /\ pc' = "reply"
               /\ \E strays \in 0..(MaxStray - stray) :
                     /\ stray' = stray + strays
                     /\ out' = out \o [i \in 1..strays |-> "key"] \o Reply(Commands[command], KeyboardPort)
                     /\ scan' = [scan EXCEPT ![KeyboardPort] = Answers(Commands[command], KeyboardPort)]
               /\ UNCHANGED <<ps2Vars, hwVars, keyboard_on_port2, command, retry, faults>>
            \/ /\ pc' = "reply" /\ faults < MaxFaults /\ faults' = faults + 1
               /\ out' = Append(out, RESEND)
               /\ UNCHANGED <<ps2Vars, hwVars, keyboard_on_port2, command, retry, scan, stray>>
            \/ KeyboardPort = 2 /\ faults < MaxFaults /\ faults' = faults + 1 /\ Panic
            \/ /\ faults < MaxFaults /\ faults' = faults + 1 /\ retry' = retry + 1
               /\ UNCHANGED <<pc, ps2Vars, hwVars, keyboard_on_port2, command, out, scan, stray>>

\* Three failures: keyboard_init aborts.
GivesUp == pc = "send" /\ retry = 3 /\ Panic /\ UNCHANGED faults

\* Mutant: the value is not read.
SkipsValue == IF command = 5 THEN "ready" ELSE "send"

\* The next step of keyboard_init once a command was acknowledged.
Acknowledged == IF command = 4 THEN "value" ELSE IF command = 5 THEN "ready" ELSE "send"

IsAck == Head(out) = ACK

\* The reading half: ACK ends the command, RESEND uses up a try, anything else is
\* reported and the byte is sent again without using one up.
ReadReply ==
    /\ pc = "reply" /\ out' = Tail(out)
    /\ IF IsAck
       THEN /\ pc' = Acknowledged /\ retry' = 0
            /\ command' = IF command < 5 THEN command + 1 ELSE command
       ELSE /\ pc' = "send" /\ retry' = IF Head(out) = RESEND THEN retry + 1 ELSE retry
            /\ UNCHANGED command
    /\ UNCHANGED <<ps2Vars, hwVars, keyboard_on_port2, scan, faults, stray>>

\* The current scan code set is read and not compared with anything; no answer
\* aborts.
ReadValue == /\ pc = "value" /\ out # <<>> /\ pc' = "send" /\ out' = Tail(out)
             /\ UNCHANGED <<ps2Vars, hwVars, keyboard_on_port2, command, retry, scan, faults, stray>>

Next == \/ Flush \/ ConfigurationByte \/ SelfTest \/ DualChannel \/ TestPort1 \/ TestPort2 \/ EnablePorts
        \/ WaitTimesOut \/ IdentifyDevice(1, "identify1", "identify2") \/ IdentifyDevice(2, "identify2", "kbd")
        \/ FindKeyboard \/ SendByte \/ GivesUp \/ ReadReply \/ ReadValue

\* Start-up is one sequential program, and every wait has a timeout.
Spec == Init /\ [][Next]_vars /\ WF_vars(Next)

----------------------------------------------------------------------------
Ended == pc \in {"ready", "panic"}

\* keyboard_init ends only with a keyboard that scans in set 2, whatever was resent or
\* timed out - unless a byte nobody asked for came between: then send_command repeats
\* a command the keyboard obeyed, each later command reads the answer of the one
\* before it, and a resend asked for the last one goes unread.
ReadyMeansScanning ==
    pc = "ready" /\ stray = 0 => /\ KeyboardPort \in online /\ hw.dev[KeyboardPort] # "none"
                                 /\ scan[KeyboardPort].on /\ scan[KeyboardPort].set = "2"

\* Nor is an answer left for the interrupt handler to take for a key.
ReadyMeansDrained == pc = "ready" /\ stray = 0 => out = <<>>

\* Start-up comes to an end: the loop of send_command, which does not count an
\* unexpected answer, reads every answer it caused.
Terminates == <>Ended
=============================================================================
