----------------------------- MODULE MC_Startup ---------------------------
(***************************************************************************)
(* Configurations of Startup for model checking.                           *)
(***************************************************************************)
EXTENDS Startup

Config(active, mirror, xdp, secure, workload, logs, fail) ==
    [active |-> active, mirror |-> mirror, xdp |-> xdp, secure |-> secure,
     workload |-> workload, logs |-> logs, fail |-> fail]

\* Every set of active classes, without the permission to open sockets.
LinkConfigs == {Config(a, TRUE, FALSE, FALSE, FALSE, {}, "sockets") : a \in SUBSET Classes}

\* Every kind of class with every option, and every call failing.
FailConfigs ==
    {Config(a, m, x, o, o, {MQTT, JSON}, "any") :
        a \in {{GenericL2}, {RTC, UDP_LOW}, {TSN_HIGH, RTA}},
        m \in BOOLEAN, x \in BOOLEAN, o \in BOOLEAN}
    \cup {Config(PnClasses, m, FALSE, FALSE, TRUE, {}, "any") : m \in BOOLEAN}

MCConfigs == LinkConfigs \cup FailConfigs
===========================================================================
