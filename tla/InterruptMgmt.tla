--------------------------- MODULE InterruptMgmt ---------------------------
(***************************************************************************)
(* The interrupt management framework of BL31 (bl31/interrupt_mgmt.c): for *)
(* every type of interrupt, whether a handler is registered and from which *)
(* security states the type is routed to EL3, and the bits of SCR_EL3 that *)
(* carry the routing into the saved context of a CPU.  A routing model is  *)
(* the set of security states from which a type goes to EL3; the SCR_EL3   *)
(* of a CPU is, per security state, the set of types routed to EL3.        *)
(***************************************************************************)

SECURITY_STATES == {"SECURE", "NON_SECURE"}

INTR_TYPES == {"S_EL1", "EL3", "NS"}

\* INTR_*_VALID_RM*: the routing models each type may be registered with.
ValidRoutingModels(type) ==
    IF type = "NS" THEN {{}, {"SECURE"}} ELSE {{"NON_SECURE"}, SECURITY_STATES}

InitialDescs == [t \in INTR_TYPES |-> [handler |-> FALSE, flags |-> {}]]

\* register_interrupt_type_handler() returns 0: no handler is registered yet
\* and the routing model is a valid one.
CanRegister(descs, type, flags) ==
    /\ ~descs[type].handler
    /\ flags \in ValidRoutingModels(type)

\* ... and what it then stores.
Register(descs, type, flags) ==
    [descs EXCEPT ![type] = [handler |-> TRUE, flags |-> flags]]

\* get_scr_el3_from_routing_model(): the SCR_EL3 a new context starts with.
ScrFromRoutingModel(descs) ==
    [ss \in SECURITY_STATES |-> {t \in INTR_TYPES : ss \in descs[t].flags}]

\* cm_write_scr_el3_bit() in the calling CPU's context of one security state.
WriteScrBit(scr, ss, type, on) ==
    [scr EXCEPT ![ss] = IF on THEN @ \cup {type} ELSE @ \ {type}]

\* set_scr_el3_from_rm() for both security states.
ScrAfterRegister(scr, type, flags) ==
    [ss \in SECURITY_STATES |->
        IF ss \in flags THEN scr[ss] \cup {type} ELSE scr[ss] \ {type}]

\* disable_intr_rm_local(): back to INTR_DEFAULT_RM on this CPU.
disable_intr_rm_local(scr, type, ss) == WriteScrBit(scr, ss, type, FALSE)

\* enable_intr_rm_local(): back to the registered routing model on this CPU.
enable_intr_rm_local(descs, scr, type, ss) ==
    WriteScrBit(scr, ss, type, ss \in descs[type].flags)
=============================================================================
