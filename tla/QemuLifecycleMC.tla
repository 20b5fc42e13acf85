--------------------------- MODULE QemuLifecycleMC ---------------------------
(***************************************************************************)
(* One device from a template, of which everything is asked, and one from  *)
(* an installer image that is only created: enough to take the VM id the   *)
(* first gives up.                                                         *)
(***************************************************************************)
EXTENDS QemuLifecycle, TLC

CONSTANTS d1, d2, c1, c2, p1

MCAsks ==
    c1 :> {"create", "start", "stop", "reboot", "reset", "destroy"} \X {d1}
        @@ c2 :> {<<"create", d2>>, <<"destroy", d1>>}
=============================================================================
