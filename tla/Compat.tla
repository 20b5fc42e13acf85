------------------------------- MODULE Compat -------------------------------
(***************************************************************************)
(* Which node can run which engine of which image, and how well            *)
(* (server/android/compat.ts).  An image has an architecture, an engine a  *)
(* runtime and its needs, a node what its agent reported.                  *)
(***************************************************************************)
Arch == {"x86", "x86_64", "arm", "arm64"}

SameFamily(a, b) == a \in {"x86", "x86_64"} <=> b \in {"x86", "x86_64"}

\* A 64-bit host runs 32-bit guests of its family, not the other way round.
HostCanAccelerate(host, guest) ==
    /\ SameFamily(host, guest)
    /\ ~(guest = "x86_64" /\ host = "x86")
    /\ ~(guest = "arm64" /\ host = "arm")

Performance == {"native", "good", "fair", "poor", "unusable"}
Kvm == {"not-required", "required-available", "required-unavailable",
        "unavailable-translated"}

EngineFit == [ok : BOOLEAN, performance : Performance, kvm : Kvm]

Unfit(kvm) == [ok |-> FALSE, performance |-> "unusable", kvm |-> kvm]
Fits(how, kvm) == [ok |-> TRUE, performance |-> how, kvm |-> kvm]

\* The early returns of fitEngine, in their order.
FitEngine(img, e, n) ==
    LET accel == HostCanAccelerate(n.arch, img.arch) IN
    IF ~n.reachable \/ e.runtime \notin n.runtimes
      THEN Unfit("not-required")
    ELSE IF e.runtime \in {"physical-adb", "mock"}
      THEN Fits("native", "not-required")
    ELSE IF ~accel
      THEN IF e.runtime # "qemu" \/ e.requiresKvm
             THEN Unfit("required-unavailable")
             ELSE Fits("poor", "unavailable-translated")
    ELSE IF e.requiresKvm /\ ~n.kvm
      THEN Unfit("required-unavailable")
    ELSE IF e.gpu = "required" /\ ~n.opengl
      THEN Unfit(IF e.requiresKvm THEN "required-available"
                                  ELSE "not-required")
    ELSE Fits(IF n.opengl THEN "native"
              ELSE IF e.gpu = "preferred" THEN "fair" ELSE "good",
              IF n.kvm THEN "required-available" ELSE "not-required")

\* What the compatibility card says of an engine on a node; without a node
\* it has no fit to go by.
Report(e, fit, none) ==
    IF fit = none
      THEN [runtime |-> e.runtime, performance |-> "unusable",
            kvm |-> IF e.requiresKvm THEN "required-unavailable"
                                     ELSE "not-required"]
      ELSE [runtime |-> e.runtime, performance |-> fit.performance,
            kvm |-> fit.kvm]
=============================================================================
