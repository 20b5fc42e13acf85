---------------------------- MODULE SchedulerMC ----------------------------
(***************************************************************************)
(* Two nodes of different architecture, one image only the first runs (the *)
(* shipped aosp-15-x86_64) and one either does, natively or translated     *)
(* (gsi-android-14-arm64); one phone; one user.                           *)
(***************************************************************************)
EXTENDS Scheduler, TLC

CONSTANTS pve1, pve2, phone1, d1, d2, anna, sdk, none, away

MCPlace == pve1 :> 1 @@ pve2 :> 2

MCFacts ==
    LET node1 == [arch |-> "x86_64", kvm |-> TRUE, opengl |-> TRUE,
                  vaapi |-> TRUE, cores |-> 8, ram |-> 6,
                  cached |-> {sdk}, load |-> {0, 3},
                  runtimes |-> {"android-emulator", "qemu", "physical-adb"}]
    IN pve1 :> node1 @@ pve2 :> [node1 EXCEPT !.arch = "arm64", !.vaapi = FALSE,
                                         !.cached = {}, !.load = {0}]

AnEngine(at, runtime, preference, kvm, key) ==
    [at |-> at, runtime |-> runtime, preference |-> preference,
     requiresKvm |-> kvm, gpu |-> "none", key |-> key]

MCImages ==
    [aosp |-> [arch |-> "x86_64", api |-> 35, physical |-> FALSE,
               formFactors |-> <<"phone", "kiosk">>,
               engines |-> {AnEngine(1, "android-emulator", 100, TRUE, sdk)}],
     gsi |-> [arch |-> "arm64", api |-> 34, physical |-> FALSE,
              formFactors |-> <<"phone">>,
              engines |-> {AnEngine(1, "qemu", 10, FALSE, sdk),
                            AnEngine(2, "physical-adb", 100, FALSE, none)}]]

MCProfiles == [small |-> [formFactor |-> "phone", cpu |-> 2,
                          memory |-> 3, storage |-> 12]]

MCFormFactors ==
    [phone |-> [cpu |-> 4, memory |-> 4, storage |-> 16, first |-> "small"],
     kiosk |-> [cpu |-> 4, memory |-> 4, storage |-> 16, first |-> none]]

MCVolumes == {[node |-> pve1, name |-> "local", size |-> 26],
              [node |-> pve2, name |-> "local", size |-> 26]}

MCPhones == phone1 :> [node |-> pve2, arch |-> "arm64", api |-> 35,
                       formFactor |-> "phone"]

Asked(image, ff, runtime) ==
    [image |-> image, formFactor |-> ff, profile |-> none,
     runtime |-> runtime, node |-> none, memory |-> none]

MCAsks ==
    LET gsi == Asked("gsi", "phone", none)
    IN {[user |-> anna, kind |-> "create", req |-> gsi],
        [user |-> anna, kind |-> "preview", req |-> gsi],
        [user |-> anna, kind |-> "preview", req |-> Asked("aosp", none, none)]}

MCSymmetry == Permutations({d1, d2})
=============================================================================
