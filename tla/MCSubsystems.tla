---------------------------- MODULE MCSubsystems ----------------------------
(* Small instances of Subsystems for TLC.                                     *)
EXTENDS Subsystems, TLC
CONSTANTS t1, t2, t3, p1, p2, r1, r2, r3, r4, c1, c2, g1, g2, v1, k1, k2,
          w1, w2, d1, d2, n1, n2, x1, x2

(* Two writers of one process and one of another.                             *)
TwoProcesses == [t \in {t1, t2, t3} |-> IF t = t3 THEN p2 ELSE p1]

(* Three requests of one repository, two of them for one path, and one of     *)
(* another repository.                                                        *)
FourRequests == (r1 :> {"a"}) @@ (r2 :> {"b"}) @@ (r3 :> {"a"}) @@ (r4 :> {"c"})
TwoRepositories == [r \in {r1, r2, r3, r4} |-> IF r = r4 THEN "y" ELSE "x"]

(* The first selection and the next have one profile, the last is mail only.  *)
TwoProfiles == [g \in 0..MaxChanges |-> IF g < 2 THEN "inherit" ELSE "orrery-only"]

(* The tmux watcher and the hooks of the session, or the watcher of a          *)
(* headless one.                                                              *)
TmuxAndHook == (n1 :> "tmux") @@ (n2 :> "hook")
PersistentWatcher == n1 :> "persistent"
=============================================================================
