-------------------------- MODULE MCThreadLifecycle --------------------------
(* Both services at once: the scheduler's thread and the storage's. *)
EXTENDS ThreadLifecycle

MCServices == {"scheduler", "storage"}
====
