------------------------------ MODULE MCSignaling ------------------------------
(* Signaling with one-thread processes that write (w1, w2) and one that     *)
(* only reads (rd), and with one process of two threads.                    *)
EXTENDS Signaling, TLC

CONSTANTS w1, w2, rd, t1, t2, t3, x, y

OneKey == {x}
TwoKeys == {x, y}

(* two writing processes and a reading one *)
ThreeProcs == {w1, w2, rd}
ThreeThreads == {t1, t2, t3}
OneThreadEach == (t1 :> w1) @@ (t2 :> w2) @@ (t3 :> rd)
WritersModify == (t1 :> {x, Def}) @@ (t2 :> {x}) @@ (t3 :> {})

(* two writing processes, each with its own datum *)
TwoProcs == {w1, w2}
TwoThreads == {t1, t2}
TwoThreadsOfTwo == (t1 :> w1) @@ (t2 :> w2)
EachItsOwn == (t1 :> {x}) @@ (t2 :> {y})
FirstOnly == (t1 :> {x}) @@ (t2 :> {})

(* one process, of one thread or of two *)
OneProc == {w1}
OneThread == {t1}
OneOfOne == (t1 :> w1)
TwoOfOne == (t1 :> w1) @@ (t2 :> w1)
OneModifies == (t1 :> {x})

HttpRpc == (t1 :> "http") @@ (t2 :> "rpc") @@ (t3 :> "http")
CronRpc == (t1 :> "rpc") @@ (t2 :> "cron") @@ (t3 :> "cron")
WritersHttpRpc == {HttpRpc}
HttpRpcOrCron == {HttpRpc, CronRpc}
OneHttp == {t1 :> "http"}
OneRpc == {t1 :> "rpc"}
BothRpc == {(t1 :> "rpc") @@ (t2 :> "rpc")}
CronWrites == {(t1 :> "cron") @@ (t2 :> "http")}
CronReads == {(t1 :> "http") @@ (t2 :> "cron")}

=============================================================================
