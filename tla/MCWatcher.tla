------------------------------- MODULE MCWatcher -------------------------------
(* Instance of Watcher for TLC: three writes over two watchers.                 *)
EXTENDS Watcher
================================================================================
