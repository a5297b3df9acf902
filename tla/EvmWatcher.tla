----------------------------- MODULE EvmWatcher ------------------------------
(***************************************************************************)
(* The watcher of evm/watcher.go: the Start and Close of Watcher, on the   *)
(* value evm's NewWatcher returns.  That NewWatcher sets neither state nor *)
(* ctx nor cancel, so state is the zero value, which none of the constants *)
(* watcherStatePending, ...Open and ...Closed has, and Start refuses it.   *)
(* WatchETHPrice and WatchGasPrice are therefore never spawned, and the    *)
(* loop actions of Watcher are never taken here: theorem NeverAlive of     *)
(* WatcherProofs is about a watcher with this InitState and these Getters. *)
(***************************************************************************)
EXTENDS Naturals

CONSTANTS Callers, Readers, NoOne

VARIABLES state, stateMu, ctxDone, pc, ret, wins, loop, published,
          sinceUpdate, blockAge, flight, reading, handed

\* GetETHPrice and GetGasPrice, and the loops Start would spawn for them.
EvmFeeds == {"price", "gas"}

\* The state NewWatcher leaves the watcher in.
NewWatcherState == "unset"

INSTANCE Watcher WITH InitState <- NewWatcherState,
                      Getters <- EvmFeeds, Feeds <- EvmFeeds,
                      MaxAge <- 0, MaxLatency <- 0
=============================================================================
