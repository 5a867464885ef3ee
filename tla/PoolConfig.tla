----------------------------- MODULE PoolConfig -----------------------------
(***************************************************************************)
(* The configurations a pool is made with (config.rs), and the limit       *)
(* beyond which Buffer::new refuses a buffer_size by a panic (core.rs).    *)
(***************************************************************************)
EXTENDS Integers

Config(size, max, min) ==
    [buffer_size |-> size, max_pool_size |-> max, min_pool_size |-> min]

Default == Config(8192, 100, 10)

Small == Config(1024, 20, 5)

Large == Config(65536, 1000, 50)

Network == Config(1500, 500, 20)

PoolConfigs == [buffer_size : Nat, max_pool_size : Nat, min_pool_size : Nat]

Presets == {Default, Small, Large, Network}

BUF_MAX_SIZE == 1000000000

\* Buffer::new panics on such a configuration.
Oversized(config) == config.buffer_size > BUF_MAX_SIZE
=============================================================================
