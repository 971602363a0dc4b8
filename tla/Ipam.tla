-------------------------------- MODULE Ipam --------------------------------
(***************************************************************************)
(* IPv4 address selection inside one interface's address pool (ipam.py and *)
(* integrity.validate_peer_ip_in_pool).  Pure operators, no state.         *)
(*                                                                         *)
(* An address is a natural number and a pool is the block of addresses of  *)
(* a CIDR prefix, given by its network address `first' and its broadcast   *)
(* address `last'.  Pools of one and of two addresses are the /32 and /31  *)
(* that the code treats apart.                                             *)
(***************************************************************************)
EXTENDS Integers

Network(pool) == pool.first .. pool.last

(* network[1]: kept for the hub; a /32 has no such address (IndexError). *)
Gateway(pool) == IF pool.first < pool.last THEN {pool.first + 1} ELSE {}

(* The addresses a peer may have.  The network and broadcast addresses are *)
(* refused only below /31, that is in blocks of more than two addresses.   *)
Edges(pool) ==
    IF pool.last - pool.first > 1 THEN {pool.first, pool.last} ELSE {}

PeerHosts(pool) == Network(pool) \ (Edges(pool) \cup Gateway(pool))

(* The set _pool_used_ips returns: active addresses and the gateway.       *)
Used(pool, active) == active \cup Gateway(pool)

Lowest(S) == {a \in S : \A b \in S : a <= b}

(***************************************************************************)
(* Automatic allocation: the first address above every used one, below the *)
(* broadcast address; then the lowest free address above the network       *)
(* address and below the highest used one.  The result is a singleton, or  *)
(* empty where the code raises NoAvailableIpsError.                        *)
(***************************************************************************)
NextFreeAbove(pool, used) ==    \* fault: no second pass below the highest
    LET above == {a \in 0 .. (pool.last - 1) : \A u \in used : u < a}
    IN  IF used = {} THEN Lowest(Network(pool)) ELSE Lowest(above)

NextFree(pool, used) ==
    LET above == {a \in 0 .. (pool.last - 1) : \A u \in used : u < a}
        below == (UNION {(pool.first + 1) .. (u - 1) : u \in used}) \ used
    IN  IF used = {} THEN Lowest(Network(pool))
        ELSE IF above # {} THEN Lowest(above) ELSE Lowest(below)

(* An explicitly requested address must be a host of the pool and unused.  *)
Requestable(pool, used) == PeerHosts(pool) \ used
=============================================================================
