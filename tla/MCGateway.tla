------------------------------ MODULE MCGateway ------------------------------
(* The gateway with two clusters: one with keys, two limits and a cache, one
   with tokens, one limit and no cache. *)
EXTENDS GatewayProperties, TLC

CONSTANTS shop, user, key1, bearer_key1,
          jwt, agent, seller, ip1, ip2, x, q1, buy, sell

TwoClusters ==
  ("a" :> [name |-> shop, prefix |-> <<shop>>, whitelist |-> {ip2},
           global |-> 2, client |-> 2, auth |-> "key", allowed |-> {key1},
           consumers |-> None, caching |-> TRUE, retry |-> 0]) @@
  ("b" :> [name |-> user, prefix |-> <<user>>, whitelist |-> {ip1},
           global |-> None, client |-> 1, auth |-> "jwt", allowed |-> {},
           consumers |-> (agent :> {buy}) @@ (seller :> {sell}),
           caching |-> FALSE, retry |-> 0])

ItsConsumers == (agent :> {buy}) @@ (seller :> {buy})

Creds(is, of, text) == [is |-> is, of |-> of, text |-> text]

Input(path, query, method, address, creds) ==
  [path |-> path, query |-> query, method |-> method, address |-> address,
   creds |-> creds]

(* key1 comes in two spellings, also where a token is asked for.  The addresses
   of one client of the shop and of the seller are not known; the seller's header
   is not ASCII (a space beside the token is not). *)
SomeInputs ==
  { Input(<<shop, x>>, None, "GET", ip2, Creds("key", key1, key1)),
    Input(<<shop, x>>, q1, "GET", None, Creds("key", key1, bearer_key1)),
    Input(<<user>>, None, "POST", ip1, Creds("token", agent, jwt)),
    Input(<<user>>, None, "GET", ip2, Creds("token", agent, jwt)),
    Input(<<user>>, None, "GET", ip1, Creds("key", key1, key1)),
    Input(<<user>>, None, "GET", ip1, Creds("key", key1, bearer_key1)),
    Input(<<user>>, None, "GET", None, Creds("token", seller, None)),
    Input(<<>>, None, "GET", ip1, Creds("absent", None, None)) }
=============================================================================
