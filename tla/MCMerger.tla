------------------------------- MODULE MCMerger -------------------------------
(****************************************************************************)
(* A small instance of Merger: two APIs, called through the gateway and     *)
(* behind it, by clients that DeepFlow taps on both sides.                  *)
(****************************************************************************)
EXTENDS Merger

MCRewritten == [s \in Placeholder |-> IF s = "{sku}.json" THEN "{id}.json" ELSE Id]

\* /orders/v1/item/{sku} and /orders/v1/, implemented by /shop/item/{sku} and
\* /shop/; the version is a part of the context.  /cart/v1/{sku} and
\* /cart/v1/{sku}.json, implemented at the root of http://cart/.
MCOperation ==
    {[context |-> <<"orders", "v1">>, version |-> "v1", public |-> <<"orders", "v1">>,
      endpoint |-> <<"shop", "">>, base |-> <<"shop">>, target |-> target] :
     target \in {<<"item", "{sku}">>, <<"">>}}
      \cup
    {[context |-> <<"cart">>, version |-> "v1", public |-> <<"cart", "v1">>,
      endpoint |-> <<"">>, base |-> <<>>, target |-> target] :
     target \in {<<"{sku}">>, <<"{sku}.json">>}}

Called(path, client) ==
    [serverType |-> "pod", k8sService |-> "shop", host |-> None, method |-> "GET",
     path |-> path, tap |-> client.tap, clientType |-> client.type, workload |-> client.workload,
     clientIP |-> client.ip, rows |-> client.rows, first |-> client.at, last |-> client.at,
     port |-> client.port, pod |-> client.pod, domain |-> client.domain]

MCClients ==
    {[tap |-> "client", type |-> "pod", workload |-> "web", ip |-> "ip1", rows |-> 1, at |-> 1,
      port |-> 0, pod |-> "pod1", domain |-> "shop"],
     [tap |-> "process", type |-> "pod", workload |-> "web", ip |-> "ip2", rows |-> 2, at |-> 2,
      port |-> 81, pod |-> "pod2", domain |-> "shop.local"],
     [tap |-> "client", type |-> "internet", workload |-> None, ip |-> "ip1", rows |-> 1, at |-> 3,
      port |-> 80, pod |-> None, domain |-> "shop"],
     [tap |-> "server", type |-> "internet", workload |-> None, ip |-> None, rows |-> 3, at |-> 2,
      port |-> 82, pod |-> "pod3", domain |-> None]}

MCPaths ==
    {<<"orders", "v1", "item", "42">>, <<"shop", "item", "42">>, <<"shop", "item", "43", "">>,
     <<"shop", "">>, <<"shop">>, <<"cart", "v1", "42">>, <<"43">>}

\* Calls of every path by every client; the host that serves one of them, a
\* noisy path and a noisy domain.
MCSignal ==
    {Called(p, c) : p \in MCPaths, c \in MCClients}
      \cup {[Called(<<"shop">>, c) EXCEPT !.serverType = "chost"] : c \in MCClients}
      \cup {[Called(<<"shop">>, c) EXCEPT !.path = <<"health">>] : c \in MCClients}
      \cup {[Called(<<"shop">>, c) EXCEPT !.domain = "probe"] : c \in MCClients}

MCNoise == {<<"health">>}
=============================================================================
