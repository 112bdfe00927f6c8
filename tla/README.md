# Nuage tempest plugin: TLA+ models

`nuage_tempest_plugin` holds the tempest tests of the Nuage Neutron plugin. Its
test cases are straight-line scripts; what is hard is the machinery under
them: an HTTP client to the VSD that re-authenticates and retries, fixtures that
create objects in Neutron, Nova and the VSD and must take them down again
whatever happened, and waits for agents and servers that answer late or never.
The modules here model that machinery. Paths below are relative to
`src/nuage_tempest_plugin/`.

Contents: [Inventory](#inventory), [Modules](#modules), [RestProxy](#restproxy),
[Fixtures](#fixtures), [Servers and Trunks](#servers-and-trunks),
[VsdFixtures](#vsdfixtures), [Gateways](#gateways), [Mixins](#mixins),
[CliTestCase and OutputParser](#clitestcase-and-outputparser),
[Releases](#releases), [Runs and bounds](#runs-and-bounds),
[Fairness](#fairness), [Proofs](#proofs), [Disagreements](#disagreements),
[Observations](#observations), [Not modelled](#not-modelled), [Plan](#plan).

## Inventory

| Component | State | Operations | Hard behaviour | What makes it correct |
|---|---|---|---|---|
| REST proxy (`lib/utils/restproxy.py`) | `auth`, the attempt and answer of the running loop, the Python stack | `rest_call`, `generate_nuage_auth`, `_rest_call` | lost and late answers, 503s, keys that expire, mutual recursion on a 401 | a retried operation takes effect once unless an answer was lost; a result is true; the second request carries a new key; every call returns |
| VSD REST client (`services/nuage_client.py`) | none but the proxy's; default enterprise | create/get/update/delete of each VSD object | deletes retried five times while the plugin still lets go; implicit templates; error answers turned into exceptions | a delete that returns has deleted; a failed create leaves no template |
| VSD-managed test base (`tests/api/vsd_managed/base_vsd_managed_networks.py`) | class-level lists of VSD objects | `create_vsd_*`, `resource_cleanup` | containment, one exception ends the cleanup, the plugin is late | what was listed is deleted, or an exception tells |
| Gateway test classes (`tests/api/base_nuage_gateway.py`, `tests/api/test_nuage_gateway_redundancy.py`) | class-level lists, `has_exception`, a net-partition | `resource_setup`, what tests make, `resource_cleanup` | set-up that fails half way; every exception is caught and the loops go on | one failure costs no other object its deletion, and shows at the end |
| Neutron fixtures (`lib/test/nuage_test.py`) | cleanup stack, `dhcp_agent_present`, client managers | create/update/delete of networks, subnets, ports, routers, interfaces, floating IPs | order of deletion, a wait between creation and registration, failing deletions | a body that keeps to the order leaves nothing and raises nothing; what is left was reported |
| Servers (`lib/test/nuage_test.py`, `lib/test/tenant_server.py`) | server dictionaries, cleanup stack | `osc_create_test_server`, `cleanup_server`, `boot` | Nova acts while the test polls; destroying a failed server fails too | the body gets a deployed server; none is forgotten |
| Trunks (`lib/test/nuage_test.py`, `lib/utils/data_utils.py`) | trunk and port records | `create_trunk`, `delete_trunk`, `wait_until_true` | Nova plugs and unplugs the parent port meanwhile | a trunk goes, or its stay is reported |
| Resource mixins (`lib/mixins/`) | clients per credentials, scopes, cleanup stack | context managers and `create_*` with `addCleanup` | credentials of a deletion, exceptions in a `with` body | what a test made is gone, whatever mix of scopes and cleanups made it |
| FWaaS, VPNaaS fixtures (`services/fwaas`, `services/vpnaas`) | cleanup stack | waits, context managers | a firewall is pending until an agent deletes it | the object is gone or the wait raises |
| CLI test case (`lib/cli/client_testcase.py`) | class-level lists, credentials, project and user | `create_*_with_args`, `delete_*`, `resource_cleanup` | a failing deletion in the middle | what was listed is deleted or reported |
| CLI client (`lib/cli/client.py`) | credentials | run a command | a command that fails | an error raises |
| Output parser (`lib/cli/output_parser.py`) | none | `tables`, `details`, `listing` | values of several lines | what is read is what was printed |
| Release ordering and switches (`lib/release.py`, `lib/topology.py`, `lib/features.py`) | parsed releases, feature flags | comparisons, `from_nuage`, `up_to_nuage`, ..., `NuageFeatures` | comparison of lists of strings, `0.0` for "newest", `__gt__` as "not less" | an order total and strict where the callers need it; the import succeeds |
| Service clients (`services/`) | none | format a URL, check a status | none | one request per operation |
| vspk session and VSD fixtures (`lib/test/vsd_helper.py`) | `_session`, `default_enterprise`, enterprise cache | `session`, `new_session`, get/create helpers | a start that fails after the session was stored; a stale cache | a session handed out was started; a cached enterprise exists |
| Orchestration base (`tests/api/orchestration/nuage_base.py`) | class-level lists | resource_setup/cleanup | as the VSD-managed test base | as there |
| Constants, exceptions, names (`lib/utils/`) | none | none | none | - |
| Registration (`plugin.py`, `config.py`) | none | options | none | - |
| Test cases (`tests/`) | none of their own | bodies | they stop anywhere | represented by the nondeterministic bodies below |

Components interact by calls (a fixture calls a client, which calls the proxy),
through the cleanup stack of testtools, to which every helper adds, and through
the servers: the VSD, Neutron and Nova change objects between two calls.
`PROJECT.json` lists the components with their status and every hazard at its
line, also those no module covers.

## Modules

| Module | Role |
|---|---|
| `VsdCalls` | abstract: what a caller of `rest_call` may rely on |
| `RestProxy` | the proxy, the network and the VSD; implements `VsdCalls` |
| `Fixtures` | the Neutron fixtures, the teardown, the DHCP agent |
| `Servers` | deployment and cleanup of servers, Nova |
| `Trunks` | extends `Servers`: a trunk on a server's port, deleted among the cleanups of the servers |
| `VsdFixtures` | the VSD objects of the legacy test classes, their retried deletions and the class cleanup |
| `Gateways` | the gateway classes: set-up, tests, and the cleanup that catches every exception |
| `Mixins` | every helper of the mixins, scopes and cleanups, the wait for a firewall |
| `OutputParser` | operators: what the CLI prints and what the parser reads |
| `CliTestCase` | extends `OutputParser`: a class of CLI tests, its lists and its cleanup |
| `Releases` | the order of releases, the questions about them, the features |
| `RestProxyProofs`, `FixturesProofs`, `TrunksProofs`, `VsdFixturesProofs`, `GatewaysProofs`, `MixinsProofs`, `CliTestCaseProofs`, `ReleasesProofs` | theorems about the module they are named after, `TrunksProofs` also about `Servers` |
| `MCRestProxy`, `MCReleases` | sets of operations and of releases for TLC |

The families are separate because the code is: `Fixtures`, `Servers` and
`Mixins` share the cleanup stack only, and a test's calls to the VSD have no part
in any of them. `Trunks` composes with `Servers`, since both clean up in one
stack and meet in Nova, and `CliTestCase` with `OutputParser`, since its tests
act on what was read. `VsdFixtures` and `Gateways` stand on the promise
`VsdCalls` states: a request takes effect once, or an exception is raised, and
then it may have taken effect. A second effect needs a lost answer and shows
there as a failed request.

A definition whose comment begins with "A slip" is no part of a specification:
it is a mistake one could make in the definition that follows it, kept to show that
the properties would notice.

## RestProxy

`rest_call` (208-218) sends an operation; on a 401 "Unauthorized" it runs
`generate_nuage_auth` (187-206), which sets `self.auth` to the password, asks for
a key **through `rest_call`**, stores the key, and the operation is sent again.
`_rest_call` (91-152) is a loop of at most `max_retries` attempts.

* State. `pc`, `round` and `attempt` are the position in the top frame, `ret` is
  the loop's variable, `auth` is `self.auth`. All frames below the top one wait
  at the same line, so the Python stack is its `depth`. `effects`, `lost`,
  `rejected` and `troubled` are history, read by properties only (`troubled`
  says that something other than an old key disturbed the call).
* Actions. `Connect` is the constructor of `NuageRestClient`, `Call` an
  operation of a caller, `Receive`/`ReceiveUnavailable`/`SocketError`/`BreakProtocol`
  the four ways a pass of the loop ends, `Reauthenticate`, `StoreKey`,
  `AuthenticationAborts`, `NoAnswer` and `Return` what the two functions do with
  the loop's result. An exception leaves through `Raise`, since nothing on the
  way handles one.
* The VSD and the network are external. The VSD holds one object that a POST
  creates and a DELETE removes, which is the least that makes a repeated
  operation visible; it can answer 503, 401, another 4xx, 500 before or after
  the effect, and its keys expire. The network can lose an answer, lose a
  request, and deliver a request after the client has given it up
  (`abandoned`).
* Abstracted: URL, headers, JSON, logging, the sleep before a retry.

`VsdCalls` states the promise without attempts, keys or frames: an operation
takes effect only while its call is open, "ok" implies an effect, a result is
final. A call stays open after it has returned as long as one of its requests is
still on the way; the refinement mapping (`Service`) says so in `OpenCalls`.

## Fixtures

`NuageBaseTest.create_*` creates an object and registers its deletion with
`addCleanup`; testtools runs the registered deletions in reverse after the
body, each whatever became of the others. `create_subnet` (396-510) waits for
the DHCP agent between the two.

* State. `stack` is the list of cleanups, `live`, `inside` and `uses` are
  Neutron, `waitFor` and `polls` are the local variables of the wait, `cached` is
  the class's `dhcp_agent_present`, `agent` and `served` are the agent. `kept` and
  `inOrder` are history: which live objects no deletion is registered for, and
  whether the body only used objects in the order it created them.
* Actions. One per helper, with and without `cleanup`; `NoCidrLeft` is the
  ValueError when every CIDR overlaps, `PollDhcpPort` and `DhcpNotResolved` are
  the wait, `EndBody` is the body's return or its exception, `RunCleanup` is one
  cleanup.
* Neutron is external: it refuses to delete what is used (Conflict), does not
  find what is gone (NotFound) and deletes a network with its subnets.
* Abstracted: attributes of objects that no property tells apart. Whether the
  network that is handed to `create_subnet` says `router:external` is an argument
  of each call; of a subnet's DHCP port the model keeps whether it is awaited.

## Servers and Trunks

`osc_create_test_server` (1032-1203) creates a server, waits for it and, when
the wait raises, destroys it with the same `cleanup_server` it would have
registered, or keeps it (`preserve_server_on_error`).

* State. `phase` is where the test is: in the body, in the wait for the status,
  in either step of `cleanup_server`, in the teardown. `tearing` tells which of
  its two callers `cleanup_server` returns to. `args` are the arguments per
  server, `status` is Nova. `held`, `failedBy`, `reached` and `undeleted` are
  history.
* Actions. `CreateServer`/`CreateRefused`, the polls and timeouts of the two
  waiters, `DeleteServer`, and `GiveUp`, which is all that follows a failed
  deployment.
* Nova and tempest's waiters are external: Nova moves a server from BUILD to
  ACTIVE, from DELETING to gone and from any of them to ERROR, at any time, and
  may do nothing; a waiter polls, raises on ERROR and raises when its time is up.
* Abstracted: ports, networks, volumes and user data of the request.

`Trunks` adds a trunk whose parent port a server may be deployed on.
`delete_trunk` (903-938) has its place among the cleanups of the servers, so that
a server registered later is gone when it runs and one registered earlier is
still there. When the port is plugged it has Nova detach it and polls with
`wait_until_true`. `step` is the request it makes next; `device` is the port's
`device_id`; Nova unplugs it after it was asked, and when the server goes, also
between two requests of `delete_trunk`. The property `TrunkGoes` speaks of runs in
which no request failed by itself and Nova was in time; that the port was still
with a server by right (its cleanup raised, comes later, or was never
registered) is read from the state of `Servers`, not assumed. The sub ports are
left out: `remove_subports` ignores NotFound and nothing else depends on them.

## VsdFixtures

`BaseVSDManagedNetwork` lists the templates, domains, zones, subnets and shared
resources its helpers create through `nuage_client.py`, and `resource_cleanup`
(65-95) deletes list after list once the OpenStack objects are gone. Tests also
create objects of their own and delete them. The plugin, another process, has
vports in the domains and subnets and removes them at its own pace; so
`delete_l2domain` (655-669), `delete_domain` (344-359) and
`delete_l2domaintemplate` (594-609) repeat a deletion the VSD refuses as "in
use".

* State. `phase` and `loop` are where the class is, `target` and `attempt` the
  `delete_` method that runs, `listed` the class's lists, `own` what a
  test keeps, `live`, `parent` and `vports` the VSD. `removed`, `strays` and
  `troubled` are history.
* Actions. `Create` is the helper with the `create_` method below it,
  `CreateL2domainWithoutTemplate` the template `create_l2domain` makes and forgets,
  `CreateLost` a POST that raised after its effect; `Deleted`, `NotFound`,
  `RefusedInUse`, `MultipleChoices` and `Fault` are the ways an attempt ends;
  `CleanupOpenStack`, `CleanupNext`, `NextLoop` and `Done` are `resource_cleanup`.
* The VSD and the plugin are external: the VSD refuses to delete what has
  children or vports, with "in use" or with a 300 that only
  `delete_vsd_shared_resource` answers; the plugin attaches while tests run and
  lets go at any time, or never.
* Abstracted: objects of one list never depend on each other, so the order
  within a list is left open; the two requests of `create_l2domain` are one
  step, since nobody else uses the template; addresses and names. Policy groups
  are left out: no test calls the helper that lists them.

`TeardownIsClean` promises a clean end only to a class whose tests cleaned up
after themselves, and if the plugin lets go in time; both conditions are read
from what happened (`troubled`), not imposed on what may happen.

## Gateways

The classes for gateways build gateways, ports, groups of two gateways, VLANs on
a port or on a group, and a network in a net-partition of their own; tests add
VLANs and vports. `resource_cleanup` (`base_nuage_gateway.py:183-235`, with the
loops of `test_nuage_gateway_redundancy.py:48-99` before it) is the opposite of that of
`VsdFixtures`: it catches each exception, goes on, and raises a
TearDownException at its end.

* State. `phase` and `loop` are where the class is, `listed` its lists, `visited`
  what the loops have come by, `live`, `on` (what each stands on) and `permits` the
  VSD, `networks` and `netpart` the OpenStack side. `faulted` and `troubled` are
  history.
* Actions. One per helper of set-up and tests, each of which may fail, in effect
  or not; `Clean...` is one turn of a loop, with `Answered` what the VSD decides
  and `Raised` a request that fails by itself. Two requests share a try for a
  VLAN: `PermissionOnly` is the first succeeding alone. `CleanupOpenStack` stands
  outside every try: when it raises, `resource_cleanup` is over.
* A set-up that fails before the lists exist makes the first loop raise
  (`NoLists`); the redundancy class makes its lists last, so that for it this
  includes a net-partition that is already there (`BaseSetupRaises`).
* The two classes are one model: what either creates, and the five loops in the
  order of the subclass. A class without groups is one that makes none.

`FailuresAreContained` is what catching is for; it also says what it cannot do: an
object that carries one that stayed stays too, as the loops do not come back.

## Mixins

Each mixin gives a test a resource either from a `create_` helper that
registers the deletion, or in the scope of a context manager. The module has one
definition per helper, which names the client's operation, who asks for the
creation, who for the deletion, and whether NotFound is ignored, as written in
that helper; what an object needs (`Needs`) is what the clients' creations name.

* State. `scopes` and `cleanups` are the two kinds of pending deletions; `phase` is
  "unwinding" when the body has raised and its `finally` clauses run. `owner`
  tells whose an object is: a tenant gets NotFound for an admin's. `firewalls` and
  `polls` are the wait of `fwaas_mixins.py:126-144`.
* `has_primary` is whether the class has tenant credentials; without them the
  mixins' clients are the admin's.
* The agent is external and owes nothing.

`NothingLeftSilently` names the one silent leak: the helpers and the scopes that take
`as_admin` and do not hand it on to the deletion (`HelpersDropping`, `ScopesDropping`).
What such a deletion will not see is put in `kept`, with what has no deletion at all:
a floating IP without `cleanup`, and a scope with `do_delete=False`, whose deletion
is the test's own business.

## CliTestCase and OutputParser

`CLIClientTestCase` makes a project and a user with command line clients, its
tests create objects with `create_..._with_args` and read what is printed, and
`resource_cleanup` (160-195) deletes ports, routers, subnets and networks, the
user and the project, until something raises.

* State. The lists, the cleanups of the running test, the role that commands run
  with, what exists, the last output and what was read from it (`response`).
* Actions. `Create` for each command that creates (a set per method says what,
  and whether it goes on a list; what is printed is read, but for
  `create_nuage_l2bridge_cli`, which returns it as it is), `DeleteInBody`,
  `HandOver` (off the list, into a cleanup, as tests do), `Ask` for a command
  whose output is read as details or as a list, `SwitchRole`, and the steps of
  set-up and cleanup.
* `OutputParser` has `Tables`, `Details` and `Listing` as the parser computes
  them over lines, and what the client prints. `details` reads every table and
  gives the first one's item; what it raises is what is wrong with the first bad
  table. A row without a key goes on with the value before it; the cutting of a
  line into cells is abstracted.
* A kind stands for its objects: a class has one of each and two subnets.
* A command that takes effect and then returns an error is not modelled.

`CleanMeansGone` speaks of objects and of the interfaces of a router that the
class listed. A router whose creation raised after it took effect is on no list,
and neither is an interface that a later test puts on it.

## Releases

`lib/release.py` parses a release and compares major and sub release as lists of
strings; `lib/topology.py` asks `from_nuage`, `up_to_nuage` and so on;
`lib/features.py` makes the features when it is imported. The operators keep the
strings of digits as sequences, compare as Python does, and derive `Le` and `Ge` as
`functools.total_ordering` does from `__lt__`, `__gt__` and `__eq__`.
`InitFeatures`, `_set_features` and `_log_features` are the three steps of the
import. The regular expression that parses is abstracted.

## Runs and bounds

| Run | Question | Instance |
|---|---|---|
| `rest_proxy` | what a result says about the object; which credentials go out; does it implement `VsdCalls`; does every call return | 2 operations out of POST, PUT, DELETE, 2 attempts, 2 keys, depth 2 |
| `rejected_credentials`, `unreachable_server` | are the two "Abort" assertions reached | 1 operation, depth 3 |
| `fixtures` | teardown and body against the agent, in any order; do the wait and the teardown end | 1 object of each kind, 1 poll within the time |
| `servers` | what the body gets, what is left of servers and trunk; do the waits and the teardown end | `Trunks` with 2 servers, 1 poll within the time |
| `auto_cleanup`, `none_instead_of_failure` | two sentences of the docstring of `osc_create_test_server` | 1 server |
| `vsd_fixtures` | deletions with retries, class cleanup, implicit templates; do deletions and the cleanup end | 1 object of each of the 7 kinds, 2 attempts |
| `gateways` | what a cleanup that catches everything leaves and tells; does it end | 2 gateways, 1 port, 1 group, 1 VLAN, 1 vport |
| `mixins` | scopes and cleanups in every mix, with both roles; does the unwinding end | 2 helpers out of all, on 3 prepared classes |
| `cli_test_case` | the lists and the cleanup; is what was printed read | 2 tests, 3 objects of 8 kinds |
| `features_load` | does the import succeed for the releases that the help text names | 3 releases, 4 OpenStack releases |

Bounds. Two operations are enough for an abandoned request of one to arrive
during the next; two attempts for a repeated one; a second key for an expiry
between the 401 and the second request; a depth of two for a nested frame below
a nested frame. `MaxDepth` stands for the interpreter's recursion limit: at the
limit the RecursionError is an action, so nothing is cut off. `MaxCalls` and `MaxKeys`
only bound what the environment does. In `Fixtures` one object of each kind
already yields every kind of use, and the agent's coming and going during one
wait all that the cache can get wrong; `Timeout` counts polls, and 1 lets a wait
succeed at the first poll, at the last, or fail. In `Trunks` two servers are one
that is on the trunk's port while the other's cleanup is registered above or below
the trunk's, and one that fails while another is registered. In `VsdFixtures` one
object of each kind is a whole chain of containment next to an l2domain with its
template, and two attempts are one that is followed by another and one that is
not; the code makes five. In `Gateways` two gateways are what a group needs, and a
VLAN is on the port or on the group. In `Mixins` what a helper builds on may have
been made by the class (`Givens`: nothing, the networking objects, or the VPN,
firewall and trunk objects), so that two helpers are always two that can meet:
two scopes, two cleanups, or one of each, in either order. In `CliTestCase` three
objects are a network, what stands on it, and one more list; two tests are one
whose cleanup another follows. The theorems lift the bounds for what they state.

Deadlock checking is off everywhere because a test, or a client with no calls
left, stops. No run uses symmetry.

## Fairness

* `RestProxy`: weak fairness of `Proceed` (the process runs) and of
  `SocketError` (the connection has a timeout, so a request that is not answered
  fails). The VSD owes nothing.
* `Fixtures`: weak fairness of the wait's polls and of the cleanups: a sequential
  loop in a running process. The body may hang; the agent owes nothing.
* `Servers`, `Trunks`: weak fairness of the test's waiters, cleanups and requests of
  `delete_trunk`. Nova owes nothing: the timeouts end every wait.
* `VsdFixtures`: weak fairness of `Answered` (an attempt ends; a fault ends it too but is
  never owed) and of `Cleanup` (the process runs). Tests, and the
  plugin with its vports, owe nothing.
* `Gateways`: weak fairness of `Cleanup`: each request is answered or raises. Set-up
  and tests owe nothing.
* `Mixins`: weak fairness of the unwinding, of the cleanups and of the wait for a
  firewall. The body may hang; the firewall agent owes nothing.

## Proofs

All theorems hold for every value of the constants that meets the assumptions
named next to their declaration: `RestProxy` needs at least one attempt, frame,
call and key and known methods; `Fixtures`, `VsdFixtures` and `Gateways` need
that the kinds share no object, `Servers` that `NoServer` is none, `Mixins` at
least one copy of each kind and classes that prepare objects of known kinds, and
natural numbers for timeouts, retries, bounds and `Cidrs`. `Releases` and
`CliTestCase` make no assumption: the lemmas state what they need of a release,
and the objects, tests and makes of a class may be any.

| Module | Theorem | States |
|---|---|---|
| `RestProxyProofs` | `TypeCorrect` | `[]TypeOK` |
| | `EffectOnce` | `[]RepeatedOnlyAfterLoss` |
| | `ResultsTruthful` | `[]TruthfulResult` |
| | `NewKeyInSecondRound` | `[]SecondRoundHasNewKey` |
| | `InvisibleReauthentication` | `[]ReauthenticationIsInvisible` |
| | `RestProxyImplementsService` | `Spec => Service!Spec` |
| `FixturesProofs` | `FixturesTypeCorrect` | `[]TypeOK` |
| | `LifoTeardown` | `[]TeardownIsClean` |
| | `LeftoversAreReported` | `[]NothingLeftSilently` |
| | `SubnetsAreServed` | `[]BodySeesServedSubnets` |
| `TrunksProofs` | `ServersTypeCorrect` | `[]TypeOK` of `Servers` |
| | `HeldServersDeployed` | `[]HeldWasDeployed` |
| | `NoServerOrphaned` | `[]NoOrphan` |
| | `ServersAccounted` | `[]NothingForgotten` |
| | `ServersUndisturbed` | `TrunksSpec => Spec` of `Servers` |
| | `TrunkLeftReported` | `[]TrunkLeftIsReported` |
| | `TrunkGoesWithoutError` | `[]TrunkGoes` |
| `VsdFixturesProofs` | `VsdFixturesTypeCorrect` | `[]TypeOK` |
| | `DeletionsAreTrue` | `[]DeleteIsTrue` |
| | `NothingListedIsLeft` | `[]NothingLeftSilently` |
| | `CleanupOrderSuffices` | `[]TeardownIsClean` |
| `GatewaysProofs` | `GatewaysTypeCorrect` | `[]TypeOK` |
| | `NoGatewayLeftSilently` | `[]NothingLeftSilently` |
| | `GatewayFailuresContained` | `[]FailuresAreContained` |
| | `GatewayCleanupOrderSuffices` | `[]TidyIsClean` |
| `MixinsProofs` | `TypesHold` | `[]TypeOK` |
| | `EachIsAccountedFor` | `[]Inv`, the invariant of what is planned |
| | `NothingIsLeftSilently` | `[]NothingLeftSilently` |
| | `TidyIsInOrder` | `[]TidyInv`, the order of a tidy test's deletions |
| | `TidyTestsEndClean` | `[]TidyIsClean` |
| `CliTestCaseProofs` | `WatchedIsDue` | `[]CleanInv`, what is due for deletion |
| | `CleanGoes` | `[]CleanMeansGone` |
| | `DetailsRead`, `ListingRead`, `ListIsNoItem` | what the parser reads of any output |
| | `PrintedIsAlwaysRead` | `[]PrintedIsRead` |
| | `TidyGoes` | `[]TidyIsClean` |
| `ReleasesProofs` | `LtIrreflexive`, `LtTransitive`, `LtTotal` | where `Lt` is a strict total order |
| | `NewestIsAmbiguous`, `TwentyBeforeFive` | where it is not, and not that of the numbers |

`RestProxyProofs`. `TypeOK` is not inductive: the top frame's credentials
(`CredentialsOK`) and the shape of an answer (`AnswersOK`) have to be known
too; together they are `TypeInv`. `EffectInv` adds that requests of the past are
older than the current one and that an effect whose answer is neither seen nor
lost is the one the answer in flight reports; effect once and truthful results
follow. `KeyInv` adds that keys only grow. `Smooth` adds where a call without
trouble can be. The refinement maps each step to `Invoke`, `Apply`, `Return`, `Close` or a
stutter, under `EffectInv`.

`FixturesProofs`. `TeardownIsClean` speaks of the end only. What holds all along
is `Ordered`: no error yet, each cleanup's object is alive and registered once,
a subnet is registered after its network, whatever a live object uses is
registered before the object (`Outlived`), and a live object is registered or is
a subnet whose network is (`Covered`). The last clause is why a failed wait is
harmless: the unregistered subnet goes with its network. For a body that does
not keep to the order only `Accounted` survives: what is alive was kept, is
still registered, is being waited for, or its Conflict was reported.
`BodySeesServedSubnets` needs `Served`: the class asks for the agent no later
than at its first subnet, so that no subnet is older than the answer, and the
only one that may lack its DHCP port is the one being waited for.

The servers (`TrunksProofs`). Each property speaks of one moment; `Owned` and `ToClean` hold at
every one: a server that exists is the body's, or reported, or in the hands of
the call that deploys or cleans it up; and one that is to be cleaned up is in
the stack, in those hands, or reported. Nova never makes a server exist, so only
the test's own steps need care.

The trunk. Every step with a trunk is one of `Servers` or leaves it as it is
(`ServersUndisturbed`), so all that is proved of the servers holds here too. The
trunk's own invariant adds that only servers that exist are plugged (`Plugged`),
where its cleanup stands in the stack (`Placed`), and what each step of
`delete_trunk` knows (`Outcome`). `ToClean` of the servers is what shows that a
server cleaned up before the trunk cannot be on its port.

`VsdFixturesProofs`. `Known` says that each object is in somebody's hands and
`Behind` that the loops leave empty lists behind: `NothingLeftSilently` follows.
`OrderedParents`, what may stand on what, with `Behind` shows that a deletion of a
loop that is under way meets no children; `Untroubled` says what holds as long as
nothing failed.

`GatewaysProofs`. As there, but loops leave things: `Contained` says that what a
loop came by and left has failed or carries something. It is inductive because
what a later step deletes carries nothing that a loop has come by: what stands
on an object is of an earlier loop (`Standing`, `BasesAreLater`, `Progress`).

`ReleasesProofs`. `StringLess` and `ListLess` are shown transitive and total from
the first place at which two sequences differ; `Lt` inherits this except where
`0.0`, "the newest", meets itself.

`MixinsProofs`. Every helper is a `Create` or a `Scope` of one object, but for a
trunk with its subports and a router with its interfaces, so the steps are
proved once for the two ways and each helper is shown to be one of them.
`NothingLeftSilently` speaks of the end; `Accounted` says at every moment that
what the test made is gone, planned for deletion (in a scope or a cleanup), reported, given up by its firewall
agent, or `kept`. It is not inductive alone: a NotFound that is ignored must mean
that the object is gone or was `kept` when a helper dropped `as_admin`, which
`AllFit` gets from the credentials of the helper that planned the deletion; a firewall that is waited for must be gone, pending or in
ERROR (`Waited`); and the scope of a router, which removes interfaces first and
may stop there, must have the router's deletion registered as well (`Backed`).

`TidyIsClean` needs the order. While a test is tidy (`Tidy`) every live object
of the test is planned (`Planned`), no list plans it twice (`Separate`), and
whatever stands on a planned object goes before it: with it, earlier in the same
list, or in a scope when the object has a cleanup (`Ordered`, of the scopes after
nothing and of the cleanups after the scopes). A new object is planned at the head of its
list, and stands only on what is planned further down: a helper that registers a cleanup for
something that stands on a scope's object is the one untidy way to make it. A
deletion at the head therefore meets no users, and it sees its object, since the
helper that made it asks as who made it or is one of those that drop `as_admin`,
which is untidy. What a router's scope leaves to the registered deletion is ignored there
(`ScopesFit`), and firewall agents act only after the body (`AgentsAreLate`).

`CliTestCaseProofs`. `CleanMeansGone` speaks of the user's and the project's
deletion, `Watching` of every moment before: what was on a cleaned list or
registered, and is still there, is on the list or registered, as long as no
cleanup raised. It also covers an object that is listed before it exists, which would
be an output read wrongly, so that the theorem does not rest on the parser.
`Attached` says that a router with interfaces stays, so that a router that went
had them removed.

The parser's operators are folds over the lines of an output. Each fold is a
sequence of states (`TableIs`, `TablesAre`, `ItemIs`), and what the k-th state is
follows by an induction over k that is done on sets of numbers (`NatSet`: a set
with 0 and with every successor has all of them), since an induction theorem
with an operator as parameter is beyond the prover. `Shows` says which line is
where in an output, `Fills` which row of an item is where among its fields,
whatever the number of lines of each value. `DetailsRead` and `ListingRead` hold
for every item whose keys differ, are not empty and have at least one line each,
and for every list; no bound on either. The one constraint is needed: with an empty key
a field would be read as more of the one before.

`TidyGoes` rests on them. `Accounted` says that what is listed or registered was
made and is due once; `ListedIsThere`, as long as nothing excuses an error, that
the cleaned lists are what is there of their kinds, which is where
a created object must have been read as it was printed; and `InOrder`, while a
test's cleanups run, that each of them sees its object and that only what goes before
it stands on it. With the order of the lists (`CleanedLists`) no deletion fails.

Only model-checked: liveness, which needs fairness and ENABLED and is beyond the
prover. Every safety property of a passing run has a theorem. The run of
`Releases` looks for one violation, which is under Disagreements. Only
`RestProxy` has an abstract specification.

## Disagreements

* `rejected_credentials`: a VSD that refuses the password makes `rest_call` and
  `generate_nuage_auth` call each other until the stack is full; the assertion
  "Could not authenticate to REST server. Abort" is not reached.
* `unreachable_server`: when every attempt meets a socket error `_rest_call` returns
  None, and `rest_call` reads its status: AttributeError instead of "Could not
  establish conn with REST server. Abort".
* `auto_cleanup`: a server whose deployment and whose destruction failed is not
  registered for the teardown, whatever `cleanup` says.
* `none_instead_of_failure`: `create_server` is called outside the `try`, so a
  server that Nova refuses fails the test in spite of `return_none_on_failure`.
* `features_load`: with a release 3.2 or 4.0, which the help of `nuage_sut.release`
  gives as examples, `_set_features` never sets `switchdev_offload` and
  `_log_features` reads it: importing `lib/features.py` raises AttributeError.

## Observations

Met while modelling, and kept here without a run of their own.

* `lib/mixins/sg.py`: `setup_clients` assigns to `sg_client` and `sg_rules_client`, which
  are methods; with tenant credentials the helpers raise TypeError.
  `NetworkMixin.trunk` hands `as_admin` on to `create_trunk` (TypeError).
* A helper that takes `as_admin` and deletes as the tenant leaves the admin's
  object behind without a word (`HelpersDropping`, `ScopesDropping` in `Mixins`). A firewall in ERROR is taken for
  deleted. `create_ikepolicy` and `create_ipsecpolicy` of the VPNaaS clients drop
  their keyword arguments.
* `nuage_client.py` 519 and 564 (`create_floatingip`, `create_staticroute`) read
  `self.extra_params`, which does not exist.
* `base_vsd_managed_networks.py:71` reads the key `id` of a policy group whose key
  is `ID`; no test fills that list.
* `resource_cleanup` of the CLI test case reads `cls.user`; when set-up failed before
  making it the project stays, which is reported. `list_nuage_floating_ip_all` (467) reads a list
  with `details()` and always raises.
* The redundancy class makes its lists after its base class's set-up: when that
  fails, its cleanup raises AttributeError before anything is deleted and the
  net-partition stays; the exception is the report.
* `wait_until_true` (`data_utils.py:67-86`) fails although its predicate became true during
  the last sleep. `delete_interface` races with Nova: a server that goes between
  `show_port` and it leaves the trunk, reported.
* `release.py`: `__eq__` compares sub releases although its docstring says that "4.0R1 ==
  4.0 evaluates to True"; `__gt__` is "not less" and so true at equality; '3.2R9' counts as from
  '3.2R10' and '20.5' sorts before '5.4'; '5' parses as 0.0, the newest.

## Not modelled

Test bodies (`tests/`) are scripts over the components above, represented by the
nondeterministic bodies of the modules. `plugin.py` and `config.py` declare
options; constants and exceptions have no state. The session of
`lib/test/vsd_helper.py` is vspk's: what a failed start leaves in it and whether a later
request logs in again is decided in that library, which is not in this
repository; the rest of the file is filters and assignments. The orchestration
base class loops over VSD objects like the VSD-managed test base; its stacks are
Heat's. Of the service clients the requests that tests, mixins and fixtures send
are in the modules above; `get_` and `update_` methods that change nothing a
cleanup depends on are left out, and so are security groups and keypairs of
`NuageBaseTest`, which repeat three lines that are modelled for the others. The
console, floating IP and ping of `TenantServer` read state and change none that a
cleanup depends on; neither do the l2/l3 marks of a network.

## Plan

What is left, in order.

1. An abstract teardown ("every registered deletion is attempted once") that
   `Fixtures`, `Trunks` and `Mixins` implement.
2. The l2/l3 marks of a network (`router_attach`, `router_detach`) with the choice
   of the port a server is given.
3. Security groups of `NuageBaseTest` with the ports that use them.
