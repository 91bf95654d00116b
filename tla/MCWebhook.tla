----------------------------- MODULE MCWebhook -----------------------------
(* Instances of Webhook for TLC.                                           *)
EXTENDS Webhook, TLC

SomeNames == {"secret", "token", "repo", "other", "pull_request", "push",
              "opened", "closed", "ok", "look"}

Plain == [secret |-> "secret", token |-> "token", pass |-> None, warn |-> None,
          repos |-> None, events |-> None, url |-> "home"]

Item(n) == [name |-> n, blanks |-> FALSE]
Spaced(n) == [name |-> n, blanks |-> TRUE]

\* "other, repo," and "pull_request, push", labels of one's own.
Custom == [Plain EXCEPT !.repos = {Item("other"), Spaced("repo"), Item("")},
                        !.events = {Item("pull_request"), Spaced("push")},
                        !.pass = "ok", !.warn = "look", !.url = "home/"]

\* What may be wrong with an environment, on its own.
SomeEnvironments ==
  {Plain, Custom,
   [Plain EXCEPT !.secret = None], [Plain EXCEPT !.secret = ""],
   [Plain EXCEPT !.secret = "other"], [Plain EXCEPT !.token = ""],
   [Plain EXCEPT !.url = None], [Plain EXCEPT !.repos = {Item("other")}],
   [Plain EXCEPT !.repos = {Spaced("")}, !.events = {Item("")}]}

Fine == [small |-> TRUE, key |-> "secret", event |-> "pull_request",
         json |-> TRUE, trusted |-> TRUE, action |-> "opened"]

\* GitHub's event, one without a digest, one signed with the empty key, one
\* whose action is ignored, one that is too large and one with another host.
SomeDeliveries ==
  {Fine, [Fine EXCEPT !.key = None, !.json = FALSE], [Fine EXCEPT !.key = ""],
   [Fine EXCEPT !.action = "closed"], [Fine EXCEPT !.small = FALSE],
   [Fine EXCEPT !.trusted = FALSE]}

\* First an Error finding, then a clean diff, then one on the threshold.
ThreeVersions ==
  0 :> [error |-> 1, warning |-> 0, info |-> 0] @@
  1 :> [error |-> 0, warning |-> 1, info |-> 2] @@
  2 :> [error |-> 0, warning |-> 3, info |-> 1]

=============================================================================
