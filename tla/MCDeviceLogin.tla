---------------------------- MODULE MCDeviceLogin ----------------------------
(***************************************************************************)
(* A deployment on the default host, an authorization server on another    *)
(* host over https, and a third host over http.                            *)
(***************************************************************************)
EXTENDS DeviceLogin

CONSTANTS saas, auth, plain

At(host, mount) == [host |-> host, mount |-> mount]

Doc(issuer, device, token) ==
  [issuer |-> issuer, device |-> device, token |-> token, register |-> NoURL]

\* Each issuer's own document, one with other endpoints, one with a foreign one.
MCDocuments ==
  {Doc(At(h, ""), At(h, ""), At(h, "")) : h \in {saas, auth, plain}}
  \cup {Doc(At(saas, "/api"), At(saas, "/api"), At(saas, "/api")),
        Doc(At(saas, "/api"), At(saas, "/api"), At(plain, "")),
        Doc(At(auth, ""), At(auth, ""), At(auth, "/api")),
        Doc(At(auth, ""), At(plain, ""), At(auth, ""))}

LoggedOut ==
  [url |-> NoURL, ws |-> "none", issuer |-> NoURL, access |-> NoToken,
   refresh |-> NoToken, expiry |-> NoToken]

\* A profile that has logged in to the authorization server before.
Earlier(url) ==
  [url |-> url, ws |-> "kept", issuer |-> At(auth, ""),
   access |-> OldToken(At(auth, "")), refresh |-> OldToken(At(auth, "")),
   expiry |-> OldToken(At(auth, ""))]

Plain ==
  [profile |-> LoggedOut, envURL |-> NoURL, flagURL |-> NoURL, wsFlag |-> FALSE,
   prompt |-> FALSE, timeout |-> 0, approval |-> 0, expiresIn |-> 0, interval |-> 0]

\* The profile and where the endpoint comes from, with an approval in time.
URLInputs ==
  {[Plain EXCEPT !.profile = p, !.envURL = e, !.flagURL = f] :
     p \in {LoggedOut, Earlier(At(saas, "/api")), Earlier(At(plain, "/api/v1"))},
     e \in {NoURL, At(saas, "/api")}, f \in {NoURL, At(saas, "/api/v1")}}
  \cup {[Plain EXCEPT !.wsFlag = w, !.prompt = TRUE] : w \in BOOLEAN}

\* The server's interval and expiry, --timeout and the user's approval.
TimeInputs ==
  {[Plain EXCEPT !.interval = i, !.expiresIn = x, !.timeout = t, !.approval = a] :
     i \in {0, 7}, x \in {0, 20}, t \in {0, 3, 12}, a \in {0, 4, 11, 16, 99}}

MCInputs == URLInputs \cup TimeInputs
=============================================================================
