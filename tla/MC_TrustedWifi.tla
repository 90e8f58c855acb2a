-------------------------- MODULE MC_TrustedWifi --------------------------
(* Instance of TrustedWifi for TLC: two networks and four Wi-Fi settings.  *)
(*   Strict: trust control with every action; s1 trusted, others         *)
(*           untrusted by default; connect on insecure networks.          *)
(*   Mixed:  "disconnect VPN" and "enable firewall" only; s1 listed twice *)
(*           (untrusted first, then trusted); no default trust.           *)
(*   Off:    trust control disabled; connect on insecure networks.        *)
(*   Open:   trust control, nothing listed, every network trusted.        *)
EXTENDS TrustedWifi

CONSTANTS s1, s2

All == [trustedDisconnectVpn |-> TRUE, trustedDisableFirewall |-> TRUE,
        unTrustedEnableFirewall |-> TRUE, unTrustedConnectVpn |-> TRUE]

Strict == [trustedNetworksControl |-> TRUE, actions |-> All,
           networks |-> <<[ssid |-> s1, isTrusted |-> TRUE]>>,
           defaultTrusted |-> FALSE, connectVPNOnInsecureNetwork |-> TRUE]

Mixed == [trustedNetworksControl |-> TRUE,
          actions |-> [All EXCEPT !.trustedDisableFirewall = FALSE,
                                  !.unTrustedConnectVpn = FALSE],
          networks |-> <<[ssid |-> s1, isTrusted |-> FALSE],
                         [ssid |-> s1, isTrusted |-> TRUE]>>,
          defaultTrusted |-> Null, connectVPNOnInsecureNetwork |-> TRUE]

Off == [Strict EXCEPT !.trustedNetworksControl = FALSE]

Open == [trustedNetworksControl |-> TRUE, actions |-> All, networks |-> <<>>,
         defaultTrusted |-> TRUE, connectVPNOnInsecureNetwork |-> FALSE]

MCWifiConfigs == {Strict, Mixed, Off, Open}

=============================================================================
