-------------------------------- MODULE Classes --------------------------------
(***************************************************************************)
(* The class of a flow (main.c): decided by its ports, its names and its    *)
(* protocol.  A rule that comes first wins.                                 *)
(***************************************************************************)
EXTENDS Integers, FiniteSetsExt, SequencesExt, TLC

CONSTANT Multicast  \* addresses 224 to 239, and ff in IPv6

TCP == 6
UDP == 17
ICMP == 1
ICMP6 == 58
SCTP == 132

\* No class; no name.
NoClass == ""
NoName == <<>>

\* A key names the source and the destination, their ports and the protocol.
\* (Mutant: only the destination is a server.)
ToPort(k, port) == k.dport = port
HasPort(k, port) == k.sport = port \/ k.dport = port
HasAny(k, ports) == \E port \in ports : HasPort(k, port)

\* g_port_class_rules
PortRules ==
  << <<5353, "mdns">>, <<5355, "llmnr">>, <<53, "dns">>, <<853, "dot">>, <<123, "ntp">>,
     <<111, "rpcbind">>, <<135, "msrpc">>, <<593, "msrpc">>, <<22, "ssh">>, <<21, "ftp">>,
     <<20, "ftp_data">>, <<23, "telnet">>, <<873, "rsync">>, <<9418, "git">>, <<3690, "svn">>,
     <<25, "smtp">>, <<465, "smtp">>, <<587, "smtp">>, <<110, "pop3">>, <<995, "pop3">>,
     <<143, "imap">>, <<993, "imap">>, <<389, "ldap">>, <<636, "ldap">>, <<88, "kerberos">>,
     <<1812, "radius">>, <<1813, "radius">>, <<67, "dhcp">>, <<68, "dhcp">>, <<69, "tftp">>,
     <<137, "netbios">>, <<138, "netbios">>, <<139, "netbios">>, <<445, "smb">>,
     <<2049, "nfs">>, <<3260, "iscsi">>, <<3306, "mysql">>, <<5432, "postgres">>,
     <<1433, "mssql">>, <<1434, "mssql">>, <<1521, "oracle">>, <<9042, "cassandra">>,
     <<26257, "cockroachdb">>, <<8123, "clickhouse">>, <<9000, "clickhouse">>,
     <<9004, "clickhouse">>, <<9005, "clickhouse">>, <<9440, "clickhouse">>, <<6379, "redis">>,
     <<27017, "mongodb">>, <<27018, "mongodb">>, <<27019, "mongodb">>, <<11211, "memcached">>,
     <<5672, "amqp">>, <<5671, "amqp">>, <<15672, "rabbitmq_mgmt">>,
     <<15671, "rabbitmq_mgmt">>, <<1883, "mqtt">>, <<8883, "mqtt">>, <<9092, "kafka">>,
     <<2181, "zookeeper">>, <<2379, "etcd">>, <<2380, "etcd">>, <<2381, "etcd">>,
     <<2382, "etcd">>, <<2375, "docker_api">>, <<2376, "docker_api">>, <<2601, "zebra">>,
     <<2602, "ripd">>, <<2603, "ripngd">>, <<2604, "ospfd">>, <<2605, "bgpd">>,
     <<2606, "ospf6d">>, <<2607, "isisd">>, <<2608, "babeld">>, <<2609, "pimd">>,
     <<2610, "ldpd">>, <<2611, "nhrpd">>, <<2612, "eigrpd">>, <<2613, "bfdd">>,
     <<2614, "fabricd">>, <<2615, "pathd">>, <<2616, "staticd">>, <<2617, "bfdd">>,
     <<3784, "bfdd">>, <<3785, "bfdd">>, <<4784, "bfdd">>, <<6443, "k8s_api">>,
     <<10250, "kubelet">>, <<10050, "zabbix">>, <<10051, "zabbix">>, <<8500, "consul">>,
     <<8502, "consul">>, <<8600, "consul">>, <<8200, "vault">>, <<8201, "vault">>,
     <<4646, "nomad">>, <<4647, "nomad">>, <<4648, "nomad">>, <<9200, "elasticsearch">>,
     <<9300, "elasticsearch">>, <<5601, "kibana">>, <<9090, "prometheus">>,
     <<9093, "alertmanager">>, <<9100, "node_exporter">>, <<9411, "zipkin">>,
     <<19999, "netdata">>, <<3000, "grafana">>, <<3100, "loki">>, <<5044, "logstash">>,
     <<5666, "nrpe">>, <<24224, "fluentd">>, <<4317, "otlp">>, <<4318, "otlp">>,
     <<6831, "tracing">>, <<6832, "tracing">>, <<14250, "tracing">>, <<14268, "tracing">>,
     <<16686, "tracing">>, <<8086, "influxdb">>, <<8125, "statsd">>, <<8126, "datadog_apm">>,
     <<161, "snmp">>, <<162, "snmp">>, <<514, "syslog">>, <<6514, "syslog">>, <<631, "ipp">>,
     <<49, "tacacs">>, <<464, "kerberos_kpasswd">>, <<554, "rtsp">>, <<655, "tinc">>,
     <<749, "kerberos_admin">>, <<20048, "mountd">>, <<3389, "rdp">>, <<5900, "vnc">>,
     <<5060, "sip">>, <<5061, "sip">>, <<500, "ipsec">>, <<4500, "ipsec">>, <<4505, "salt">>,
     <<4506, "salt">>, <<1194, "openvpn">>, <<1701, "l2tp">>, <<1723, "pptp">>,
     <<51820, "wireguard">>, <<51821, "wireguard">>, <<32223, "wireguard">>,
     <<35053, "wireguard">>, <<10251, "wireguard">>, <<10000, "wireguard">>,
     <<65100, "wireguard">>, <<4789, "vxlan">>, <<6081, "geneve">>, <<179, "bgp">> >>

\* classify_by_port_rules
ByPort(k) ==
  LET matched == {i \in DOMAIN PortRules : HasPort(k, PortRules[i][1])}
  IN  IF matched = {} THEN NoClass ELSE PortRules[Min(matched)][2]

\* classify_icmp
IcmpTypes ==
  [t \in {0, 3, 5, 8, 11} |->
     CASE t = 8 -> "icmp_echo" [] t = 0 -> "icmp_echo_reply" [] t = 3 -> "icmp_unreachable"
       [] t = 11 -> "icmp_time_exceeded" [] t = 5 -> "icmp_redirect"]
Icmp6Types ==
  [t \in {128, 129, 134, 135, 136} |->
     CASE t = 134 -> "icmpv6_router_advert" [] t \in {135, 136} -> "icmpv6_nd"
       [] t \in {128, 129} -> "icmpv6_echo"]
ByIcmp(proto, type) ==
  IF proto = ICMP
    THEN IF type \in DOMAIN IcmpTypes THEN IcmpTypes[type] ELSE "icmp"
    ELSE IF type \in DOMAIN Icmp6Types THEN Icmp6Types[type] ELSE "icmpv6"

\* classify_ip_proto
ByProto ==
  [p \in {2, 47, 50, 51, 89, 103, 112, SCTP} |->
     CASE p = 2 -> "igmp" [] p = 47 -> "gre" [] p = 50 -> "esp" [] p = 51 -> "ah"
       [] p = 89 -> "ospf" [] p = 103 -> "pim" [] p = 112 -> "vrrp" [] p = SCTP -> "sctp"]

\* classify_by_early_port_rules
EarlyPorts == {5353, 5355, 53, 853, 123}
ByEarlyPort(k) == IF HasAny(k, EarlyPorts) THEN ByPort(k) ELSE NoClass

\* classify_flow: its rules in their order.
HttpPorts == {80, 8000, 8008, 8080, 8888}
HttpsPorts == {443, 8443, 9443}
Rules(k, sni, host) ==
  << <<ByEarlyPort(k) # NoClass, ByEarlyPort(k)>>,
     <<k.proto = UDP /\ HasAny(k, HttpsPorts), "quic">>,
     <<HasAny(k, HttpPorts) /\ host # NoName, "http">>,
     <<HasAny(k, HttpsPorts) /\ sni # NoName, "https">>,
     <<k.dst \in Multicast, "multicast">>,
     <<sni # NoName \/ host # NoName, "named_app">>,
     <<HasAny(k, HttpsPorts), "https">>,
     <<HasAny(k, HttpPorts), "http">>,
     <<ByPort(k) # NoClass, ByPort(k)>>,
     <<TRUE, "other">> >>
ClassifyFlow(k, sni, host) ==
  LET rules == Rules(k, sni, host)
  IN  rules[Min({i \in DOMAIN rules : rules[i][1]})][2]

\* What packet_handler makes of the three.
ClassTag(k, icmpType, sni, host) ==
  IF k.proto \in {ICMP, ICMP6} THEN ByIcmp(k.proto, icmpType)
  ELSE IF k.proto \in {TCP, UDP} THEN ClassifyFlow(k, sni, host)
  ELSE ByProto[k.proto]
=============================================================================
