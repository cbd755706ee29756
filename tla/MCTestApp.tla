----------------------------- MODULE MCTestApp ------------------------------
(* Constants for TLC: one platform for every way that a class takes        *)
EXTENDS TestApp

AllWays == {"android", "c-android", "ios", "c-ios", "java-msft", "java-centos",
            "javaws-msft", "javaws-centos", "c-debian", "net-msft", "c-msft", "c-uwp", "net-mono",
            "lite-android", "lite-ios", "lite-macosx", "lite-net-mono", "lite-net-msft"}
=============================================================================
