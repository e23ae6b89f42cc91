------------------------ MODULE EnvironmentDetector ------------------------
(***************************************************************************)
(* On which platform a process of the SDK takes itself to be.  Every       *)
(* platform has signals: files, environment variables, metadata services.  *)
(* A host is the set of the signals it gives; what they weigh is added up, *)
(* and the platform with the highest sum is taken for the one.             *)
(*                                                                         *)
(* Weights and thresholds are in twentieths.                               *)
(***************************************************************************)
EXTENDS Integers, FiniteSetsExt

Present(signals, host) == Cardinality(signals \cap host)

Whole == 20     \* a confidence of 1

(* A platform whose signals weigh more than least is detected; one whose   *)
(* signals weigh more than enough is thought able to bootstrap.            *)
Detected(platform, weight, least, enough) ==
    IF weight > least
    THEN {[platform |-> platform, confidence |-> Min({weight, Whole}), capable |-> weight > enough]}
    ELSE {}

(* As the sums of three tenths that can occur come out above three tenths, *)
(* they pass that threshold.                                               *)
DetectKubernetes(host) ==
    LET weight == 12 * Present({"k8s token"}, host)
                  + 4 * Present({"k8s namespace"}, host)
                  + 2 * Present({"KUBERNETES_SERVICE_HOST", "KUBERNETES_SERVICE_PORT",
                                 "KUBERNETES_PORT"}, host)
                  + Present({"kubectl config"}, host)
    IN  Detected("kubernetes", weight, 5, 10)

DetectAws(host) ==
    LET weight == 10 * Present({"AWS_LAMBDA_FUNCTION_NAME", "EC2 metadata"}, host)
                  + 8 * Present({"AWS_EXECUTION_ENV", "ECS_CONTAINER_METADATA_URI"}, host)
                  + 6 * Present({"AWS_REGION", "AWS_CONTAINER_CREDENTIALS_RELATIVE_URI"}, host)
                  + 4 * Present({"AWS_DEFAULT_REGION", "AWS_ROLE_ARN"}, host)
                  + 2 * Present({"aws credentials"}, host)
    IN  Detected("aws", weight, 4, 8)

DetectAzure(host) ==
    LET weight == 12 * Present({"Azure IMDS"}, host)
                  + 8 * Present({"MSI_ENDPOINT", "IDENTITY_ENDPOINT"}, host)
                  + 6 * Present({"AZURE_TENANT_ID", "AZURE_CLIENT_ID", "IDENTITY_HEADER"}, host)
                  + 4 * Present({"AZURE_CLIENT_SECRET", "AZURE_SUBSCRIPTION_ID"}, host)
                  + 2 * Present({"azure config"}, host)
    IN  Detected("azure", weight, 4, 8)

(* Of the control group only the first of three names counts.              *)
DetectDocker(host) ==
    LET group  == CASE "cgroup docker" \in host -> 8
                    [] "cgroup docker" \notin host /\ "cgroup containerd" \in host -> 6
                    [] {"cgroup docker", "cgroup containerd"} \cap host = {}
                       /\ "cgroup pod" \in host -> 4
                    [] OTHER -> 0
        weight == group + 12 * Present({"/.dockerenv"}, host)
                  + 4 * Present({"container hostname"}, host)
                  + 2 * Present({"other init", "few binaries"}, host)
    IN  Detected("docker", weight, 4, 8)

(* Half a point for nothing, less for what hints at a cloud, and no upper  *)
(* limit.                                                                  *)
DetectLocal(host) ==
    LET weight == 10
                  + 2 * Present({"/home", "/usr/local", "/opt", "terminal", "DISPLAY"}, host)
                  + 4 * Present({"developer tools"}, host)
                  - 6 * Present({"AWS_REGION", "AZURE_TENANT_ID", "KUBERNETES_SERVICE_HOST",
                                 "/.dockerenv"}, host)
    IN  {[platform |-> "local", confidence |-> Max({weight, 2}), capable |-> FALSE]}

(* detect_environment.  Which of two equal sums is the higher depends on   *)
(* how they were rounded.                                                  *)
DetectEnvironment(host) ==
    LET detections == DetectKubernetes(host) \cup DetectAws(host) \cup DetectAzure(host)
                      \cup DetectDocker(host) \cup DetectLocal(host)
    IN  {d \in detections : \A e \in detections : e.confidence <= d.confidence}

(* get_recommended_bootstrap_method: at most one platform.                 *)
RecommendedBootstrapMethods(host) ==
    {IF d.capable THEN {d.platform} ELSE {} : d \in DetectEnvironment(host)}
=============================================================================
