SPECIFICATION Spec
CONSTANTS
    Threads = {"main", "server", "executor"}
    Topics = {"odom", "amcl_pose", "lidar_fusion_pcl"}
    Rounds = 2
    MaxMessages = 2
    MaxMotions = 2
CHECK_DEADLOCK FALSE
INVARIANTS
    FilterFitsGait
    CloudIsWhole
    PositionIsFresh
